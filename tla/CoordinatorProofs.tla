------------------------- MODULE CoordinatorProofs -------------------------
(***************************************************************************)
(* Proofs about Coordinator, for every number of adapters, every limit and *)
(* every size of the event bus: its state has the declared shape, every    *)
(* state it reaches can be restored, the newest lifecycle record of an     *)
(* owner is never lost, a destroyed owner never comes back, and scheduling *)
(* is round-robin.                                                         *)
(***************************************************************************)
EXTENDS Coordinator, FiniteSetTheorems, WellFoundedInduction, TLAPS

\* What Restore asks of one adapter.
Sound(adapter) ==
  /\ adapter \in AdapterStates
  /\ adapter.budgetUsed <= adapter.runBudget
  /\ adapter.callbackCount <= MaxCallbacks
  /\ adapter.fault => adapter.lifecycle = "faulted"

AdaptersSound ==
  \A owner \in RegisteredOwners :
    /\ owner < nextOwner /\ adapters[owner].lastSequence < nextSequence
    /\ Sound(adapters[owner])

OwnersKnown ==
  {foregroundOwner, presentationOwner, schedulerCursor} \subseteq RegisteredOwners \cup {0}

\* The bus never holds more than its limit: what makes room for a record
\* whenever one of the same owner was dropped for it.
BusBounded == IsFiniteSet(pending) /\ Cardinality(pending) <= MaxEvents

\* Events name owners that have been registered: a new owner starts with none.
EventsOfKnownOwners == \A e \in pending : e.owner < nextOwner

IInv ==
  /\ TypeOK
  /\ Cardinality(RegisteredOwners) <= MaxAdapters
  /\ AdaptersSound
  /\ OwnersKnown
  /\ BusBounded
  /\ EventsOfKnownOwners
  /\ NewestRecordSurvives

-----------------------------------------------------------------------------
LEMMA NoAdapterIsNone == NoAdapter \notin AdapterStates
BY DEF NoAdapter, AdapterStates, States

LEMMA RegisteredFinite ==
  ASSUME NEW S \in SUBSET Owners
  PROVE  IsFiniteSet(S)
<1>1. IsFiniteSet(Owners)
  BY FS_Interval, CoordinatorAssumption DEF Owners
<1> QED BY <1>1, FS_Subset

LEMMA InitIInv == Init => IInv
<1> SUFFICES ASSUME Init PROVE IInv
  OBVIOUS
<1> USE CoordinatorAssumption, MaxEventsAssumption
<1>1. RegisteredOwners = {}
  BY DEF Init, RegisteredOwners, Registered
<1>2. Cardinality(RegisteredOwners) = 0 /\ Cardinality(pending) = 0 /\ IsFiniteSet(pending)
  BY <1>1, FS_EmptySet DEF Init
<1>3. TypeOK
  BY DEF Init, TypeOK, Owners
<1>4. AdaptersSound /\ OwnersKnown /\ EventsOfKnownOwners /\ NewestRecordSurvives
  BY <1>1 DEF Init, AdaptersSound, OwnersKnown, EventsOfKnownOwners, NewestRecordSurvives
<1> QED BY <1>2, <1>3, <1>4 DEF IInv, BusBounded

\* A step that keeps who is registered, what was announced and the bus, and
\* leaves every adapter within its limits, preserves the invariant.
LEMMA QuietStep ==
  ASSUME IInv,
         adapters' \in [Owners -> AdapterStates \cup {NoAdapter}],
         \A o \in Owners :
           /\ ~Registered(o) => adapters'[o] = NoAdapter
           /\ Registered(o) => /\ Sound(adapters'[o])
                               /\ adapters'[o].lastSequence = adapters[o].lastSequence,
         nextOwner' = nextOwner, pending' = pending,
         nextSequence' = nextSequence, taken' = taken,
         {foregroundOwner', presentationOwner', schedulerCursor'} \subseteq RegisteredOwners \cup {0},
         overtook' \in [Owners -> SUBSET Owners]
  PROVE  IInv'
<1> USE CoordinatorAssumption
<1>1. \A o \in Owners : Registered(o)' <=> Registered(o)
  BY NoAdapterIsNone DEF Registered, Sound
<1>2. RegisteredOwners' = RegisteredOwners
  BY <1>1 DEF RegisteredOwners
<1>3. TypeOK'
  BY DEF IInv, TypeOK, RegisteredOwners, Owners
<1>4. AdaptersSound' /\ OwnersKnown'
  BY <1>2 DEF IInv, AdaptersSound, OwnersKnown, RegisteredOwners, Sound
<1>5. BusBounded' /\ EventsOfKnownOwners'
  BY DEF IInv, BusBounded, EventsOfKnownOwners
<1>6. NewestRecordSurvives'
  BY <1>2 DEF IInv, NewestRecordSurvives, Records, RegisteredOwners
<1> QED BY <1>2, <1>3, <1>4, <1>5, <1>6 DEF IInv

LEMMA KeepTurnsType ==
  ASSUME IInv, KeepTurns
  PROVE  overtook' \in [Owners -> SUBSET Owners]
BY DEF IInv, TypeOK, KeepTurns

\* One adapter changes and stays within its limits.
LEMMA AdapterStep ==
  ASSUME IInv, KeepTurns,
         NEW owner \in Owners, Registered(owner),
         NEW adapter, Sound(adapter),
         adapter.lastSequence = adapters[owner].lastSequence,
         adapters' = [adapters EXCEPT ![owner] = adapter],
         nextOwner' = nextOwner, pending' = pending,
         nextSequence' = nextSequence, taken' = taken,
         {foregroundOwner', presentationOwner', schedulerCursor'} \subseteq RegisteredOwners \cup {0}
  PROVE  IInv'
<1>1. adapters \in [Owners -> AdapterStates \cup {NoAdapter}]
  BY DEF IInv, TypeOK
<1>2. adapters' \in [Owners -> AdapterStates \cup {NoAdapter}]
  BY <1>1 DEF Sound
<1>3. \A o \in Owners :
        /\ ~Registered(o) => adapters'[o] = NoAdapter
        /\ Registered(o) => /\ Sound(adapters'[o])
                            /\ adapters'[o].lastSequence = adapters[o].lastSequence
  BY <1>1 DEF IInv, AdaptersSound, RegisteredOwners, Registered
<1> QED BY <1>2, <1>3, KeepTurnsType, QuietStep

\* The type and the limits of a registered adapter, ready to use.
LEMMA AdapterFacts ==
  ASSUME IInv, NEW owner \in Owners, Registered(owner)
  PROVE  /\ Sound(adapters[owner]) /\ owner < nextOwner
         /\ adapters \in [Owners -> AdapterStates \cup {NoAdapter}]
         /\ {foregroundOwner, presentationOwner, schedulerCursor} \subseteq RegisteredOwners \cup {0}
         /\ owner \in RegisteredOwners
BY DEF IInv, TypeOK, AdaptersSound, OwnersKnown, RegisteredOwners

-----------------------------------------------------------------------------
(* The operations that announce nothing. *)

LEMMA RaiseRunBudgetStep ==
  ASSUME IInv, NEW owner \in Owners, NEW minimum \in Minimums, RaiseRunBudget(owner, minimum)
  PROVE  IInv'
<1> DEFINE adapter == [adapters[owner] EXCEPT !.runBudget = minimum]
<1>1. Registered(owner)
  BY DEF RaiseRunBudget
<1>2. Sound(adapter) /\ adapter.lastSequence = adapters[owner].lastSequence
  BY <1>1, AdapterFacts, CoordinatorAssumption DEF RaiseRunBudget, Sound, AdapterStates
<1>3. adapters' = [adapters EXCEPT ![owner] = adapter]
  BY DEF RaiseRunBudget
<1> QED BY <1>1, <1>2, <1>3, AdapterFacts, AdapterStep DEF RaiseRunBudget, busVars

LEMMA ConsumeStep ==
  ASSUME IInv, NEW owner \in Owners, NEW instructions \in Nat, Consume(owner, instructions)
  PROVE  IInv'
<1> DEFINE adapter == [adapters[owner] EXCEPT !.budgetUsed = @ + instructions]
<1>1. Registered(owner)
  BY DEF Consume
<1>2. Sound(adapter) /\ adapter.lastSequence = adapters[owner].lastSequence
  BY <1>1, AdapterFacts, CoordinatorAssumption DEF Consume, Sound, AdapterStates
<1>3. adapters' = [adapters EXCEPT ![owner] = adapter]
  BY DEF Consume
<1> QED BY <1>1, <1>2, <1>3, AdapterFacts, AdapterStep DEF Consume, busVars

LEMMA EnterCallbackStep ==
  ASSUME IInv, NEW owner \in Owners, EnterCallback(owner)
  PROVE  IInv'
<1> DEFINE adapter == [adapters[owner] EXCEPT !.callbackCount = @ + 1]
<1>1. Registered(owner)
  BY DEF EnterCallback
<1>2. Sound(adapter) /\ adapter.lastSequence = adapters[owner].lastSequence
  BY <1>1, AdapterFacts, CoordinatorAssumption DEF EnterCallback, Sound, AdapterStates
<1>3. adapters' = [adapters EXCEPT ![owner] = adapter]
  BY DEF EnterCallback
<1> QED BY <1>1, <1>2, <1>3, AdapterFacts, AdapterStep DEF EnterCallback, busVars

LEMMA TransitionUnannouncedStep ==
  ASSUME IInv, NEW owner \in Owners, NEW next \in States, TransitionUnannounced(owner, next)
  PROVE  IInv'
<1> DEFINE adapter == [adapters[owner] EXCEPT !.lifecycle = next, !.fault = FALSE]
<1>1. Registered(owner)
  BY DEF TransitionUnannounced
<1>2. Sound(adapter) /\ adapter.lastSequence = adapters[owner].lastSequence
  BY <1>1, AdapterFacts, CoordinatorAssumption DEF Sound, AdapterStates
<1>3. adapters' = [adapters EXCEPT ![owner] = adapter]
  BY <1>1, AdapterFacts DEF TransitionUnannounced
<1> QED BY <1>1, <1>2, <1>3, AdapterFacts, AdapterStep DEF TransitionUnannounced, busVars

\* Any state but faulted may be taken without a fault to go with it.
LEMMA DemotedSound ==
  ASSUME NEW adapter, Sound(adapter), adapter.lifecycle # "faulted",
         NEW state \in States
  PROVE  /\ Sound([adapter EXCEPT !.lifecycle = state])
         /\ [adapter EXCEPT !.lifecycle = state].lastSequence = adapter.lastSequence
BY DEF Sound, AdapterStates

LEMMA SetForegroundStep ==
  ASSUME IInv, NEW owner \in Owners, SetForeground(owner)
  PROVE  IInv'
<1>1. Registered(owner) /\ owner \in RegisteredOwners
  BY DEF SetForeground, RegisteredOwners
<1>2. \A o \in Owners :
        /\ ~Registered(o) => adapters'[o] = NoAdapter
        /\ Registered(o) => /\ Sound(adapters'[o])
                            /\ adapters'[o].lastSequence = adapters[o].lastSequence
  <2> SUFFICES ASSUME NEW o \in Owners
               PROVE  /\ ~Registered(o) => adapters'[o] = NoAdapter
                      /\ Registered(o) => /\ Sound(adapters'[o])
                                          /\ adapters'[o].lastSequence = adapters[o].lastSequence
    OBVIOUS
  <2>1. CASE o = foregroundOwner /\ o # owner /\ Lifecycle(o) = "running"
    <3>1. Registered(o)
      BY <2>1 DEF Registered, NoAdapter, Lifecycle
    <3>2. adapters'[o] = [adapters[o] EXCEPT !.lifecycle = "background"]
      BY <2>1 DEF SetForeground
    <3>3. Sound(adapters[o]) /\ adapters[o].lifecycle # "faulted" /\ "background" \in States
      BY <2>1, <3>1, AdapterFacts DEF Lifecycle, States
    <3> QED BY <3>1, <3>2, <3>3, DemotedSound
  <2>2. CASE o = owner /\ Lifecycle(o) = "background"
    <3>1. adapters'[o] = [adapters[o] EXCEPT !.lifecycle = "paused"]
      BY <2>2 DEF SetForeground
    <3>2. Sound(adapters[o]) /\ adapters[o].lifecycle # "faulted" /\ "paused" \in States
      BY <2>2, <1>1, AdapterFacts DEF Lifecycle, States
    <3> QED BY <2>2, <1>1, <3>1, <3>2, DemotedSound
  <2>3. CASE /\ ~(o = foregroundOwner /\ o # owner /\ Lifecycle(o) = "running")
             /\ ~(o = owner /\ Lifecycle(o) = "background")
    <3>1. adapters'[o] = adapters[o]
      BY <2>3 DEF SetForeground
    <3> QED BY <3>1, AdapterFacts DEF Registered
  <2> QED BY <2>1, <2>2, <2>3
<1>3. adapters' \in [Owners -> AdapterStates \cup {NoAdapter}]
  <2>1. \A o \in Owners : adapters'[o] \in AdapterStates \cup {NoAdapter}
    BY <1>2 DEF Sound
  <2> QED BY <2>1 DEF SetForeground
<1> QED BY <1>1, <1>2, <1>3, AdapterFacts, KeepTurnsType, QuietStep DEF SetForeground, busVars

LEMMA LeaveForegroundStep ==
  ASSUME IInv, NEW owner \in Owners, LeaveForeground(owner)
  PROVE  IInv'
<1> DEFINE adapter == IF Lifecycle(owner) \in {"running", "paused"}
                      THEN [adapters[owner] EXCEPT !.lifecycle = "background"]
                      ELSE adapters[owner]
<1>1. Registered(owner)
  BY DEF LeaveForeground
<1>2. Sound(adapter) /\ adapter.lastSequence = adapters[owner].lastSequence
  BY <1>1, AdapterFacts, DemotedSound DEF Lifecycle, States
<1>3. adapters' = [adapters EXCEPT ![owner] = adapter]
  BY <1>1, AdapterFacts DEF LeaveForeground
<1> QED BY <1>1, <1>2, <1>3, AdapterFacts, AdapterStep DEF LeaveForeground, busVars

LEMMA SetPresentationOwnerStep ==
  ASSUME IInv, NEW owner \in 0 .. MaxOwner - 1, SetPresentationOwner(owner)
  PROVE  IInv'
<1>1. {foregroundOwner', presentationOwner', schedulerCursor'} \subseteq RegisteredOwners \cup {0}
  BY DEF IInv, OwnersKnown, SetPresentationOwner
<1>2. adapters' \in [Owners -> AdapterStates \cup {NoAdapter}]
  BY DEF IInv, TypeOK, SetPresentationOwner
<1>3. \A o \in Owners :
        /\ ~Registered(o) => adapters'[o] = NoAdapter
        /\ Registered(o) => /\ Sound(adapters'[o])
                            /\ adapters'[o].lastSequence = adapters[o].lastSequence
  BY AdapterFacts DEF SetPresentationOwner, Registered
<1> QED BY <1>1, <1>2, <1>3, KeepTurnsType, QuietStep DEF SetPresentationOwner, busVars

LEMMA BeginQuantumStep ==
  ASSUME IInv, BeginQuantum
  PROVE  IInv'
<1>1. \A o \in Owners :
        /\ ~Registered(o) => adapters'[o] = NoAdapter
        /\ Registered(o) => /\ Sound(adapters'[o])
                            /\ adapters'[o].lastSequence = adapters[o].lastSequence
  <2> TAKE o \in Owners
  <2> DEFINE unused == [adapters[o] EXCEPT !.budgetUsed = 0]
  <2>1. adapters'[o] = [unused EXCEPT !.callbackCount = 0]
    BY DEF BeginQuantum
  <2>2. CASE ~Registered(o)
    <3>1. unused = adapters[o]
      BY <2>2 DEF Registered, NoAdapter
    <3>2. [NoAdapter EXCEPT !.callbackCount = 0] = NoAdapter
      BY DEF NoAdapter
    <3> HIDE DEF unused
    <3> QED BY <2>1, <2>2, <3>1, <3>2 DEF Registered
  <2>3. CASE Registered(o)
    <3>1. Sound(adapters[o])
      BY <2>3, AdapterFacts
    <3>2. Sound(unused) /\ unused.lastSequence = adapters[o].lastSequence
      BY <3>1, CoordinatorAssumption DEF Sound, AdapterStates
    <3> HIDE DEF unused
    <3> QED BY <2>1, <2>3, <3>2, CoordinatorAssumption DEF Sound, AdapterStates
  <2> QED BY <2>2, <2>3
<1>2. adapters' \in [Owners -> AdapterStates \cup {NoAdapter}]
  <2>1. \A o \in Owners : adapters'[o] \in AdapterStates \cup {NoAdapter}
    BY <1>1 DEF Sound
  <2> QED BY <2>1 DEF BeginQuantum
<1>3. {foregroundOwner', presentationOwner', schedulerCursor'} \subseteq RegisteredOwners \cup {0}
  BY DEF IInv, OwnersKnown, BeginQuantum
<1> QED BY <1>1, <1>2, <1>3, KeepTurnsType, QuietStep DEF BeginQuantum, busVars

LEMMA NextRunnableStep ==
  ASSUME IInv, NEW owner \in Owners, NextRunnable(owner)
  PROVE  IInv'
<1>1. Registered(owner)
  BY DEF NextRunnable, NextAfterCursor, Runnable, Lifecycle, Registered, NoAdapter
<1>2. adapters' \in [Owners -> AdapterStates \cup {NoAdapter}]
  BY DEF IInv, TypeOK, NextRunnable
<1>3. \A o \in Owners :
        /\ ~Registered(o) => adapters'[o] = NoAdapter
        /\ Registered(o) => /\ Sound(adapters'[o])
                            /\ adapters'[o].lastSequence = adapters[o].lastSequence
  BY AdapterFacts DEF NextRunnable, Registered
<1>4. overtook' \in [Owners -> SUBSET Owners]
  BY DEF IInv, TypeOK, NextRunnable
<1> QED BY <1>1, <1>2, <1>3, <1>4, AdapterFacts, QuietStep DEF NextRunnable, busVars

-----------------------------------------------------------------------------
(* Registration. *)

LEMMA RegisterStep ==
  ASSUME IInv, NEW budget \in Nat, Register(budget)
  PROVE  IInv'
<1> USE CoordinatorAssumption
<1> DEFINE fresh == [NoAdapter EXCEPT !.lifecycle = "loaded",
                                      !.runBudget = IF budget = 0 THEN DefaultRunBudget ELSE budget]
<1>1. /\ adapters \in [Owners -> AdapterStates \cup {NoAdapter}]
      /\ nextOwner \in Owners /\ nextOwner' = nextOwner + 1 /\ ~Registered(nextOwner)
  BY DEF IInv, TypeOK, Register, Owners, AdaptersSound, RegisteredOwners
<1>2. Sound(fresh) /\ fresh.lastSequence = 0
  <2> DEFINE quota == IF budget = 0 THEN DefaultRunBudget ELSE budget
  <2>1. quota \in 1 .. MaxRunBudget
    BY DEF Register
  <2>2. fresh = [NoAdapter EXCEPT !.lifecycle = "loaded", !.runBudget = quota]
    OBVIOUS
  <2> HIDE DEF fresh, quota
  <2>3. /\ fresh \in AdapterStates
        /\ fresh.budgetUsed = 0 /\ fresh.callbackCount = 0
        /\ fresh.lastSequence = 0 /\ fresh.fault = FALSE /\ fresh.runBudget = quota
    BY <2>1, <2>2 DEF AdapterStates, States, NoAdapter
  <2> QED BY <2>1, <2>3 DEF Sound
<1>3. adapters' = [adapters EXCEPT ![nextOwner] = fresh]
  BY DEF Register
<1> HIDE DEF fresh
<1>4. RegisteredOwners' = RegisteredOwners \cup {nextOwner}
  BY <1>1, <1>2, <1>3, NoAdapterIsNone DEF RegisteredOwners, Registered, Sound
<1>5. Cardinality(RegisteredOwners') <= MaxAdapters
  <2>1. IsFiniteSet(RegisteredOwners) /\ nextOwner \notin RegisteredOwners
    BY <1>1, RegisteredFinite DEF RegisteredOwners
  <2>2. Cardinality(RegisteredOwners') = Cardinality(RegisteredOwners) + 1
    BY <1>4, <2>1, FS_AddElement
  <2> QED BY <2>1, <2>2, FS_CardinalityType DEF Register
<1>6. TypeOK'
  <2>1. adapters' \in [Owners -> AdapterStates \cup {NoAdapter}]
    BY <1>1, <1>2, <1>3 DEF Sound
  <2>2. foregroundOwner' \in 0 .. MaxOwner - 1 /\ presentationOwner' \in 0 .. MaxOwner - 1
    BY <1>1 DEF Register, IInv, TypeOK, Owners
  <2>3. nextOwner' \in 1 .. MaxOwner
    BY <1>1 DEF Owners
  <2> QED BY <2>1, <2>2, <2>3, KeepTurnsType DEF IInv, TypeOK, Register, busVars
<1>7. AdaptersSound'
  <2>1. nextSequence' = nextSequence /\ nextSequence > 0
    BY DEF IInv, TypeOK, Register, busVars
  <2> SUFFICES ASSUME NEW owner \in RegisteredOwners'
               PROVE  /\ owner < nextOwner' /\ adapters'[owner].lastSequence < nextSequence'
                      /\ Sound(adapters'[owner])
    BY DEF AdaptersSound, Sound
  <2>2. CASE owner = nextOwner
    BY <1>1, <1>2, <1>3, <2>1, <2>2 DEF Owners
  <2>3. CASE owner \in RegisteredOwners /\ owner # nextOwner
    BY <1>1, <1>3, <2>1, <2>3 DEF IInv, AdaptersSound, RegisteredOwners, Owners
  <2> QED BY <1>4, <2>2, <2>3
<1>8. OwnersKnown'
  BY <1>4 DEF IInv, OwnersKnown, Register
<1>9. pending' = pending /\ taken' = taken
  BY DEF Register, busVars
<1>10. BusBounded' /\ EventsOfKnownOwners'
  BY <1>1, <1>9 DEF IInv, BusBounded, EventsOfKnownOwners, TypeOK, Owners
<1>11. NewestRecordSurvives'
  <2>1. \A owner \in Owners : Records(owner)' = Records(owner)
    BY <1>9 DEF Records
  <2>2. Records(nextOwner) = {}
    BY <1>1 DEF IInv, EventsOfKnownOwners, Records, Owners
  <2> SUFFICES ASSUME NEW owner \in RegisteredOwners'
               PROVE  LET last == adapters'[owner].lastSequence
                      IN  /\ \A e \in Records(owner)' : e.sequence = last
                          /\ last # 0 /\ taken'[owner] # last => Records(owner)' # {}
    BY DEF NewestRecordSurvives
  <2>3. CASE owner = nextOwner
    BY <2>1, <2>2, <2>3, <1>1, <1>2, <1>3
  <2>4. CASE owner \in RegisteredOwners /\ owner # nextOwner
    BY <2>1, <2>4, <1>1, <1>3, <1>9 DEF IInv, NewestRecordSurvives, RegisteredOwners
  <2> QED BY <2>3, <2>4, <1>4
<1> QED BY <1>5, <1>6, <1>7, <1>8, <1>10, <1>11 DEF IInv

LEMMA FirstOwnerKnown ==
  ASSUME NEW others \in SUBSET Owners
  PROVE  FirstOwner(others) \in others \cup {0}
<1> SUFFICES ASSUME others # {} PROVE FirstOwner(others) \in others
  BY DEF FirstOwner
<1>1. others \subseteq Nat /\ others # {}
  BY CoordinatorAssumption DEF Owners
<1>2. \E owner \in others : \A other \in others : owner <= other
  <2>1. PICK owner \in others : \A other \in others : <<other, owner>> \notin OpToRel(<, Nat)
    BY <1>1, NatLessThanWellFounded, WFMin, Zenon
  <2>2. ASSUME NEW other \in others, other < owner PROVE FALSE
    <3>1. <<other, owner>> \in Nat \X Nat
      BY <1>1, <2>1
    <3>2. <<other, owner>> \in {pair \in Nat \X Nat : pair[1] < pair[2]}
      BY <3>1, <2>2
    <3> QED BY <3>2, <2>1, <2>2, Zenon DEF OpToRel
  <2>3. owner \in Nat /\ owner \in others
    BY <1>1, <2>1, Zenon
  <2>4. \A other \in others : owner <= other
    BY <1>1, <2>2, <2>3
  <2> QED BY <2>3, <2>4, Zenon
<1> QED BY <1>2 DEF FirstOwner

LEMMA UnregisterStep ==
  ASSUME IInv, NEW owner \in Owners, Unregister(owner)
  PROVE  IInv'
<1> USE CoordinatorAssumption
<1> DEFINE foreground == IF foregroundOwner = owner
                         THEN FirstOwner(RegisteredOwners \ {owner}) ELSE foregroundOwner
<1>1. /\ adapters \in [Owners -> AdapterStates \cup {NoAdapter}]
      /\ adapters' = [adapters EXCEPT ![owner] = NoAdapter]
      /\ nextOwner' = nextOwner /\ pending' = pending
      /\ nextSequence' = nextSequence /\ taken' = taken
  BY DEF IInv, TypeOK, Unregister, busVars
<1>2. RegisteredOwners' = RegisteredOwners \ {owner} /\ RegisteredOwners \subseteq Owners
  BY <1>1 DEF RegisteredOwners, Registered
<1>3. Cardinality(RegisteredOwners') <= MaxAdapters
  <2>1. IsFiniteSet(RegisteredOwners)
    BY <1>2, RegisteredFinite
  <2>2. IsFiniteSet(RegisteredOwners') /\ Cardinality(RegisteredOwners') <= Cardinality(RegisteredOwners)
    BY <2>1, <1>2, FS_Subset
  <2> QED BY <2>1, <2>2, FS_CardinalityType DEF IInv
<1>4. foreground \in RegisteredOwners' \cup {0}
  BY <1>2, FirstOwnerKnown DEF IInv, OwnersKnown
<1>5. OwnersKnown'
  <2>1. foregroundOwner' = foreground
    BY DEF Unregister
  <2>2. presentationOwner' \in {foreground, presentationOwner} /\ presentationOwner' # owner
    BY <1>4, <1>2, <1>1 DEF Unregister, Owners
  <2>3. schedulerCursor' \in {0, schedulerCursor} /\ schedulerCursor' # owner
    BY DEF Unregister, Owners
  <2> HIDE DEF foreground
  <2> QED BY <1>2, <1>4, <2>1, <2>2, <2>3 DEF IInv, OwnersKnown
<1>6. TypeOK'
  <2>1. RegisteredOwners' \cup {0} \subseteq 0 .. MaxOwner - 1
    BY <1>2 DEF Owners
  <2>2. {foregroundOwner', presentationOwner', schedulerCursor'} \subseteq 0 .. MaxOwner - 1
    BY <1>5, <2>1 DEF OwnersKnown
  <2>3. overtook' \in [Owners -> SUBSET Owners]
    BY DEF Unregister
  <2>4. adapters' \in [Owners -> AdapterStates \cup {NoAdapter}]
    BY <1>1
  <2> QED BY <1>1, <2>2, <2>3, <2>4 DEF IInv, TypeOK
<1>7. AdaptersSound' /\ BusBounded' /\ EventsOfKnownOwners'
  BY <1>1, <1>2 DEF IInv, AdaptersSound, Sound, BusBounded, EventsOfKnownOwners
<1>8. NewestRecordSurvives'
  BY <1>1, <1>2 DEF IInv, NewestRecordSurvives, Records
<1> QED BY <1>3, <1>5, <1>6, <1>7, <1>8 DEF IInv

-----------------------------------------------------------------------------
(* The bus. *)

\* Dropping the owner's records: what is left is smaller, and if nothing was
\* there to drop it is the same.
LEMMA DropFacts ==
  ASSUME IInv, NEW owner \in Owners
  PROVE  LET others == DropPendingLifecycle(pending, owner)
         IN  /\ others \subseteq pending /\ IsFiniteSet(others)
             /\ Cardinality(others) <= MaxEvents
             /\ Records(owner) # {} => Cardinality(others) < MaxEvents
<1> DEFINE others == DropPendingLifecycle(pending, owner)
<1>1. others \subseteq pending /\ IsFiniteSet(pending) /\ Cardinality(pending) <= MaxEvents
  BY DEF IInv, BusBounded, DropPendingLifecycle
<1>2. /\ IsFiniteSet(others) /\ Cardinality(others) <= Cardinality(pending)
      /\ Cardinality(others) = Cardinality(pending) => others = pending
  BY <1>1, FS_Subset
<1>3. Records(owner) # {} => others # pending
  BY DEF Records, DropPendingLifecycle
<1>4. Cardinality(others) \in Nat /\ Cardinality(pending) \in Nat
  BY <1>1, <1>2, FS_CardinalityType
<1> HIDE DEF others
<1>5. Cardinality(others) <= MaxEvents
  BY <1>1, <1>2, <1>4, MaxEventsAssumption
<1>6. Records(owner) # {} => Cardinality(others) < MaxEvents
  BY <1>1, <1>2, <1>3, <1>4, MaxEventsAssumption
<1> USE DEF others
<1> QED BY <1>1, <1>2, <1>5, <1>6

\* A new event, for an owner that is registered, on a bus with room for it.
LEMMA EnqueueBounded ==
  ASSUME NEW bus, IsFiniteSet(bus), HasRoom(bus), NEW e
  PROVE  IsFiniteSet(bus \cup {e}) /\ Cardinality(bus \cup {e}) <= MaxEvents
<1>1. Cardinality(bus) \in Nat
  BY FS_CardinalityType
<1>2. IsFiniteSet(bus \cup {e}) /\ Cardinality(bus \cup {e}) \in {Cardinality(bus), Cardinality(bus) + 1}
  BY FS_AddElement
<1> QED BY <1>1, <1>2, MaxEventsAssumption DEF HasRoom

\* Transition and Fault: the record is announced, or refused and nothing but
\* the bus has changed.
LEMMA SetLifecycleStep ==
  ASSUME IInv, NEW owner \in Owners, Registered(owner),
         NEW state \in States, NEW fault \in BOOLEAN, fault => state = "faulted",
         SetLifecycle(owner, state, fault), KeepTurns,
         UNCHANGED <<nextOwner, foregroundOwner, presentationOwner, schedulerCursor, taken>>
  PROVE  IInv'
<1> USE CoordinatorAssumption
<1> DEFINE others == DropPendingLifecycle(pending, owner)
           record == Event("lifecycle", owner, state, nextSequence)
<1>1. /\ adapters \in [Owners -> AdapterStates \cup {NoAdapter}] /\ nextSequence \in Nat \ {0}
      /\ Sound(adapters[owner]) /\ owner < nextOwner /\ owner \in RegisteredOwners
  BY AdapterFacts DEF IInv, TypeOK
<1>2. /\ others \subseteq pending /\ IsFiniteSet(others) /\ Cardinality(others) <= MaxEvents
      /\ Records(owner) # {} => Cardinality(others) < MaxEvents
  BY DropFacts
<1>3. \A o \in Owners, e \in others :
        e.kind = "lifecycle" /\ e.owner = o => o # owner /\ e \in Records(o)
  BY DEF DropPendingLifecycle, Records
<1>4. \A o \in Owners \ {owner} : Records(o) \subseteq others
  BY DEF DropPendingLifecycle, Records
<1>5. overtook' \in [Owners -> SUBSET Owners]
  BY KeepTurnsType
<1>6. CASE Announce(owner, state) /\ adapters' = [adapters EXCEPT ![owner].lifecycle = state,
                                     ![owner].fault = fault,
                                     ![owner].lastSequence = nextSequence]
  <2> DEFINE adapter == [adapters[owner] EXCEPT !.lifecycle = state, !.fault = fault,
                                                !.lastSequence = nextSequence]
  <2>1. Sound(adapter) /\ adapter.lastSequence = nextSequence
    BY <1>1 DEF Sound, AdapterStates
  <2>2. adapters' = [adapters EXCEPT ![owner] = adapter]
    BY <1>1, <1>6
  <2>3. /\ pending' = others \cup {record} /\ HasRoom(others)
        /\ nextSequence' = nextSequence + 1
    BY <1>6 DEF Announce
  <2>4. /\ record.kind = "lifecycle" /\ record.owner = owner /\ record.sequence = nextSequence
        /\ record \in [sequence : Nat, at : {0}, kind : {"lifecycle", "input"},
                       owner : Owners, value : States \cup {"none"}]
    BY <1>1 DEF Event
  <2> HIDE DEF adapter, others, record
  <2>5. RegisteredOwners' = RegisteredOwners
    BY <1>1, <2>1, <2>2, NoAdapterIsNone DEF RegisteredOwners, Registered, Sound
  <2>6. adapters' \in [Owners -> AdapterStates \cup {NoAdapter}]
    BY <1>1, <2>1, <2>2 DEF Sound
  <2>7. TypeOK'
    BY <2>6, <2>3, <2>4, <1>2, <1>5 DEF IInv, TypeOK
  <2>8. AdaptersSound' /\ OwnersKnown'
    <3> SUFFICES ASSUME NEW o \in RegisteredOwners
                 PROVE  /\ o < nextOwner /\ adapters'[o].lastSequence < nextSequence'
                        /\ Sound(adapters'[o])
      BY <2>5 DEF IInv, AdaptersSound, OwnersKnown, Sound
    <3>1. CASE o = owner
      BY <1>1, <2>1, <2>2, <2>3, <3>1
    <3>2. CASE o # owner
      <4>1. /\ adapters'[o] = adapters[o] /\ Sound(adapters[o])
            /\ o < nextOwner /\ adapters[o].lastSequence < nextSequence
        BY <1>1, <2>2, <3>2 DEF IInv, AdaptersSound, RegisteredOwners
      <4>2. adapters[o].lastSequence \in Nat
        BY <4>1 DEF Sound, AdapterStates
      <4> QED BY <1>1, <2>3, <4>1, <4>2
    <3> QED BY <3>1, <3>2
  <2>9. BusBounded'
    BY <1>2, <2>3, EnqueueBounded DEF BusBounded
  <2>10. EventsOfKnownOwners'
    BY <1>1, <1>2, <2>3, <2>4 DEF IInv, EventsOfKnownOwners
  <2>11. NewestRecordSurvives'
    <3>1. Records(owner)' = {record}
      BY <1>3, <2>3, <2>4 DEF Records
    <3>2. \A o \in Owners \ {owner} : Records(o)' = Records(o)
      BY <1>2, <1>3, <1>4, <2>3, <2>4 DEF Records
    <3>3. adapters'[owner].lastSequence = nextSequence
      BY <1>1, <2>1, <2>2
    <3>4. \A o \in Owners \ {owner} : adapters'[o] = adapters[o]
      BY <1>1, <2>2
    <3> QED BY <3>1, <3>2, <3>3, <3>4, <2>4, <2>5 DEF IInv, NewestRecordSurvives, RegisteredOwners
  <2> QED BY <2>5, <2>7, <2>8, <2>9, <2>10, <2>11 DEF IInv
<1>7. CASE AnnounceRefused(owner)
  <2>1. ~HasRoom(others) /\ pending' = others /\ nextSequence' = nextSequence /\ adapters' = adapters
    BY <1>7 DEF AnnounceRefused
  <2>2. Records(owner) = {}
    <3>1. Cardinality(others) \in Nat
      BY <1>2, FS_CardinalityType
    <3> HIDE DEF others
    <3> QED BY <1>2, <2>1, <3>1, MaxEventsAssumption DEF HasRoom
  <2>3. pending' = pending
    BY <2>1, <2>2 DEF DropPendingLifecycle, Records
  <2> HIDE DEF others
  <2>4. \A o \in Owners :
          /\ ~Registered(o) => adapters'[o] = NoAdapter
          /\ Registered(o) => /\ Sound(adapters'[o])
                              /\ adapters'[o].lastSequence = adapters[o].lastSequence
    BY <2>1, AdapterFacts DEF Registered
  <2>5. {foregroundOwner', presentationOwner', schedulerCursor'} \subseteq RegisteredOwners \cup {0}
    BY DEF IInv, OwnersKnown
  <2> QED BY <1>1, <1>5, <2>1, <2>3, <2>4, <2>5, QuietStep
<1> QED BY <1>6, <1>7 DEF SetLifecycle

LEMMA TransitionStep ==
  ASSUME IInv, NEW owner \in Owners, NEW next \in States, Transition(owner, next)
  PROVE  IInv'
<1>1. Registered(owner) /\ SetLifecycle(owner, next, FALSE) /\ KeepTurns
  BY DEF Transition
<1> QED BY <1>1, SetLifecycleStep DEF Transition

LEMMA FaultStep ==
  ASSUME IInv, NEW owner \in Owners, Fault(owner)
  PROVE  IInv'
<1>1. Registered(owner) /\ SetLifecycle(owner, "faulted", TRUE) /\ KeepTurns /\ "faulted" \in States
  BY DEF Fault, States
<1> QED BY <1>1, SetLifecycleStep DEF Fault

\* A step of the bus alone, given that it loses no record that was not taken.
LEMMA BusStep ==
  ASSUME IInv, UNCHANGED <<coordinatorVars, overtook>>,
         pending' \subseteq [sequence : Nat, at : {0}, kind : {"lifecycle", "input"},
                            owner : Owners, value : States \cup {"none"}],
         nextSequence' \in Nat \ {0}, nextSequence <= nextSequence', taken' \in [Owners -> Nat],
         IsFiniteSet(pending'), Cardinality(pending') <= MaxEvents,
         \A e \in pending' : e.owner < nextOwner,
         \A o \in RegisteredOwners :
           /\ Records(o)' \subseteq Records(o)
           /\ \/ Records(o)' = Records(o) /\ taken'[o] = taken[o]
              \/ taken'[o] = adapters[o].lastSequence
  PROVE  IInv'
<1>1. RegisteredOwners' = RegisteredOwners
  BY DEF coordinatorVars, RegisteredOwners, Registered
<1>2. TypeOK' /\ OwnersKnown' /\ BusBounded' /\ EventsOfKnownOwners'
  BY <1>1 DEF IInv, TypeOK, OwnersKnown, BusBounded, EventsOfKnownOwners, coordinatorVars
<1>4. AdaptersSound'
  <2>1. \A o \in RegisteredOwners : adapters[o].lastSequence \in Nat
    BY DEF IInv, AdaptersSound, Sound, AdapterStates
  <2>2. nextSequence \in Nat
    BY DEF IInv, TypeOK
  <2> QED BY <1>1, <2>1, <2>2 DEF IInv, AdaptersSound, Sound, coordinatorVars
<1>3. NewestRecordSurvives'
  BY <1>1 DEF IInv, NewestRecordSurvives, coordinatorVars
<1> QED BY <1>1, <1>2, <1>3, <1>4 DEF IInv

LEMMA ProduceStep ==
  ASSUME IInv, NEW owner \in Owners, Produce(owner)
  PROVE  IInv'
<1> DEFINE event == Event("input", owner, "none", nextSequence)
<1>1. /\ pending' = pending \cup {event} /\ HasRoom(pending) /\ IsFiniteSet(pending)
      /\ nextSequence' = nextSequence + 1 /\ taken' = taken /\ owner < nextOwner
      /\ UNCHANGED <<coordinatorVars, overtook>>
  BY AdapterFacts DEF Produce, IInv, BusBounded
<1>2. /\ event.kind = "input" /\ event.owner = owner
      /\ event \in [sequence : Nat, at : {0}, kind : {"lifecycle", "input"},
                    owner : Owners, value : States \cup {"none"}]
  BY DEF IInv, TypeOK, Event
<1> HIDE DEF event
<1>3. IsFiniteSet(pending') /\ Cardinality(pending') <= MaxEvents
  BY <1>1, EnqueueBounded
<1>4. \A o \in RegisteredOwners : Records(o)' = Records(o) /\ taken'[o] = taken[o]
  BY <1>1, <1>2 DEF Records
<1>5. \A e \in pending' : e.owner < nextOwner
  BY <1>1, <1>2 DEF IInv, EventsOfKnownOwners
<1>6. /\ pending' \subseteq [sequence : Nat, at : {0}, kind : {"lifecycle", "input"},
                            owner : Owners, value : States \cup {"none"}]
      /\ nextSequence' \in Nat \ {0} /\ nextSequence <= nextSequence' /\ taken' \in [Owners -> Nat]
  BY <1>1, <1>2 DEF IInv, TypeOK
<1> QED BY <1>1, <1>3, <1>4, <1>5, <1>6, BusStep

LEMMA PopReadyStep ==
  ASSUME IInv, PopReady
  PROVE  IInv'
<1>1. PICK e \in Ready(pending, 0) :
        /\ pending' = pending \ {e}
        /\ taken' = IF e.kind = "lifecycle" THEN [taken EXCEPT ![e.owner] = e.sequence] ELSE taken
        /\ UNCHANGED <<coordinatorVars, nextSequence, overtook>>
  BY DEF PopReady
<1>2. e \in pending /\ e.owner \in Owners /\ e.sequence \in Nat
  BY DEF Ready, IInv, TypeOK
<1>3. IsFiniteSet(pending') /\ Cardinality(pending') <= MaxEvents
  <2>1. IsFiniteSet(pending) /\ Cardinality(pending) <= MaxEvents
    BY DEF IInv, BusBounded
  <2>2. IsFiniteSet(pending') /\ Cardinality(pending') <= Cardinality(pending)
    BY <1>1, <2>1, FS_Subset
  <2> QED BY <2>1, <2>2, FS_CardinalityType, MaxEventsAssumption
<1>4. \A o \in RegisteredOwners :
        /\ Records(o)' \subseteq Records(o)
        /\ \/ Records(o)' = Records(o) /\ taken'[o] = taken[o]
           \/ taken'[o] = adapters[o].lastSequence
  <2> TAKE o \in RegisteredOwners
  <2>1. CASE e.kind = "lifecycle" /\ e.owner = o
    <3>1. e \in Records(o)
      BY <1>2, <2>1 DEF Records
    <3>2. e.sequence = adapters[o].lastSequence
      BY <3>1 DEF IInv, NewestRecordSurvives
    <3> QED BY <1>1, <1>2, <2>1, <3>2 DEF Records, IInv, TypeOK
  <2>2. CASE ~(e.kind = "lifecycle" /\ e.owner = o)
    BY <1>1, <1>2, <2>2 DEF Records, IInv, TypeOK, RegisteredOwners
  <2> QED BY <2>1, <2>2
<1>5. /\ pending' \subseteq [sequence : Nat, at : {0}, kind : {"lifecycle", "input"},
                            owner : Owners, value : States \cup {"none"}]
      /\ nextSequence' \in Nat \ {0} /\ nextSequence <= nextSequence' /\ taken' \in [Owners -> Nat]
  BY <1>1, <1>2 DEF IInv, TypeOK
<1>6. \A f \in pending' : f.owner < nextOwner
  BY <1>1 DEF IInv, EventsOfKnownOwners
<1> QED BY <1>1, <1>3, <1>4, <1>5, <1>6, BusStep

LEMMA EndTitleStep ==
  ASSUME IInv, NEW owner \in Owners, EndTitle(owner)
  PROVE  IInv'
<1>1. /\ Registered(owner) /\ pending' = DropOwner(pending, owner)
      /\ taken' = [taken EXCEPT ![owner] = adapters[owner].lastSequence]
      /\ UNCHANGED <<coordinatorVars, nextSequence, overtook>>
  BY DEF EndTitle
<1>2. pending' \subseteq pending
  BY <1>1 DEF DropOwner
<1>3. IsFiniteSet(pending') /\ Cardinality(pending') <= MaxEvents
  <2>1. IsFiniteSet(pending) /\ Cardinality(pending) <= MaxEvents
    BY DEF IInv, BusBounded
  <2>2. IsFiniteSet(pending') /\ Cardinality(pending') <= Cardinality(pending)
    BY <1>2, <2>1, FS_Subset
  <2> QED BY <2>1, <2>2, FS_CardinalityType, MaxEventsAssumption
<1>4. \A o \in RegisteredOwners :
        /\ Records(o)' \subseteq Records(o)
        /\ \/ Records(o)' = Records(o) /\ taken'[o] = taken[o]
           \/ taken'[o] = adapters[o].lastSequence
  <2> TAKE o \in RegisteredOwners
  <2>1. o \in Owners /\ taken \in [Owners -> Nat]
    BY DEF RegisteredOwners, IInv, TypeOK
  <2>2. CASE o = owner
    BY <1>1, <1>2, <2>1, <2>2 DEF Records
  <2>3. CASE o # owner
    BY <1>1, <2>1, <2>3 DEF Records, DropOwner
  <2> QED BY <2>2, <2>3
<1>5. adapters[owner].lastSequence \in Nat
  BY <1>1, AdapterFacts DEF Sound, AdapterStates
<1>6. /\ pending' \subseteq [sequence : Nat, at : {0}, kind : {"lifecycle", "input"},
                            owner : Owners, value : States \cup {"none"}]
      /\ nextSequence' \in Nat \ {0} /\ nextSequence <= nextSequence' /\ taken' \in [Owners -> Nat]
  BY <1>1, <1>2, <1>5 DEF IInv, TypeOK
<1>7. \A f \in pending' : f.owner < nextOwner
  BY <1>2 DEF IInv, EventsOfKnownOwners
<1> QED BY <1>1, <1>3, <1>4, <1>6, <1>7, BusStep

-----------------------------------------------------------------------------
LEMMA StutterStep == IInv /\ UNCHANGED vars => IInv'
BY DEF vars, coordinatorVars, busVars, IInv, TypeOK, AdaptersSound, OwnersKnown, BusBounded,
       EventsOfKnownOwners, NewestRecordSurvives, Records, RegisteredOwners, Registered, Sound

LEMMA AnnouncementStep == IInv /\ AnnouncementNext => IInv'
<1> SUFFICES ASSUME IInv, AnnouncementNext PROVE IInv'
  OBVIOUS
<1>1. ASSUME Register(0) PROVE IInv'
  BY <1>1, RegisterStep
<1>2. ASSUME NEW owner \in Owners, Unregister(owner) PROVE IInv'
  BY <1>2, UnregisterStep
<1>3. ASSUME NEW owner \in Owners, NEW state \in States, Transition(owner, state) PROVE IInv'
  BY <1>3, TransitionStep
<1>4. ASSUME NEW owner \in Owners, TransitionUnannounced(owner, "destroyed") PROVE IInv'
  BY <1>4, TransitionUnannouncedStep DEF States
<1>5. ASSUME NEW owner \in Owners, Fault(owner) PROVE IInv'
  BY <1>5, FaultStep
<1>6. ASSUME NEW owner \in Owners, SetForeground(owner) \/ LeaveForeground(owner) PROVE IInv'
  BY <1>6, SetForegroundStep, LeaveForegroundStep
<1>7. ASSUME NEW owner \in Owners, Produce(owner) \/ EndTitle(owner) PROVE IInv'
  BY <1>7, ProduceStep, EndTitleStep
<1>8. ASSUME PopReady PROVE IInv'
  BY <1>8, PopReadyStep
<1> QED BY <1>1, <1>2, <1>3, <1>4, <1>5, <1>6, <1>7, <1>8 DEF AnnouncementNext

LEMMA BudgetStep == IInv /\ BudgetNext => IInv'
<1> SUFFICES ASSUME IInv, BudgetNext PROVE IInv'
  OBVIOUS
<1>1. ASSUME NEW budget \in 0 .. MaxRunBudget, Register(budget) PROVE IInv'
  BY <1>1, RegisterStep, CoordinatorAssumption
<1>2. ASSUME NEW owner \in Owners, Unregister(owner) PROVE IInv'
  BY <1>2, UnregisterStep
<1>3. ASSUME NEW owner \in Owners, NEW state \in States, TransitionUnannounced(owner, state)
      PROVE  IInv'
  BY <1>3, TransitionUnannouncedStep
<1>4. ASSUME NEW owner \in Owners, SetForeground(owner) \/ LeaveForeground(owner) PROVE IInv'
  BY <1>4, SetForegroundStep, LeaveForegroundStep
<1>5. ASSUME NEW owner \in Owners, NEW minimum \in Minimums, RaiseRunBudget(owner, minimum)
      PROVE  IInv'
  BY <1>5, RaiseRunBudgetStep
<1>6. ASSUME NEW owner \in Owners, NEW instructions \in 1 .. MaxRunBudget,
             Consume(owner, instructions)
      PROVE  IInv'
  BY <1>6, ConsumeStep, CoordinatorAssumption
<1>7. ASSUME NEW owner \in Owners, EnterCallback(owner) \/ NextRunnable(owner) PROVE IInv'
  BY <1>7, EnterCallbackStep, NextRunnableStep
<1>8. ASSUME NEW owner \in 0 .. MaxOwner - 1, SetPresentationOwner(owner) PROVE IInv'
  BY <1>8, SetPresentationOwnerStep
<1>9. ASSUME BeginQuantum PROVE IInv'
  BY <1>9, BeginQuantumStep
<1> QED BY <1>1, <1>2, <1>3, <1>4, <1>5, <1>6, <1>7, <1>8, <1>9 DEF BudgetNext

LEMMA Invariance == Spec => []IInv
<1>1. IInv /\ [Next]_vars => IInv'
  BY StutterStep, AnnouncementStep, BudgetStep DEF Next
<1> QED BY <1>1, InitIInv, PTL DEF Spec

\* The coordinator's state keeps its declared shape whatever the limits are:
\* Register never hands out an owner ID past the last one, and every record on
\* the bus names an owner and a state.
THEOREM TypeCorrect == Spec => []TypeOK
<1>1. IInv => TypeOK
  BY DEF IInv
<1> QED BY <1>1, Invariance, PTL

\* Coordinator.Restore accepts the snapshot of every state the coordinator
\* reaches, with any number of adapters and any budgets.
THEOREM SnapshotsLoad == Spec => []SnapshotAccepted
<1>1. IInv => SnapshotAccepted
  BY DEF IInv, AdaptersSound, OwnersKnown, Sound, AdapterStates, SnapshotAccepted, Restorable
<1> QED BY <1>1, Invariance, PTL

\* Transition and Fault never lose an owner's newest lifecycle record, on a bus
\* of any size and with any other traffic on it.
THEOREM NewestRecordKept == Spec => []NewestRecordSurvives
<1>1. IInv => NewestRecordSurvives
  BY DEF IInv
<1> QED BY <1>1, Invariance, PTL

-----------------------------------------------------------------------------
(* What one step may do to an owner's lifecycle. *)

StaysFinal(owner) ==
  /\ Lifecycle(owner) = "destroyed" => Lifecycle(owner)' \in {"destroyed", "none"}
  /\ owner < nextOwner /\ ~Registered(owner) => ~Registered(owner)'

\* An adapter that is registered changes, and moves on from destroyed to
\* nothing else.
LEMMA FinalIfOneChanges ==
  ASSUME IInv, NEW changed \in Owners, Registered(changed), NEW adapter,
         adapters' = [adapters EXCEPT ![changed] = adapter],
         Lifecycle(changed) = "destroyed" => adapter.lifecycle \in {"destroyed", "none"},
         NEW owner \in Owners
  PROVE  StaysFinal(owner)
<1>1. adapters \in [Owners -> AdapterStates \cup {NoAdapter}]
  BY DEF IInv, TypeOK
<1>2. CASE owner = changed
  BY <1>1, <1>2 DEF StaysFinal, Lifecycle
<1>3. CASE owner # changed
  <2>1. adapters'[owner] = adapters[owner]
    BY <1>1, <1>3
  <2> QED BY <2>1 DEF StaysFinal, Lifecycle, Registered
<1> QED BY <1>2, <1>3

LEMMA FinalIfNothingChanges ==
  ASSUME adapters' = adapters, NEW owner \in Owners
  PROVE  StaysFinal(owner)
BY DEF StaysFinal, Lifecycle, Registered

LEMMA DestroyedLeadsNowhere ==
  ASSUME NEW next \in States, ValidLifecycleTransition("destroyed", next)
  PROVE  next = "destroyed"
BY DEF ValidLifecycleTransition, Successors

LEMMA FinalRegister ==
  ASSUME IInv, NEW budget \in Nat, Register(budget), NEW owner \in Owners
  PROVE  StaysFinal(owner)
<1>1. /\ adapters \in [Owners -> AdapterStates \cup {NoAdapter}]
      /\ nextOwner \in Owners /\ ~Registered(nextOwner)
  BY CoordinatorAssumption DEF IInv, TypeOK, Register, Owners, AdaptersSound, RegisteredOwners
<1>2. CASE owner = nextOwner
  <2>1. Lifecycle(owner) = "none" /\ ~(owner < nextOwner)
    BY <1>1, <1>2 DEF Lifecycle, Registered, NoAdapter, Owners
  <2> QED BY <2>1 DEF StaysFinal
<1>3. CASE owner # nextOwner
  <2>1. adapters'[owner] = adapters[owner]
    BY <1>1, <1>3 DEF Register
  <2> QED BY <2>1 DEF StaysFinal, Lifecycle, Registered
<1> QED BY <1>2, <1>3

LEMMA FinalUnregister ==
  ASSUME IInv, NEW gone \in Owners, Unregister(gone), NEW owner \in Owners
  PROVE  StaysFinal(owner)
<1>1. /\ Registered(gone) /\ adapters' = [adapters EXCEPT ![gone] = NoAdapter]
      /\ NoAdapter.lifecycle = "none"
  BY DEF Unregister, NoAdapter
<1> QED BY <1>1, FinalIfOneChanges

LEMMA FinalTransition ==
  ASSUME IInv, NEW moved \in Owners, NEW next \in States,
         Transition(moved, next) \/ TransitionUnannounced(moved, next),
         NEW owner \in Owners
  PROVE  StaysFinal(owner)
<1>1. Registered(moved) /\ ValidLifecycleTransition(Lifecycle(moved), next)
  BY DEF Transition, TransitionUnannounced
<1>2. Lifecycle(moved) = "destroyed" => next = "destroyed"
  BY <1>1, DestroyedLeadsNowhere
<1>3. \/ adapters' = adapters
      \/ adapters' = [adapters EXCEPT ![moved] = [adapters[moved] EXCEPT
           !.lifecycle = next, !.fault = FALSE, !.lastSequence = nextSequence]]
      \/ adapters' = [adapters EXCEPT ![moved] = [adapters[moved] EXCEPT
           !.lifecycle = next, !.fault = FALSE]]
  BY <1>1, AdapterFacts DEF Transition, TransitionUnannounced, SetLifecycle, AnnounceRefused
<1>4. /\ [adapters[moved] EXCEPT !.lifecycle = next, !.fault = FALSE,
                                 !.lastSequence = nextSequence].lifecycle = next
      /\ [adapters[moved] EXCEPT !.lifecycle = next, !.fault = FALSE].lifecycle = next
  BY <1>1, AdapterFacts DEF Sound, AdapterStates
<1> QED BY <1>1, <1>2, <1>3, <1>4, FinalIfOneChanges, FinalIfNothingChanges

LEMMA FinalFault ==
  ASSUME IInv, NEW failed \in Owners, Fault(failed), NEW owner \in Owners
  PROVE  StaysFinal(owner)
<1>1. Registered(failed) /\ Lifecycle(failed) # "destroyed"
  BY DEF Fault
<1>2. \/ adapters' = adapters
      \/ adapters' = [adapters EXCEPT ![failed] = [adapters[failed] EXCEPT
           !.lifecycle = "faulted", !.fault = TRUE, !.lastSequence = nextSequence]]
  BY <1>1, AdapterFacts DEF Fault, SetLifecycle, AnnounceRefused
<1> QED BY <1>1, <1>2, FinalIfOneChanges, FinalIfNothingChanges

LEMMA FinalForeground ==
  ASSUME IInv, NEW front \in Owners, SetForeground(front) \/ LeaveForeground(front),
         NEW owner \in Owners
  PROVE  StaysFinal(owner)
<1>1. adapters \in [Owners -> AdapterStates \cup {NoAdapter}]
  BY DEF IInv, TypeOK
<1>2. Lifecycle(owner) \notin {"running", "paused", "background"} => adapters'[owner] = adapters[owner]
  BY <1>1 DEF SetForeground, LeaveForeground, Lifecycle
<1>3. ~Registered(owner) => Lifecycle(owner) = "none"
  BY DEF Registered, Lifecycle, NoAdapter
<1> QED BY <1>2, <1>3 DEF StaysFinal, Lifecycle, Registered

\* The operations that count: what is spent, who is scheduled, who is shown.
LEMMA FinalCounters ==
  ASSUME IInv, NEW counted \in Owners,
         \/ \E minimum \in Minimums : RaiseRunBudget(counted, minimum)
         \/ \E instructions \in Nat : Consume(counted, instructions)
         \/ EnterCallback(counted),
         NEW owner \in Owners
  PROVE  StaysFinal(owner)
<1>1. Registered(counted)
  BY DEF RaiseRunBudget, Consume, EnterCallback
<1>2. Sound(adapters[counted]) /\ adapters \in [Owners -> AdapterStates \cup {NoAdapter}]
  BY <1>1, AdapterFacts
<1>3. PICK adapter : /\ adapters' = [adapters EXCEPT ![counted] = adapter]
                     /\ adapter.lifecycle = adapters[counted].lifecycle
  <2>1. CASE \E minimum \in Minimums : RaiseRunBudget(counted, minimum)
    <3>1. PICK minimum \in Minimums : RaiseRunBudget(counted, minimum)
      BY <2>1
    <3> DEFINE adapter == [adapters[counted] EXCEPT !.runBudget = minimum]
    <3>2. adapter.lifecycle = adapters[counted].lifecycle
      BY <1>2 DEF Sound, AdapterStates
    <3>3. adapters' = [adapters EXCEPT ![counted] = adapter]
      BY <1>2, <3>1 DEF RaiseRunBudget
    <3> QED BY <3>2, <3>3
  <2>2. CASE \E instructions \in Nat : Consume(counted, instructions)
    <3>1. PICK instructions \in Nat : Consume(counted, instructions)
      BY <2>2
    <3> DEFINE adapter == [adapters[counted] EXCEPT !.budgetUsed = @ + instructions]
    <3>2. adapter.lifecycle = adapters[counted].lifecycle
      BY <1>2 DEF Sound, AdapterStates
    <3>3. adapters' = [adapters EXCEPT ![counted] = adapter]
      BY <1>2, <3>1 DEF Consume
    <3> QED BY <3>2, <3>3
  <2>3. CASE EnterCallback(counted)
    <3> DEFINE adapter == [adapters[counted] EXCEPT !.callbackCount = @ + 1]
    <3>1. adapter.lifecycle = adapters[counted].lifecycle
      BY <1>2 DEF Sound, AdapterStates
    <3>2. adapters' = [adapters EXCEPT ![counted] = adapter]
      BY <1>2, <2>3 DEF EnterCallback
    <3> QED BY <3>1, <3>2
  <2> QED BY <2>1, <2>2, <2>3
<1> QED BY <1>1, <1>3, FinalIfOneChanges DEF Lifecycle

LEMMA FinalQuantum ==
  ASSUME IInv, BeginQuantum, NEW owner \in Owners
  PROVE  StaysFinal(owner)
<1>1. adapters'[owner] = [adapters[owner] EXCEPT !.budgetUsed = 0, !.callbackCount = 0]
  BY DEF BeginQuantum
<1>2. CASE ~Registered(owner)
  <2>1. [NoAdapter EXCEPT !.budgetUsed = 0] = NoAdapter /\ [NoAdapter EXCEPT !.callbackCount = 0] = NoAdapter
    BY DEF NoAdapter
  <2>2. adapters'[owner] = [[NoAdapter EXCEPT !.budgetUsed = 0] EXCEPT !.callbackCount = 0]
    BY <1>1, <1>2 DEF Registered
  <2> QED BY <1>2, <2>1, <2>2 DEF StaysFinal, Lifecycle, Registered, NoAdapter
<1>3. CASE Registered(owner)
  <2>1. adapters'[owner].lifecycle = adapters[owner].lifecycle
    BY <1>1, <1>3, AdapterFacts DEF Sound, AdapterStates
  <2> QED BY <1>3, <2>1 DEF StaysFinal, Lifecycle
<1> QED BY <1>2, <1>3

LEMMA FinalStep ==
  ASSUME IInv, Next, NEW owner \in Owners
  PROVE  StaysFinal(owner)
<1>1. AnnouncementNext => StaysFinal(owner)
  BY FinalRegister, FinalUnregister, FinalTransition, FinalFault, FinalForeground,
     FinalIfNothingChanges
  DEF AnnouncementNext, Produce, EndTitle, PopReady, coordinatorVars, States
<1>2. BudgetNext => StaysFinal(owner)
  BY FinalRegister, FinalUnregister, FinalTransition, FinalForeground, FinalCounters,
     FinalQuantum, FinalIfNothingChanges, CoordinatorAssumption
  DEF BudgetNext, NextRunnable, SetPresentationOwner
<1> QED BY <1>1, <1>2 DEF Next

\* No operation revives a destroyed adapter, and no registration ever reuses the
\* owner ID of one that left, for every number of owners.
THEOREM DestroyedForever == Spec => DestroyedIsFinal
<1>1. IInv /\ [Next]_vars =>
        [\A owner \in Owners :
           /\ Lifecycle(owner) = "destroyed" => Lifecycle(owner)' \in {"destroyed", "none"}
           /\ owner < nextOwner /\ ~Registered(owner) => ~Registered(owner)']_vars
  BY FinalStep DEF StaysFinal
<1> QED BY <1>1, Invariance, PTL DEF Spec, DestroyedIsFinal

-----------------------------------------------------------------------------
(* Turns.  Whoever ran while an owner was waiting lies between that owner  *)
(* and the cursor on the circle of owners: the invariant that makes one    *)
(* round enough.  The next one to run lies on the other side.              *)

TurnsInOrder ==
  \A owner \in Owners : \A other \in overtook[owner] :
    /\ Runnable(owner) /\ owner # schedulerCursor
    /\ IF owner < schedulerCursor THEN owner < other /\ other <= schedulerCursor
                                  ELSE owner < other \/ other <= schedulerCursor

LEMMA InitTurns == Init => TurnsInOrder
BY DEF Init, TurnsInOrder

\* A step that schedules nobody only lets owners stop waiting.
LEMMA TurnsKept ==
  ASSUME TurnsInOrder, KeepTurns, schedulerCursor' = schedulerCursor
  PROVE  TurnsInOrder'
BY Zenon DEF TurnsInOrder, KeepTurns

\* So does one that leaves the adapters alone.
LEMMA TurnsUntouched ==
  ASSUME TurnsInOrder, UNCHANGED <<adapters, schedulerCursor, overtook>>
  PROVE  TurnsInOrder'
BY DEF TurnsInOrder, Runnable, Lifecycle

LEMMA TurnsCleared ==
  ASSUME overtook' = [owner \in Owners |-> {}]
  PROVE  TurnsInOrder'
BY DEF TurnsInOrder

\* The owner that runs has not run since any other runnable one became so.
LEMMA NotYetOvertaken ==
  ASSUME TypeOK, TurnsInOrder, NEW owner \in Owners, NEW other \in Owners,
         NextAfterCursor(owner), other # owner, Runnable(other)
  PROVE  owner \notin overtook[other]
BY CoordinatorAssumption DEF TypeOK, TurnsInOrder, NextAfterCursor, Owners

LEMMA TurnsAfterScheduling ==
  ASSUME TypeOK, TurnsInOrder, NEW owner \in Owners, NextRunnable(owner)
  PROVE  TurnsInOrder'
<1>1. \A o \in Owners : Runnable(o)' <=> Runnable(o)
  BY DEF NextRunnable, Runnable, Lifecycle
<1>2. SUFFICES ASSUME NEW o \in Owners, NEW x \in overtook'[o]
      PROVE /\ Runnable(o) /\ o # owner
            /\ IF o < owner THEN o < x /\ x <= owner ELSE o < x \/ x <= owner
  BY <1>1 DEF TurnsInOrder, NextRunnable
<1>3. o # owner /\ Runnable(o) /\ x \in overtook[o] \cup {owner}
  BY <1>2 DEF NextRunnable
<1>4. x \in Owners /\ schedulerCursor \in Int
  BY <1>3, CoordinatorAssumption DEF TypeOK
<1> QED BY <1>3, <1>4, CoordinatorAssumption DEF NextRunnable, NextAfterCursor, TurnsInOrder, Owners

LEMMA TurnsStep ==
  ASSUME TypeOK, TurnsInOrder, [Next]_vars
  PROVE  TurnsInOrder'
<1>1. CASE UNCHANGED vars
  BY <1>1, TurnsUntouched DEF vars, coordinatorVars
<1>2. CASE AnnouncementNext
  BY <1>2, TurnsKept, TurnsUntouched, TurnsCleared
  DEF AnnouncementNext, Register, Unregister, Transition, TransitionUnannounced, Fault,
      SetForeground, LeaveForeground, Produce, EndTitle, PopReady, coordinatorVars
<1>3. CASE BudgetNext
  BY <1>3, TurnsKept, TurnsCleared, TurnsAfterScheduling
  DEF BudgetNext, Register, Unregister, TransitionUnannounced, SetForeground, LeaveForeground,
      RaiseRunBudget, Consume, EnterCallback, SetPresentationOwner, BeginQuantum
<1> QED BY <1>1, <1>2, <1>3 DEF Next

\* NextRunnable is round-robin for every number of adapters and every order of
\* registrations, budgets, faults and foreground changes: while an adapter stays
\* runnable, no other runs twice before it does.
THEOREM RoundRobin == Spec => NobodyOvertakesTwice
<1>1. TypeOK /\ TurnsInOrder /\ [Next]_vars =>
        [\A owner, other \in Owners :
           NextRunnable(owner) /\ other # owner /\ Runnable(other)
             => owner \notin overtook[other]]_vars
  BY NotYetOvertaken DEF NextRunnable
<1>2. TypeOK /\ TurnsInOrder /\ [Next]_vars => TurnsInOrder'
  BY TurnsStep
<1> QED BY <1>1, <1>2, InitTurns, TypeCorrect, PTL DEF Spec, NobodyOvertakesTwice
=============================================================================
