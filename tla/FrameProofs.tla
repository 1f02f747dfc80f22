---------------------------- MODULE FrameProofs ----------------------------
(* One machine's frame, for any controls, timers, lamps, limits and times:   *)
(* an advance that fails leaves no trace, one that succeeds catches up, the  *)
(* events on the bus tell the guest which keys are held, a guest can always  *)
(* empty the bus, and a machine can be saved between any two operations.     *)
(*                                                                           *)
(* What has to hold of the services (Sound) is stated of explicit values,    *)
(* because it is said twice: of the services as they are, at every step of   *)
(* an advance, and of what the journals of the advance would restore.        *)
EXTENDS Frame, SelectionProofs

Controls == [ControlNames -> ControlStates \cup {None}]
TimerTables == [TimerIDs -> TimerStates \cup {None}]
LampStates == [on : BOOLEAN, until : Nat]
BusEvents ==
  [sequence : Nat, at : Nat, kind : {"press", "release", "repeat", "timer", "complete"},
   owner : {Guest}, control : ControlNames \cup {0}, service : Nat]
Entries == [kind : {"input", "advance"}, at : Nat, control : Nat, value : Nat]
Snapshots ==
  [now : Nat, pending : SUBSET BusEvents, nextSequence : Nat, controls : Controls,
   queued : Seq(FutureChanges), timers : TimerTables, voice : Nat,
   device : [Lamps -> LampStates], log : Seq(Entries), cursor : Nat]

-----------------------------------------------------------------------------
(* The services.                                                             *)

BusOK(bus, next) ==
  /\ bus \in SUBSET BusEvents /\ next \in Nat \ {0}
  /\ IsFiniteSet(bus) /\ Cardinality(bus) <= MaxEvents
  /\ \A e \in bus : e.sequence \in 1 .. next - 1
  /\ \A e, f \in bus : e # f => e.sequence # f.sequence

KnownIn(states) == {c \in ControlNames : states[c] # None}
HeldIn(states, c) == states[c] # None /\ states[c].pressed

InputOK(states, changes) ==
  /\ states \in Controls /\ changes \in Seq(FutureChanges) /\ Len(changes) <= MaxEvents
  /\ IsFiniteSet(KnownIn(states)) /\ Cardinality(KnownIn(states)) <= MaxControls
  /\ \A c \in KnownIn(states) : states[c].pressed <=> states[c].nextRepeat # 0
  /\ \A i \in 1 .. Len(changes) :
       /\ changes[i].control \in KnownIn(states) /\ changes[i].at > 0
       /\ changes[i].pressed => changes[i].at <= MaxTime - RepeatDelay
  /\ \A i, j \in 1 .. Len(changes) : i < j => changes[i].at <= changes[j].at

\* The presses and releases T of one key alternate, from what the guest was told
\* of it to what it is.
Even(n) == n % 2 = 0
Earlier(T, e) == {f \in T : Before(f, e)}
KeyOK(T, held, told) ==
  /\ \A e \in T : e.kind = "press" <=> (Even(Cardinality(Earlier(T, e))) <=> ~told)
  /\ held <=> (Even(Cardinality(T)) <=> told)

TransitionsOn(bus, c) == {e \in bus : e.kind \in {"press", "release"} /\ e.control = c}

KeysOK(bus, states, told) ==
  \A c \in ControlNames : KeyOK(TransitionsOn(bus, c), HeldIn(states, c), told[c])

AliveIn(table) == {t \in TimerIDs : table[t] # None}

TimersOK(table) ==
  /\ table \in TimerTables
  /\ IsFiniteSet(AliveIn(table)) /\ Cardinality(AliveIn(table)) <= MaxTimers

GraphOK(bus, table) ==
  \A e \in bus :
    /\ e.kind = "timer" => e.service \in AliveIn(table)
    /\ e.kind = "complete" => e.service = ClipID
    /\ e.kind \in {"press", "release", "repeat"} => e.service = 0

DeviceOK(lights) ==
  /\ lights \in [Lamps -> LampStates]
  /\ \A lamp \in Lamps :
       /\ lamp = "vibration" => (lights[lamp].on <=> lights[lamp].until # 0)
       /\ lamp = "backlight" /\ ~lights[lamp].on => lights[lamp].until = 0

ReplayOK(entries, position) ==
  /\ entries \in Seq(Entries) /\ position \in Nat
  /\ Len(entries) <= MaxEntries /\ position <= Len(entries)

DueBy(bus, time) == \A e \in bus : e.at <= time
Ahead(changes, time) == \A i \in 1 .. Len(changes) : changes[i].at > time

-----------------------------------------------------------------------------
(* The advance in progress.                                                  *)

Steps == {"clock", "media", "input", "timers", "device", "record", "rollback"}
SavedControls == [name : ControlNames, control : ControlStates \cup {None}]
SavedTimers == [id : TimerIDs, deadline : Nat, active : BOOLEAN]
Advances ==
  [step : Steps, outcome : {"none"}, before : Snapshots, delta : Nat, clock : Nat,
   pending : SUBSET BusEvents, nextSequence : Nat, voice : Nat,
   device : [Lamps -> LampStates], cursor : Nat, entries : Nat,
   controls : SUBSET SavedControls, queued : Seq(FutureChanges) \cup {None}, due : Nat,
   timers : SUBSET SavedTimers]

\* What was captured in full, when the advance began.
CapturedOK(t) ==
  /\ t.clock = t.before.now
  /\ t.pending = t.before.pending /\ t.nextSequence = t.before.nextSequence
  /\ t.voice = t.before.voice /\ t.device = t.before.device
  /\ t.cursor = t.before.cursor /\ t.entries = Len(t.before.log)

\* What was captured is what the services were, and they were sound.
BeforeOK(b, told) ==
  /\ BusOK(b.pending, b.nextSequence) /\ DueBy(b.pending, b.now)
  /\ InputOK(b.controls, b.queued) /\ Ahead(b.queued, b.now)
  /\ KeysOK(b.pending, b.controls, told)
  /\ TimersOK(b.timers) /\ GraphOK(b.pending, b.timers)
  /\ DeviceOK(b.device) /\ ReplayOK(b.log, b.cursor)

\* A journal and the values that have changed make the old values.
ControlsJournaled(t, states) ==
  /\ \A saved \in t.controls : saved.control = t.before.controls[saved.name]
  /\ \A c \in ControlNames :
       (\E saved \in t.controls : saved.name = c) \/ states[c] = t.before.controls[c]

QueuedJournaled(t, changes) ==
  IF t.queued = None THEN changes = t.before.queued ELSE t.queued = t.before.queued

TimersJournaled(t, table) ==
  /\ AliveIn(table) = AliveIn(t.before.timers)
  /\ \A saved \in t.timers :
       /\ saved.id \in AliveIn(table)
       /\ saved.deadline = t.before.timers[saved.id].deadline
       /\ saved.active = t.before.timers[saved.id].active
       /\ table[saved.id].interval = t.before.timers[saved.id].interval
  /\ \A id \in TimerIDs :
       (\E saved \in t.timers : saved.id = id) \/ table[id] = t.before.timers[id]

\* The time up to which transitions were put on the bus.
Mark(t, changes) == IF t.due = 0 THEN t.clock ELSE changes[t.due].at

BeforeInput == {"clock", "media", "input"}
InputOver == {"timers", "device", "record"}

RepeatsAhead(states, time) ==
  \A c \in ControlNames : HeldIn(states, c) => states[c].nextRepeat > time

\* How far the step has come.
ProgressOK(t) ==
  /\ now = IF t.step = "clock" THEN t.clock ELSE t.clock + t.delta
  /\ DueBy(pending, now)
  /\ t.step \in BeforeInput =>
       /\ queued = t.before.queued /\ t.due <= Len(queued)
       /\ t.due > 0 => t.queued # None
       /\ \A c \in ControlNames : \A e \in TransitionsOn(pending, c) : e.at <= Mark(t, queued)
       /\ t.due > 0 => queued[t.due].at <= now
  /\ t.step \in InputOver => Ahead(queued, now) /\ RepeatsAhead(controls, now)
  /\ t.step \in {"device", "record"} => DueTimers = {}
  /\ t.step = "record" => \A lamp \in Lamps : device[lamp].until = 0 \/ device[lamp].until > now

AdvanceOK ==
  /\ txn \in Advances
  /\ CapturedOK(txn) /\ BeforeOK(txn.before, seen) /\ log = txn.before.log
  /\ ControlsJournaled(txn, controls) /\ QueuedJournaled(txn, queued)
  /\ TimersJournaled(txn, timers)
  /\ txn.step # "rollback" => ProgressOK(txn)

ServicesOK ==
  /\ now \in Nat /\ voice \in Nat /\ nextTimer \in Nat
  /\ mode \in {"off", "record", "playback"}
  /\ seen \in [ControlNames -> BOOLEAN]
  /\ BusOK(pending, nextSequence) /\ InputOK(controls, queued)
  /\ KeysOK(pending, controls, seen)
  /\ TimersOK(timers) /\ GraphOK(pending, timers)
  /\ DeviceOK(device) /\ ReplayOK(log, cursor)

Resting ==
  /\ DueBy(pending, now) /\ Ahead(queued, now)
  /\ FailedAdvanceChangesNothing /\ AdvanceCatchesUp

FrameInv ==
  /\ ServicesOK
  /\ IF txn.step = "idle" THEN Resting ELSE AdvanceOK

-----------------------------------------------------------------------------
(* Sets with one more or one less.                                           *)

LEMMA OneMore ==
  ASSUME NEW S, IsFiniteSet(S), NEW x, x \notin S
  PROVE  /\ IsFiniteSet(S \cup {x}) /\ Cardinality(S) \in Nat
         /\ Cardinality(S \cup {x}) = Cardinality(S) + 1
BY FS_AddElement, FS_CardinalityType

LEMMA OneLess ==
  ASSUME NEW S, IsFiniteSet(S), NEW x \in S
  PROVE  /\ IsFiniteSet(S \ {x}) /\ Cardinality(S) \in Nat \ {0}
         /\ Cardinality(S \ {x}) = Cardinality(S) - 1
<1>1. IsFiniteSet(S \ {x}) /\ Cardinality(S \ {x}) = Cardinality(S) - 1
  BY FS_RemoveElement
<1>2. Cardinality(S) \in Nat /\ Cardinality(S \ {x}) \in Nat
  BY <1>1, FS_CardinalityType
<1> QED
  BY <1>1, <1>2

LEMMA Parity ==
  ASSUME NEW n \in Nat
  PROVE  Even(0) /\ (Even(n + 1) <=> ~Even(n))
BY DEF Even

-----------------------------------------------------------------------------
(* The transitions of one key.                                               *)

\* A transition that comes last and turns the key over.
LEMMA KeyTurned ==
  ASSUME NEW T, T \subseteq BusEvents, IsFiniteSet(T), NEW held \in BOOLEAN, NEW told \in BOOLEAN,
         KeyOK(T, held, told),
         NEW e \in BusEvents, e.kind = "press" <=> ~held,
         \A f \in T : Before(f, e) /\ f # e
  PROVE  KeyOK(T \cup {e}, ~held, told)
<1>1. \A f \in T : ~Before(e, f)
  BY DEF Before, BusEvents
<1>2. ~Before(e, e)
  BY DEF Before, BusEvents
<1>3. \A f \in T : Earlier(T \cup {e}, f) = Earlier(T, f)
  BY <1>1 DEF Earlier
<1>4. Earlier(T \cup {e}, e) = T
  BY <1>2 DEF Earlier
<1>5. e \notin T
  OBVIOUS
<1>6. Cardinality(T) \in Nat /\ Cardinality(T \cup {e}) = Cardinality(T) + 1
  BY <1>5, OneMore
<1>7. Even(Cardinality(T \cup {e})) <=> ~Even(Cardinality(T))
  BY <1>6, Parity
<1>8. ~held <=> (Even(Cardinality(T \cup {e})) <=> told)
  BY <1>7 DEF KeyOK
<1>9. \A f \in T \cup {e} :
        f.kind = "press" <=> (Even(Cardinality(Earlier(T \cup {e}, f))) <=> ~told)
  <2> TAKE f \in T \cup {e}
  <2>1. CASE f \in T
    BY <2>1, <1>3 DEF KeyOK
  <2>2. CASE f = e
    BY <2>2, <1>4 DEF KeyOK
  <2> QED
    BY <2>1, <2>2
<1> QED
  BY <1>8, <1>9 DEF KeyOK

\* The guest takes the first one.
LEMMA KeyTaken ==
  ASSUME NEW T, T \subseteq BusEvents, IsFiniteSet(T), NEW held \in BOOLEAN, NEW told \in BOOLEAN,
         KeyOK(T, held, told),
         NEW e \in T, \A f \in T \ {e} : Before(e, f)
  PROVE  KeyOK(T \ {e}, held, e.kind = "press")
<1>1. \A f \in T : ~Before(f, e)
  BY DEF Before, BusEvents
<1>2. Earlier(T, e) = {}
  BY <1>1 DEF Earlier
<1>3. Cardinality(Earlier(T, e)) = 0
  BY <1>2, FS_EmptySet
<1>4. e.kind = "press" <=> ~told
  BY <1>3, Parity DEF KeyOK
<1>5. Cardinality(T \ {e}) \in Nat /\ Cardinality(T) = Cardinality(T \ {e}) + 1
  <2>1. Cardinality(T) \in Nat \ {0} /\ Cardinality(T \ {e}) = Cardinality(T) - 1
    BY OneLess
  <2> QED
    BY <2>1
<1>6. Even(Cardinality(T)) <=> ~Even(Cardinality(T \ {e}))
  BY <1>5, Parity
<1>7. held <=> (Even(Cardinality(T \ {e})) <=> e.kind = "press")
  BY <1>4, <1>6 DEF KeyOK
<1>8. \A f \in T \ {e} :
        f.kind = "press" <=> (Even(Cardinality(Earlier(T \ {e}, f))) <=> ~(e.kind = "press"))
  <2> TAKE f \in T \ {e}
  <2> DEFINE A == Earlier(T, f)
             B == Earlier(T \ {e}, f)
  <2>1. B = A \ {e} /\ e \in A
    BY DEF Earlier
  <2>2. IsFiniteSet(A)
    <3>1. A \subseteq T
      BY DEF Earlier
    <3> QED
      BY <3>1, FS_Subset
  <2> HIDE DEF A, B
  <2>3. Cardinality(B) \in Nat /\ Cardinality(A) = Cardinality(B) + 1
    <3>1. IsFiniteSet(B)
      BY <2>1, <2>2, OneLess
    <3>2. Cardinality(A) \in Nat \ {0} /\ Cardinality(B) = Cardinality(A) - 1
      BY <2>1, <2>2, OneLess
    <3> QED
      BY <3>1, <3>2, FS_CardinalityType
  <2>4. Even(Cardinality(A)) <=> ~Even(Cardinality(B))
    BY <2>3, Parity
  <2>5. f.kind = "press" <=> (Even(Cardinality(A)) <=> ~told)
    BY DEF A, KeyOK
  <2>6. f.kind = "press" <=> (Even(Cardinality(B)) <=> ~(e.kind = "press"))
    BY <2>4, <2>5, <1>4
  <2> QED
    BY <2>6 DEF B
<1> QED
  BY <1>7, <1>8 DEF KeyOK

-----------------------------------------------------------------------------
(* Events that come and go.                                                  *)

LEMMA EventPut ==
  ASSUME NEW bus, NEW next, BusOK(bus, next), HasRoom(bus),
         NEW e \in BusEvents, e.sequence = next
  PROVE  BusOK(bus \cup {e}, next + 1)
<1>1. e \notin bus /\ next \in Nat \ {0}
  BY DEF BusOK
<1>2. /\ IsFiniteSet(bus \cup {e}) /\ Cardinality(bus) \in Nat
      /\ Cardinality(bus \cup {e}) = Cardinality(bus) + 1
  BY <1>1, OneMore DEF BusOK
<1>3. Cardinality(bus \cup {e}) <= MaxEvents
  BY <1>2, MaxEventsAssumption DEF HasRoom
<1>4. \A f \in bus \cup {e} : f.sequence \in 1 .. next + 1 - 1
  BY <1>1 DEF BusOK
<1>5. \A f, g \in bus \cup {e} : f # g => f.sequence # g.sequence
  BY <1>1 DEF BusOK
<1> QED
  BY <1>1, <1>2, <1>3, <1>4, <1>5 DEF BusOK

LEMMA EventsTaken ==
  ASSUME NEW bus, NEW next, BusOK(bus, next), NEW S \in SUBSET bus
  PROVE  BusOK(S, next)
<1>1. IsFiniteSet(S) /\ Cardinality(S) <= Cardinality(bus)
  BY FS_Subset DEF BusOK
<1>2. Cardinality(S) \in Nat /\ Cardinality(bus) \in Nat
  BY <1>1, FS_CardinalityType DEF BusOK
<1>3. Cardinality(S) <= MaxEvents
  BY <1>1, <1>2, MaxEventsAssumption DEF BusOK
<1> QED
  BY <1>1, <1>3 DEF BusOK

\* What the guest is told of the keys is a matter of the transitions alone.
LEMMA SameTransitions ==
  ASSUME NEW bus, NEW states, NEW told, KeysOK(bus, states, told), NEW bus2, NEW states2,
         \A c \in ControlNames :
           /\ TransitionsOn(bus2, c) = TransitionsOn(bus, c)
           /\ HeldIn(states2, c) <=> HeldIn(states, c)
  PROVE  KeysOK(bus2, states2, told)
<1> SUFFICES ASSUME NEW c \in ControlNames
    PROVE KeyOK(TransitionsOn(bus2, c), HeldIn(states2, c), told[c])
  BY DEF KeysOK
<1>1. KeyOK(TransitionsOn(bus, c), HeldIn(states, c), told[c])
  BY DEF KeysOK
<1>2. /\ TransitionsOn(bus2, c) = TransitionsOn(bus, c)
      /\ HeldIn(states2, c) <=> HeldIn(states, c)
  OBVIOUS
<1>3. KeyOK(TransitionsOn(bus, c), HeldIn(states2, c), told[c])
  BY <1>1, <1>2 DEF KeyOK
<1> QED
  BY <1>2, <1>3

LEMMA OtherEvent ==
  ASSUME NEW bus, NEW e, e.kind \notin {"press", "release"}, NEW c
  PROVE  TransitionsOn(bus \cup {e}, c) = TransitionsOn(bus, c)
BY DEF TransitionsOn

LEMMA TransitionFacts ==
  ASSUME NEW bus, NEW next, BusOK(bus, next), NEW c
  PROVE  TransitionsOn(bus, c) \subseteq BusEvents /\ IsFiniteSet(TransitionsOn(bus, c))
<1>1. TransitionsOn(bus, c) \subseteq bus
  BY DEF TransitionsOn
<1> QED
  BY <1>1, FS_Subset DEF BusOK

-----------------------------------------------------------------------------
(* Input.                                                                    *)

LEMMA HeldIsBoolean ==
  ASSUME NEW states \in Controls, NEW c \in ControlNames
  PROVE  HeldIn(states, c) \in BOOLEAN
BY DEF Controls, ControlStates, HeldIn

\* A control that may be new is given a state.
LEMMA ControlSet ==
  ASSUME NEW states, NEW changes, InputOK(states, changes), NEW c \in ControlNames,
         states[c] # None \/ Cardinality(KnownIn(states)) < MaxControls,
         NEW state \in ControlStates, state.pressed <=> state.nextRepeat # 0
  PROVE  LET new == [states EXCEPT ![c] = state]
         IN  InputOK(new, changes) /\ KnownIn(new) = KnownIn(states) \cup {c}
<1> DEFINE new == [states EXCEPT ![c] = state]
<1>1. state # None
  BY NoneAssumption
<1>2. /\ states \in Controls /\ new \in Controls /\ new[c] = state
      /\ \A d \in ControlNames \ {c} : new[d] = states[d]
  BY DEF InputOK, Controls
<1>3. KnownIn(new) = KnownIn(states) \cup {c}
  BY <1>1, <1>2 DEF KnownIn
<1>4. IsFiniteSet(KnownIn(new)) /\ Cardinality(KnownIn(new)) <= MaxControls
  <2>1. CASE c \in KnownIn(states)
    <3>1. KnownIn(new) = KnownIn(states)
      BY <1>3, <2>1
    <3> QED
      BY <3>1 DEF InputOK
  <2>2. CASE c \notin KnownIn(states)
    <3>1. Cardinality(KnownIn(states)) < MaxControls
      BY <2>2 DEF KnownIn
    <3>2. /\ IsFiniteSet(KnownIn(states) \cup {c}) /\ Cardinality(KnownIn(states)) \in Nat
          /\ Cardinality(KnownIn(states) \cup {c}) = Cardinality(KnownIn(states)) + 1
      BY <2>2, OneMore DEF InputOK
    <3>3. MaxControls \in Nat
      BY FrameAssumption
    <3> DEFINE n == Cardinality(KnownIn(states))
               m == Cardinality(KnownIn(states) \cup {c})
    <3>4. n \in Nat /\ n < MaxControls /\ m = n + 1
      BY <3>1, <3>2
    <3> HIDE DEF n, m
    <3>5. m <= MaxControls
      BY <3>3, <3>4
    <3> QED
      BY <1>3, <3>2, <3>5 DEF m
  <2> QED
    BY <2>1, <2>2
<1>5. \A d \in KnownIn(new) : new[d].pressed <=> new[d].nextRepeat # 0
  BY <1>2, <1>3 DEF InputOK, KnownIn
<1> QED
  BY <1>2, <1>3, <1>4, <1>5 DEF InputOK

\* Held is HeldIn of the controls as they are.
LEMMA HeldNow ==
  ASSUME NEW c \in ControlNames
  PROVE  Held(c) <=> HeldIn(controls, c)
BY DEF Held, HeldIn

\* A transition behind all others of its control.
LEMMA ChangedKeeps ==
  ASSUME ServicesOK, NEW c \in ControlNames, NEW pressed \in BOOLEAN, NEW at \in Nat,
         CanChange(c, pressed, at), Changed(c, pressed, at), seen' = seen, timers' = timers,
         \A e \in TransitionsOn(pending, c) : e.at <= at
  PROVE  /\ BusOK(pending', nextSequence') /\ InputOK(controls', queued)
         /\ KeysOK(pending', controls', seen) /\ GraphOK(pending', timers)
         /\ \A e \in pending' : e \in pending \/ e.at = at
         /\ \A d \in ControlNames \ {c} : controls'[d] = controls[d]
<1> USE DEF ServicesOK
<1>1. CASE Held(c) = pressed
  <2>1. controls' = controls /\ pending' = pending /\ nextSequence' = nextSequence
    BY <1>1 DEF Changed
  <2> QED
    BY <2>1
<1>2. CASE Held(c) # pressed
  <2> DEFINE state == [pressed |-> pressed, nextRepeat |-> IF pressed THEN at + RepeatDelay ELSE 0]
             new == [controls EXCEPT ![c] = state]
             e == Event(IF pressed THEN "press" ELSE "release", at, c, 0)
             T == TransitionsOn(pending, c)
  <2>1. /\ controls' = new
        /\ pending' = pending \cup {e} /\ nextSequence' = nextSequence + 1
        /\ HasRoom(pending)
    BY <1>2 DEF Changed, CanChange, Enqueued, CanEnqueue
  <2>2. /\ e \in BusEvents /\ e.sequence = nextSequence /\ e.at = at /\ e.control = c
        /\ e.service = 0 /\ e.kind \in {"press", "release"}
        /\ e.kind = "press" <=> pressed
    BY DEF Event, BusEvents, BusOK
  <2>3. state \in ControlStates /\ (state.pressed <=> pressed) /\ (pressed <=> state.nextRepeat # 0)
    <3>1. RepeatDelay \in Nat \ {0}
      BY FrameAssumption
    <3> QED
      BY <3>1 DEF ControlStates
  <2> HIDE DEF state, e
  <2>4. InputOK(new, queued)
    <3>1. controls[c] # None \/ Cardinality(KnownIn(controls)) < MaxControls
      BY DEF CanChange, CanKnow, Known, KnownIn
    <3>2. state.pressed <=> state.nextRepeat # 0
      BY <2>3
    <3> QED
      BY <2>3, <3>1, <3>2, ControlSet
  <2>5. /\ new \in Controls /\ new[c] = state /\ state # None
        /\ \A d \in ControlNames \ {c} : new[d] = controls[d]
    BY <2>3, NoneAssumption DEF InputOK, Controls
  <2>6. BusOK(pending \cup {e}, nextSequence + 1)
    BY <2>1, <2>2, EventPut
  <2>7. GraphOK(pending \cup {e}, timers)
    BY <2>2 DEF GraphOK
  <2>8. KeysOK(pending \cup {e}, new, seen)
    <3> SUFFICES ASSUME NEW d \in ControlNames
        PROVE KeyOK(TransitionsOn(pending \cup {e}, d), HeldIn(new, d), seen[d])
      BY DEF KeysOK
    <3>1. KeyOK(TransitionsOn(pending, d), HeldIn(controls, d), seen[d])
      BY DEF KeysOK
    <3>2. CASE d # c
      <4>1. TransitionsOn(pending \cup {e}, d) = TransitionsOn(pending, d)
        BY <2>2, <3>2 DEF TransitionsOn
      <4>2. HeldIn(new, d) <=> HeldIn(controls, d)
        BY <2>5, <3>2 DEF HeldIn
      <4> QED
        BY <3>1, <4>1, <4>2 DEF KeyOK
    <3>3. CASE d = c
      <4> DEFINE held == HeldIn(controls, c)
                 told == seen[c]
      <4>1. TransitionsOn(pending \cup {e}, c) = T \cup {e}
        BY <2>2 DEF TransitionsOn
      <4>2. held \in BOOLEAN /\ told \in BOOLEAN
        BY HeldIsBoolean DEF InputOK
      <4>3. HeldIn(new, c) <=> ~held
        <5>1. HeldIn(new, c) <=> pressed
          BY <2>3, <2>5 DEF HeldIn
        <5>2. Held(c) <=> held
          BY HeldNow
        <5>3. (Held(c) <=> pressed) => Held(c) = pressed
          BY DEF Held
        <5> QED
          BY <1>2, <5>1, <5>2, <5>3
      <4>4. \A f \in T : Before(f, e) /\ f # e
        <5> TAKE f \in T
        <5>1. f \in pending /\ f.at <= at /\ f.sequence < nextSequence
          BY DEF TransitionsOn, BusOK
        <5>2. f.at \in Nat /\ f.sequence \in Nat
          BY <5>1 DEF BusOK, BusEvents
        <5> QED
          BY <2>2, <5>1, <5>2 DEF Before
      <4>5. e.kind = "press" <=> ~held
        BY <2>2, <2>3, <2>5, <4>3 DEF HeldIn
      <4>6. T \subseteq BusEvents /\ IsFiniteSet(T)
        BY TransitionFacts
      <4>7. KeyOK(T, held, told)
        BY <3>1, <3>3
      <4> HIDE DEF held, told, T
      <4>8. KeyOK(T \cup {e}, ~held, told)
        BY <2>2, <4>2, <4>4, <4>5, <4>6, <4>7, KeyTurned
      <4> QED
        BY <3>3, <4>1, <4>3, <4>8 DEF told, KeyOK
    <3> QED
      BY <3>2, <3>3
  <2>9. \A f \in pending \cup {e} : f \in pending \/ f.at = at
    BY <2>2
  <2> HIDE DEF new
  <2> QED
    BY <2>1, <2>4, <2>5, <2>6, <2>7, <2>8, <2>9
<1> QED
  BY <1>1, <1>2

-----------------------------------------------------------------------------
(* Input that waits.                                                         *)

LEMMA FirstOnes ==
  ASSUME NEW n \in Nat, NEW K \in SUBSET (1 .. n),
         \A i \in K, j \in 1 .. n : j < i => j \in K
  PROVE  Cardinality(K) \in 0 .. n /\ K = 1 .. Cardinality(K)
<1> DEFINE missing == {j \in 1 .. n + 1 : j \notin K}
<1>1. missing \in SUBSET Nat /\ n + 1 \in missing
  OBVIOUS
<1>2. PICK m \in missing : \A j \in missing : m <= j
  <2> HIDE DEF missing
  <2> QED
    BY <1>1, LeastNumber
<1>3. m \in 1 .. n + 1 /\ m \notin K
  OBVIOUS
<1>4. \A j \in 1 .. m - 1 : j \in K
  <2> TAKE j \in 1 .. m - 1
  <2>1. j \in 1 .. n + 1 /\ ~(m <= j)
    BY <1>3
  <2>2. j \notin missing
    BY <1>2, <2>1
  <2> QED
    BY <2>1, <2>2
<1>5. \A j \in K : j \in 1 .. m - 1
  <2> TAKE j \in K
  <2>1. j \in 1 .. n /\ j # m
    BY <1>3
  <2>2. ~(m < j)
    BY <1>3, <2>1
  <2> QED
    BY <1>3, <2>1, <2>2
<1>6. K = 1 .. m - 1
  BY <1>4, <1>5
<1>7. m - 1 \in Nat /\ m - 1 \in 0 .. n
  BY <1>3
<1>8. Cardinality(K) = m - 1
  BY <1>6, <1>7, FirstNumbers
<1> QED
  BY <1>6, <1>7, <1>8

LEMMA InsertKeeps ==
  ASSUME NEW states, InputOK(states, queued), Len(queued) < MaxEvents,
         Ahead(queued, now), now \in Nat,
         NEW change \in FutureChanges, change.at > now,
         change.control \in KnownIn(states),
         change.pressed => change.at <= MaxTime - RepeatDelay
  PROVE  InputOK(states, InsertQueued(change)) /\ Ahead(InsertQueued(change), now)
<1> DEFINE n == Len(queued)
           K == {i \in 1 .. Len(queued) : queued[i].at <= change.at}
           k == Cardinality(K)
           q == InsertedAt(queued, k + 1, change)
<1>0. Len(queued) + 1 <= MaxEvents
  BY LenProperties, MaxEventsAssumption DEF InputOK
<1>1. /\ queued \in Seq(FutureChanges) /\ n \in Nat
      /\ \A i \in 1 .. n : queued[i] \in FutureChanges /\ queued[i].at \in Nat
      /\ \A i, j \in 1 .. n : i < j => queued[i].at <= queued[j].at
      /\ change.at \in Nat
  <2>1. queued \in Seq(FutureChanges)
    BY DEF InputOK
  <2>2. n \in Nat /\ \A i \in 1 .. n : queued[i] \in FutureChanges
    BY <2>1, LenProperties, ElementOfSeq
  <2> QED
    BY <2>1, <2>2 DEF InputOK, FutureChanges
<1>2. InsertQueued(change) = q
  BY DEF InsertQueued
<1>3. \A i \in K, j \in 1 .. n : j < i => j \in K
  <2> SUFFICES ASSUME NEW i \in K, NEW j \in 1 .. n, j < i PROVE queued[j].at <= change.at
    OBVIOUS
  <2>1. i \in 1 .. n /\ queued[i].at <= change.at
    OBVIOUS
  <2>2. queued[j].at <= queued[i].at
    BY <1>1, <2>1
  <2> QED
    BY <1>1, <2>1, <2>2
<1>4. \A i \in 1 .. n : i \in K <=> queued[i].at <= change.at
  OBVIOUS
<1>5. K \in SUBSET (1 .. n)
  OBVIOUS
<1> HIDE DEF K
<1>6. k \in 0 .. n /\ K = 1 .. k
  BY <1>1, <1>3, <1>5, FirstOnes
<1> HIDE DEF k
<1>7. /\ \A i \in 1 .. n : i <= k => queued[i].at <= change.at
      /\ \A i \in 1 .. n : i > k => queued[i].at > change.at
  <2> SUFFICES ASSUME NEW i \in 1 .. n
      PROVE  (i <= k => queued[i].at <= change.at) /\ (i > k => queued[i].at > change.at)
    OBVIOUS
  <2>1. i \in K <=> i <= k
    BY <1>6
  <2>2. i \in K <=> queued[i].at <= change.at
    BY <1>4
  <2>3. queued[i].at \in Nat /\ change.at \in Nat /\ i \in Nat /\ k \in Nat
    BY <1>1, <1>6
  <2> QED
    BY <2>1, <2>2, <2>3
<1>8. k + 1 \in 1 .. Len(queued) + 1
  BY <1>1, <1>6
<1>9. /\ q \in Seq(FutureChanges) /\ Len(q) = n + 1
      /\ \A j \in 1 .. n + 1 :
           q[j] = IF j < k + 1 THEN queued[j] ELSE IF j = k + 1 THEN change ELSE queued[j - 1]
  <2>1. queued \in Seq(FutureChanges)
    BY <1>1
  <2> DEFINE p == k + 1
  <2>2. p \in 1 .. Len(queued) + 1
    BY <1>8
  <2> HIDE DEF p
  <2>3. /\ InsertedAt(queued, p, change) \in Seq(FutureChanges)
        /\ Len(InsertedAt(queued, p, change)) = Len(queued) + 1
        /\ \A j \in 1 .. Len(queued) + 1 : InsertedAt(queued, p, change)[j] =
              IF j < p THEN queued[j] ELSE IF j = p THEN change ELSE queued[j - 1]
    BY <2>1, <2>2, InsertedFacts
  <2> QED
    BY <2>3 DEF p
<1> HIDE DEF q, n
<1>10. \A j \in 1 .. n + 1 :
         \/ j \in 1 .. n /\ j <= k /\ q[j] = queued[j]
         \/ j = k + 1 /\ q[j] = change
         \/ j - 1 \in 1 .. n /\ j - 1 > k /\ q[j] = queued[j - 1]
  BY <1>1, <1>6, <1>9
<1>11. \A j \in 1 .. n + 1 :
         /\ q[j].control \in KnownIn(states) /\ q[j].at > 0 /\ q[j].at > now
         /\ q[j].pressed => q[j].at <= MaxTime - RepeatDelay
  <2>1. \A i \in 1 .. n :
          /\ queued[i].control \in KnownIn(states) /\ queued[i].at > 0 /\ queued[i].at > now
          /\ queued[i].pressed => queued[i].at <= MaxTime - RepeatDelay
    BY DEF InputOK, Ahead, n
  <2>2. change.at > 0
    BY <1>1
  <2> QED
    BY <1>10, <2>1, <2>2
<1>12. \A i, j \in 1 .. n + 1 : i < j => q[i].at <= q[j].at
  <2> SUFFICES ASSUME NEW i \in 1 .. n + 1, NEW j \in 1 .. n + 1, i < j PROVE q[i].at <= q[j].at
    OBVIOUS
  <2>1. CASE i \in 1 .. n /\ i <= k /\ q[i] = queued[i]
    <3>1. CASE j \in 1 .. n /\ j <= k /\ q[j] = queued[j]
      BY <1>1, <2>1, <3>1
    <3>2. CASE j = k + 1 /\ q[j] = change
      BY <1>7, <2>1, <3>2
    <3>3. CASE j - 1 \in 1 .. n /\ j - 1 > k /\ q[j] = queued[j - 1]
      <4>1. i < j - 1
        BY <1>6, <2>1, <3>3
      <4> QED
        BY <1>1, <2>1, <3>3, <4>1
    <3> QED
      BY <1>10, <3>1, <3>2, <3>3
  <2>2. CASE i = k + 1 /\ q[i] = change
    <3>1. j - 1 \in 1 .. n /\ j - 1 > k /\ q[j] = queued[j - 1]
      BY <1>6, <1>10, <2>2
    <3>2. queued[j - 1].at > change.at
      BY <1>7, <3>1
    <3> QED
      BY <1>1, <2>2, <3>1, <3>2
  <2>3. CASE i - 1 \in 1 .. n /\ i - 1 > k /\ q[i] = queued[i - 1]
    <3>1. j - 1 \in 1 .. n /\ j - 1 > k /\ q[j] = queued[j - 1]
      BY <1>6, <1>10, <2>3
    <3>2. i - 1 < j - 1
      OBVIOUS
    <3> QED
      BY <1>1, <2>3, <3>1, <3>2
  <2> QED
    BY <1>10, <2>1, <2>2, <2>3
<1>13. Len(q) <= MaxEvents
  BY <1>0, <1>9 DEF n
<1> QED
  BY <1>2, <1>9, <1>11, <1>12, <1>13 DEF InputOK, Ahead

-----------------------------------------------------------------------------
(* Operations between advances.                                              *)

LEMMA RestingServices ==
  ASSUME FrameInv, BetweenAdvances
  PROVE  /\ ServicesOK /\ DueBy(pending, now) /\ Ahead(queued, now)
         /\ ServicesOK' /\ DueBy(pending', now') /\ Ahead(queued', now') => FrameInv'
<1>1. txn.step = "idle" /\ txn' = Idle
  BY DEF BetweenAdvances
<1>2. txn'.step = "idle" /\ txn'.outcome = "none"
  BY <1>1 DEF Idle
<1>3. FailedAdvanceChangesNothing' /\ AdvanceCatchesUp'
  BY <1>2 DEF FailedAdvanceChangesNothing, AdvanceCatchesUp
<1> QED
  BY <1>1, <1>2, <1>3 DEF FrameInv, Resting

LEMMA ReplayedKeeps ==
  ASSUME ReplayOK(log, cursor), mode \in {"off", "record", "playback"}, NEW entry \in Entries,
         CanReplay(entry), Replayed(entry)
  PROVE  ReplayOK(log', cursor')
<1>1. /\ log \in Seq(Entries) /\ cursor \in Nat /\ Len(log) \in Nat
      /\ Len(log) <= MaxEntries /\ cursor <= Len(log) /\ MaxEntries \in Nat
  BY LenProperties, FrameAssumption DEF ReplayOK
<1>2. CASE mode = "playback"
  <2>1. cursor < Len(log) /\ cursor' = cursor + 1 /\ log' = log
    BY <1>2 DEF CanReplay, Replayed, Matches
  <2> QED
    BY <1>1, <2>1 DEF ReplayOK
<1>3. CASE mode = "record"
  <2>1. Len(log) < MaxEntries /\ cursor' = cursor /\ log' = Append(log, entry)
    BY <1>3 DEF CanReplay, Replayed
  <2>2. log' \in Seq(Entries) /\ Len(log') = Len(log) + 1
    BY <1>1, <2>1, AppendProperties
  <2> QED
    BY <1>1, <2>1, <2>2 DEF ReplayOK
<1>4. CASE mode = "off"
  BY <1>4 DEF Replayed
<1> QED
  BY <1>2, <1>3, <1>4

LEMMA QueueInputKeeps ==
  ASSUME FrameInv, NEW c \in ControlNames, NEW pressed \in BOOLEAN, NEW requested \in InputTimes,
         QueueInput(c, pressed, requested)
  PROVE  FrameInv'
<1> DEFINE at == Anchored(requested)
           entry == Entry("input", at, c, IF pressed THEN 1 ELSE 0)
<1>1. /\ BetweenAdvances /\ CanReplay(entry) /\ Replayed(entry)
      /\ now' = now /\ timers' = timers /\ nextTimer' = nextTimer /\ voice' = voice
      /\ device' = device /\ mode' = mode /\ seen' = seen
  BY DEF QueueInput, timerVars
<1>2. ServicesOK /\ DueBy(pending, now) /\ Ahead(queued, now)
  BY <1>1, RestingServices
<1>3. now \in Nat /\ at \in Nat /\ at >= now
  BY <1>2, FrameAssumption DEF ServicesOK, Anchored
<1>4. ReplayOK(log', cursor')
  <2>1. entry \in Entries
    BY <1>3, FrameAssumption DEF Entry, Entries
  <2> HIDE DEF entry
  <2> QED
    BY <1>1, <1>2, <2>1, ReplayedKeeps DEF ServicesOK
<1>5. /\ BusOK(pending', nextSequence') /\ InputOK(controls', queued')
      /\ KeysOK(pending', controls', seen) /\ GraphOK(pending', timers)
      /\ DueBy(pending', now) /\ Ahead(queued', now)
  <2>1. CASE DueNow(at)
    <3>1. CanChange(c, pressed, at) /\ Changed(c, pressed, at) /\ queued' = queued
      BY <2>1 DEF QueueInput
    <3>2. at = now
      BY <1>3, <2>1 DEF DueNow
    <3>3. \A e \in TransitionsOn(pending, c) : e.at <= at
      BY <1>2, <3>2 DEF TransitionsOn, DueBy
    <3> HIDE DEF at
    <3>4. /\ BusOK(pending', nextSequence') /\ InputOK(controls', queued)
          /\ KeysOK(pending', controls', seen) /\ GraphOK(pending', timers)
          /\ \A e \in pending' : e \in pending \/ e.at = at
      BY <1>1, <1>2, <1>3, <3>1, <3>3, ChangedKeeps
    <3>5. DueBy(pending', now)
      BY <1>2, <1>3, <3>2, <3>4 DEF DueBy
    <3> QED
      BY <1>2, <3>1, <3>4, <3>5
  <2>2. CASE ~DueNow(at)
    <3> DEFINE change == [at |-> at, control |-> c, pressed |-> pressed]
    <3>1. /\ pressed => at <= MaxTime - RepeatDelay
          /\ CanKnow(c) /\ Len(queued) < MaxEvents /\ queued' = InsertQueued(change)
          /\ controls' = IF controls[c] = None
                         THEN [controls EXCEPT ![c] = NoControl] ELSE controls
          /\ pending' = pending /\ nextSequence' = nextSequence
      BY <2>2 DEF QueueInput
    <3>2. at > now
      BY <1>3, <2>2 DEF DueNow
    <3>3. /\ change \in FutureChanges /\ change.at = at /\ change.control = c
          /\ change.pressed = pressed
      BY <1>3 DEF FutureChanges
    <3> HIDE DEF at, change
    <3>4. InputOK(controls', queued) /\ c \in KnownIn(controls')
      <4>1. CASE controls[c] = None
        <5> DEFINE new == [controls EXCEPT ![c] = NoControl]
        <5>1. NoControl \in ControlStates /\ (NoControl.pressed <=> NoControl.nextRepeat # 0)
          BY DEF NoControl, ControlStates
        <5>2. controls[c] # None \/ Cardinality(KnownIn(controls)) < MaxControls
          BY <3>1 DEF CanKnow, Known, KnownIn
        <5>3. InputOK(controls, queued)
          BY <1>2 DEF ServicesOK
        <5>4. InputOK(new, queued) /\ KnownIn(new) = KnownIn(controls) \cup {c}
          <6> HIDE DEF new
          <6>1. new = [controls EXCEPT ![c] = NoControl]
            BY DEF new
          <6> QED
            BY <5>1, <5>2, <5>3, <6>1, ControlSet
        <5>5. controls' = new
          BY <3>1, <4>1
        <5> HIDE DEF new
        <5> QED
          BY <5>4, <5>5
      <4>2. CASE controls[c] # None
        BY <1>2, <3>1, <4>2 DEF KnownIn, ServicesOK
      <4> QED
        BY <4>1, <4>2
    <3>5. \A d \in ControlNames : HeldIn(controls', d) <=> HeldIn(controls, d)
      <4> SUFFICES ASSUME NEW d \in ControlNames PROVE HeldIn(controls', d) <=> HeldIn(controls, d)
        OBVIOUS
      <4>1. CASE controls[c] = None
        <5>1. controls \in Controls
          BY <1>2 DEF ServicesOK, InputOK
        <5>2. controls' = [controls EXCEPT ![c] = NoControl]
          BY <3>1, <4>1
        <5>3. CASE d = c
          <6>1. controls'[d] = NoControl
            BY <5>1, <5>2, <5>3 DEF Controls
          <6> QED
            BY <4>1, <5>3, <6>1 DEF HeldIn, NoControl
        <5>4. CASE d # c
          <6>1. controls'[d] = controls[d]
            BY <5>1, <5>2, <5>4 DEF Controls
          <6> QED
            BY <6>1 DEF HeldIn
        <5> QED
          BY <5>3, <5>4
      <4>2. CASE controls[c] # None
        BY <3>1, <4>2
      <4> QED
        BY <4>1, <4>2
    <3>6. KeysOK(pending', controls', seen)
      BY <1>2, <3>1, <3>5, SameTransitions DEF ServicesOK
    <3>7. InputOK(controls', queued') /\ Ahead(queued', now)
      <4>1. InputOK(controls', queued) /\ Ahead(queued, now) /\ now \in Nat
        BY <1>2, <1>3, <3>4
      <4>2. /\ change.at > now /\ change.control \in KnownIn(controls')
            /\ change.pressed => change.at <= MaxTime - RepeatDelay
        BY <3>1, <3>2, <3>3, <3>4
      <4> QED
        BY <3>1, <3>3, <4>1, <4>2, InsertKeeps
    <3> QED
      BY <1>2, <3>1, <3>6, <3>7 DEF ServicesOK
  <2> QED
    BY <2>1, <2>2
<1>6. ServicesOK'
  BY <1>1, <1>2, <1>4, <1>5 DEF ServicesOK
<1> QED
  BY <1>1, <1>5, <1>6, RestingServices

LEMMA TimerSet ==
  ASSUME TimersOK(timers), NEW t \in TimerIDs, NEW timer \in TimerStates,
         timers[t] # None \/ Cardinality(AliveIn(timers)) < MaxTimers
  PROVE  LET new == [timers EXCEPT ![t] = timer]
         IN  TimersOK(new) /\ AliveIn(new) = AliveIn(timers) \cup {t}
<1> DEFINE new == [timers EXCEPT ![t] = timer]
<1>1. timer # None
  BY NoneAssumption
<1>2. /\ timers \in TimerTables /\ new \in TimerTables /\ new[t] = timer
      /\ \A u \in TimerIDs \ {t} : new[u] = timers[u]
  BY DEF TimersOK, TimerTables
<1>3. AliveIn(new) = AliveIn(timers) \cup {t}
  BY <1>1, <1>2 DEF AliveIn
<1>4. CASE t \in AliveIn(timers)
  <2>1. AliveIn(new) = AliveIn(timers)
    BY <1>3, <1>4
  <2> QED
    BY <1>2, <1>3, <2>1 DEF TimersOK
<1>5. CASE t \notin AliveIn(timers)
  <2> DEFINE n == Cardinality(AliveIn(timers))
             m == Cardinality(AliveIn(timers) \cup {t})
  <2>1. n < MaxTimers
    BY <1>5 DEF AliveIn
  <2>2. IsFiniteSet(AliveIn(timers) \cup {t}) /\ n \in Nat /\ m = n + 1
    BY <1>5, OneMore DEF TimersOK
  <2>3. MaxTimers \in Nat
    BY FrameAssumption
  <2>4. m <= MaxTimers
    <3> HIDE DEF n, m
    <3> QED
      BY <2>1, <2>2, <2>3
  <2> QED
    BY <1>2, <1>3, <2>2, <2>4 DEF TimersOK
<1> QED
  BY <1>4, <1>5

LEMMA TimerFacts ==
  ASSUME TimersOK(timers), NEW t \in TimerIDs, timers[t] # None
  PROVE  /\ timers[t] \in TimerStates
         /\ timers[t].deadline \in Nat /\ timers[t].interval \in Nat /\ timers[t].active \in BOOLEAN
         /\ timers \in [TimerIDs -> TimerStates \cup {None}]
BY DEF TimersOK, TimerTables, TimerStates

LEMMA MoreTimers ==
  ASSUME GraphOK(pending, timers), NEW table, AliveIn(timers) \subseteq AliveIn(table)
  PROVE  GraphOK(pending, table)
BY DEF GraphOK

\* Define, Set and Cancel.
LEMMA TimerStep ==
  ASSUME FrameInv, BetweenAdvances, NEW t \in TimerIDs, NEW timer \in TimerStates,
         timers[t] # None \/ Cardinality(AliveIn(timers)) < MaxTimers,
         timers' = [timers EXCEPT ![t] = timer], nextTimer' \in Nat,
         UNCHANGED <<now, busVars, inputVars, voice, device, replayVars, seen>>
  PROVE  FrameInv'
<1> DEFINE new == [timers EXCEPT ![t] = timer]
<1>1. ServicesOK /\ DueBy(pending, now) /\ Ahead(queued, now)
  BY RestingServices
<1>2. TimersOK(new) /\ AliveIn(new) = AliveIn(timers) \cup {t}
  BY <1>1, TimerSet DEF ServicesOK
<1>3. timers' = new
  OBVIOUS
<1> HIDE DEF new
<1>4. GraphOK(pending, new)
  BY <1>1, <1>2, MoreTimers DEF ServicesOK
<1>5. ServicesOK' /\ DueBy(pending', now') /\ Ahead(queued', now')
  BY <1>1, <1>2, <1>3, <1>4 DEF ServicesOK, busVars, inputVars, replayVars
<1> QED
  BY <1>5, RestingServices

LEMMA TimerCallsKeep ==
  ASSUME FrameInv,
         \/ Define
         \/ \E t \in TimerIDs, deadline \in Deadlines, interval \in {0, 1} : Set(t, deadline, interval)
         \/ \E t \in TimerIDs : Cancel(t)
  PROVE  FrameInv'
<1>1. CASE Define
  <2> DEFINE timer == [deadline |-> 0, interval |-> 0, active |-> FALSE]
  <2>1. timer \in TimerStates
    BY DEF TimerStates
  <2> HIDE DEF timer
  <2>2. /\ BetweenAdvances /\ nextTimer \in TimerIDs
        /\ Cardinality(AliveIn(timers)) < MaxTimers
        /\ timers' = [timers EXCEPT ![nextTimer] = timer] /\ nextTimer' = nextTimer + 1
        /\ UNCHANGED <<now, busVars, inputVars, voice, device, replayVars, seen>>
    BY <1>1 DEF Define, AliveIn, timer
  <2>3. nextTimer' \in Nat
    BY <2>2, FrameAssumption
  <2> QED
    BY <2>1, <2>2, <2>3, TimerStep
<1>2. ASSUME NEW t \in TimerIDs, NEW deadline \in Deadlines, NEW interval \in {0, 1},
             Set(t, deadline, interval)
      PROVE  FrameInv'
  <2> DEFINE timer == [deadline |-> deadline, interval |-> interval, active |-> TRUE]
  <2>1. timer \in TimerStates
    BY FrameAssumption DEF TimerStates
  <2> HIDE DEF timer
  <2>2. /\ BetweenAdvances /\ timers[t] # None
        /\ timers' = [timers EXCEPT ![t] = timer] /\ nextTimer' = nextTimer
        /\ UNCHANGED <<now, busVars, inputVars, voice, device, replayVars, seen>>
    BY <1>2 DEF Set, timer
  <2>3. nextTimer' \in Nat
    BY <2>2, RestingServices DEF ServicesOK
  <2> QED
    BY <2>1, <2>2, <2>3, TimerStep
<1>3. ASSUME NEW t \in TimerIDs, Cancel(t) PROVE FrameInv'
  <2>1. /\ BetweenAdvances /\ timers[t] # None
        /\ timers' = [timers EXCEPT ![t].active = FALSE] /\ nextTimer' = nextTimer
        /\ UNCHANGED <<now, busVars, inputVars, voice, device, replayVars, seen>>
    BY <1>3 DEF Cancel
  <2>2. TimersOK(timers) /\ nextTimer' \in Nat
    BY <2>1, RestingServices DEF ServicesOK
  <2> DEFINE timer == [timers[t] EXCEPT !.active = FALSE]
  <2>3. timer \in TimerStates
    BY <2>1, <2>2, TimerFacts DEF TimerStates
  <2>4. timers' = [timers EXCEPT ![t] = timer]
    BY <2>1
  <2> HIDE DEF timer
  <2> QED
    BY <2>1, <2>2, <2>3, <2>4, TimerStep
<1> QED
  BY <1>1, <1>2, <1>3

\* The events of a destroyed timer are gone, those of the keys are not.
LEMMA DestroyKeeps ==
  ASSUME FrameInv, NEW t \in TimerIDs, Destroy(t)
  PROVE  FrameInv'
<1>1. /\ BetweenAdvances /\ timers[t] # None
      /\ timers' = [timers EXCEPT ![t] = None]
      /\ pending' = RemoveService(pending, t)
      /\ UNCHANGED <<now, nextSequence, inputVars, nextTimer, voice, device, replayVars, seen>>
  BY DEF Destroy
<1>2. ServicesOK /\ DueBy(pending, now) /\ Ahead(queued, now)
  BY <1>1, RestingServices
<1>3. t # 0
  BY FrameAssumption
<1>4. pending' \in SUBSET pending /\ \A e \in pending : e \in pending' <=> e.service # t
  BY <1>1 DEF RemoveService
<1>5. /\ timers' \in TimerTables /\ timers'[t] = None
      /\ \A u \in TimerIDs \ {t} : timers'[u] = timers[u]
  BY <1>1, <1>2 DEF ServicesOK, TimersOK, TimerTables
<1>6. AliveIn(timers') = AliveIn(timers) \ {t} /\ t \in AliveIn(timers)
  BY <1>1, <1>5 DEF AliveIn
<1>7. TimersOK(timers')
  <2> DEFINE n == Cardinality(AliveIn(timers))
             m == Cardinality(AliveIn(timers) \ {t})
  <2>1. IsFiniteSet(AliveIn(timers) \ {t}) /\ n \in Nat \ {0} /\ m = n - 1
    BY <1>2, <1>6, OneLess DEF ServicesOK, TimersOK
  <2>2. n <= MaxTimers /\ MaxTimers \in Nat
    BY <1>2, FrameAssumption DEF ServicesOK, TimersOK
  <2>3. m <= MaxTimers
    <3> HIDE DEF n, m
    <3> QED
      BY <2>1, <2>2
  <2> QED
    BY <1>5, <1>6, <2>1, <2>3 DEF TimersOK
<1>8. BusOK(pending', nextSequence)
  BY <1>2, <1>4, EventsTaken DEF ServicesOK
<1>9. GraphOK(pending', timers')
  BY <1>2, <1>4, <1>6 DEF ServicesOK, GraphOK
<1>10. \A c \in ControlNames : TransitionsOn(pending', c) = TransitionsOn(pending, c)
  BY <1>2, <1>3, <1>4 DEF TransitionsOn, ServicesOK, GraphOK
<1>11. KeysOK(pending', controls', seen)
  <2>1. controls' = controls
    BY <1>1 DEF inputVars
  <2> QED
    BY <1>2, <1>10, <2>1, SameTransitions DEF ServicesOK
<1>12. DueBy(pending', now)
  BY <1>2, <1>4 DEF DueBy
<1>13. ServicesOK' /\ DueBy(pending', now') /\ Ahead(queued', now')
  BY <1>1, <1>2, <1>7, <1>8, <1>9, <1>11, <1>12 DEF ServicesOK, inputVars, replayVars
<1> QED
  BY <1>1, <1>13, RestingServices

LEMMA LightKeeps ==
  ASSUME FrameInv, NEW lamp \in Lamps, NEW on \in BOOLEAN, NEW duration \in {0, 1},
         Light(lamp, on, duration)
  PROVE  FrameInv'
<1> DEFINE light == [on |-> on /\ (lamp = "vibration" => duration # 0),
                     until |-> IF on /\ duration # 0 THEN now + duration ELSE 0]
<1>1. /\ BetweenAdvances /\ device' = [device EXCEPT ![lamp] = light]
      /\ UNCHANGED <<now, busVars, inputVars, timerVars, voice, replayVars, seen>>
  BY DEF Light
<1>2. ServicesOK /\ DueBy(pending, now) /\ Ahead(queued, now)
  BY <1>1, RestingServices
<1>3. /\ light \in LampStates
      /\ lamp = "vibration" => (light.on <=> light.until # 0)
      /\ lamp = "backlight" /\ ~light.on => light.until = 0
  <2> DEFINE lit == on /\ (lamp = "vibration" => duration # 0)
             end == IF on /\ duration # 0 THEN now + duration ELSE 0
  <2>1. now \in Nat
    BY <1>2 DEF ServicesOK
  <2>2. lit \in BOOLEAN /\ end \in Nat /\ (end # 0 => on /\ duration # 0)
    BY <2>1
  <2>3. lamp = "vibration" => (lit <=> end # 0)
    BY <2>1
  <2>4. lamp = "backlight" /\ ~lit => end = 0
    BY <2>1
  <2>5. light = [on |-> lit, until |-> end]
    OBVIOUS
  <2> HIDE DEF lit, end, light
  <2> QED
    BY <2>2, <2>3, <2>4, <2>5 DEF LampStates
<1> HIDE DEF light
<1>4. DeviceOK(device')
  BY <1>1, <1>2, <1>3 DEF ServicesOK, DeviceOK
<1>5. ServicesOK' /\ DueBy(pending', now') /\ Ahead(queued', now')
  BY <1>1, <1>2, <1>4 DEF ServicesOK, busVars, inputVars, timerVars, replayVars
<1> QED
  BY <1>1, <1>5, RestingServices

LEMMA PopReadyKeeps ==
  ASSUME FrameInv, PopReady
  PROVE  FrameInv'
<1>1. /\ BetweenAdvances
      /\ UNCHANGED <<now, nextSequence, inputVars, timerVars, voice, device, replayVars>>
  BY DEF PopReady
<1>2. ServicesOK /\ DueBy(pending, now) /\ Ahead(queued, now)
  BY <1>1, RestingServices
<1>3. PICK e \in Ready(pending, now) :
        /\ pending' = pending \ {e}
        /\ seen' = IF e.kind \in {"press", "release"}
                   THEN [seen EXCEPT ![e.control] = (e.kind = "press")] ELSE seen
  BY DEF PopReady
<1>4. e \in pending /\ \A f \in pending \ {e} : Before(e, f)
  BY <1>3 DEF Ready, IsFirst
<1>5. BusOK(pending', nextSequence) /\ GraphOK(pending', timers) /\ DueBy(pending', now)
  BY <1>2, <1>3, EventsTaken DEF ServicesOK, GraphOK, DueBy
<1>6. seen' \in [ControlNames -> BOOLEAN]
  BY <1>2, <1>3 DEF ServicesOK
<1>7. KeysOK(pending', controls, seen')
  <2> SUFFICES ASSUME NEW c \in ControlNames
      PROVE KeyOK(TransitionsOn(pending', c), HeldIn(controls, c), seen'[c])
    BY DEF KeysOK
  <2> DEFINE T == TransitionsOn(pending, c)
             held == HeldIn(controls, c)
             told == seen[c]
  <2>1. KeyOK(T, held, told) /\ held \in BOOLEAN /\ told \in BOOLEAN
    BY <1>2, HeldIsBoolean DEF ServicesOK, KeysOK, InputOK
  <2>2. CASE e \in T
    <3>1. TransitionsOn(pending', c) = T \ {e}
      BY <1>3 DEF TransitionsOn
    <3>2. seen'[c] = (e.kind = "press")
      BY <1>2, <1>3, <2>2 DEF ServicesOK, TransitionsOn
    <3>3. T \subseteq BusEvents /\ IsFiniteSet(T)
      BY <1>2, TransitionFacts DEF ServicesOK
    <3>4. \A f \in T \ {e} : Before(e, f)
      BY <1>4 DEF TransitionsOn
    <3> HIDE DEF T, held, told
    <3>5. KeyOK(T \ {e}, held, e.kind = "press")
      BY <2>1, <2>2, <3>3, <3>4, KeyTaken
    <3> QED
      BY <3>1, <3>2, <3>5 DEF held
  <2>3. CASE e \notin T
    <3>1. TransitionsOn(pending', c) = T
      BY <1>3, <2>3 DEF TransitionsOn
    <3>2. seen'[c] = seen[c]
      BY <1>2, <1>3, <1>4, <2>3 DEF ServicesOK, TransitionsOn
    <3> QED
      BY <2>1, <3>1, <3>2
  <2> QED
    BY <2>2, <2>3
<1>8. ServicesOK' /\ DueBy(pending', now') /\ Ahead(queued', now')
  BY <1>1, <1>2, <1>5, <1>6, <1>7 DEF ServicesOK, inputVars, timerVars, replayVars
<1> QED
  BY <1>1, <1>8, RestingServices

LEMMA PlayAndModeKeep ==
  ASSUME FrameInv, Play \/ \E next \in Modes : SetMode(next)
  PROVE  FrameInv'
<1>1. /\ BetweenAdvances
      /\ UNCHANGED <<now, busVars, inputVars, timerVars, device, log, cursor, seen>>
  BY DEF Play, SetMode, replayVars
<1>2. voice' \in {voice, ClipLength} /\ mode' \in Modes \cup {mode}
  BY DEF Play, SetMode, replayVars
<1>3. ServicesOK /\ DueBy(pending, now) /\ Ahead(queued, now)
  BY <1>1, RestingServices
<1>4. voice' \in Nat /\ mode' \in {"off", "record", "playback"}
  BY <1>2, <1>3, FrameAssumption DEF ServicesOK
<1>5. ServicesOK' /\ DueBy(pending', now') /\ Ahead(queued', now')
  BY <1>1, <1>3, <1>4 DEF ServicesOK, busVars, inputVars, timerVars
<1> QED
  BY <1>1, <1>5, RestingServices

-----------------------------------------------------------------------------
(* The record of an advance.                                                 *)

SameCapture(t, u) ==
  /\ t.outcome = u.outcome /\ t.before = u.before /\ t.delta = u.delta /\ t.clock = u.clock
  /\ t.pending = u.pending /\ t.nextSequence = u.nextSequence /\ t.voice = u.voice
  /\ t.device = u.device /\ t.cursor = u.cursor /\ t.entries = u.entries

LEMMA StepTo ==
  ASSUME NEW t \in Advances, NEW s \in Steps
  PROVE  LET u == [t EXCEPT !.step = s]
         IN  /\ u \in Advances /\ SameCapture(u, t) /\ u.step = s
             /\ u.controls = t.controls /\ u.queued = t.queued /\ u.due = t.due
             /\ u.timers = t.timers
BY DEF Advances, SameCapture

LEMMA ChangeDone ==
  ASSUME NEW t \in Advances
  PROVE  LET u == [t EXCEPT !.due = @ + 1]
         IN  /\ u \in Advances /\ SameCapture(u, t) /\ u.step = t.step
             /\ u.controls = t.controls /\ u.queued = t.queued /\ u.due = t.due + 1
             /\ u.timers = t.timers
BY DEF Advances, SameCapture

LEMMA TimerJournaled ==
  ASSUME NEW t \in Advances, NEW T \in SUBSET SavedTimers
  PROVE  LET u == [t EXCEPT !.timers = T]
         IN  /\ u \in Advances /\ SameCapture(u, t) /\ u.step = t.step
             /\ u.controls = t.controls /\ u.queued = t.queued /\ u.due = t.due
             /\ u.timers = T
BY DEF Advances, SameCapture

LEMMA AdvanceFacts ==
  ASSUME NEW t \in Advances
  PROVE  /\ t.step \in Steps /\ t.outcome = "none" /\ t.before \in Snapshots /\ t.delta \in Nat
         /\ t.clock \in Nat /\ t.voice \in Nat /\ t.due \in Nat /\ t.entries \in Nat
         /\ t.controls \in SUBSET SavedControls /\ t.timers \in SUBSET SavedTimers
         /\ t.queued \in Seq(FutureChanges) \cup {None}
BY DEF Advances

LEMMA SnapshotFacts ==
  ASSUME NEW b \in Snapshots
  PROVE  /\ b.now \in Nat /\ b.pending \in SUBSET BusEvents /\ b.nextSequence \in Nat
         /\ b.controls \in Controls /\ b.queued \in Seq(FutureChanges)
         /\ b.timers \in TimerTables /\ b.voice \in Nat /\ b.device \in [Lamps -> LampStates]
         /\ b.log \in Seq(Entries) /\ b.cursor \in Nat
BY DEF Snapshots

\* What is known in the middle of an advance.
LEMMA InAdvance ==
  ASSUME FrameInv, txn.step # "idle"
  PROVE  ServicesOK /\ AdvanceOK /\ txn \in Advances
BY DEF FrameInv, AdvanceOK

\* What a step leaves to be shown.
LEMMA StepKeeps ==
  ASSUME AdvanceOK, ServicesOK', txn' \in Advances, SameCapture(txn', txn),
         seen' = seen, log' = log,
         ControlsJournaled(txn', controls'), QueuedJournaled(txn', queued'),
         TimersJournaled(txn', timers'),
         txn'.step # "rollback" => ProgressOK(txn)'
  PROVE  FrameInv'
<1>1. CapturedOK(txn')
  BY DEF AdvanceOK, CapturedOK, SameCapture
<1>2. BeforeOK(txn'.before, seen') /\ log' = txn'.before.log
  BY DEF AdvanceOK, SameCapture
<1>3. AdvanceOK'
  BY <1>1, <1>2 DEF AdvanceOK
<1>4. txn'.step # "idle"
  BY AdvanceFacts DEF Steps
<1> QED
  BY <1>3, <1>4 DEF FrameInv

LEMMA JournalsSame ==
  ASSUME NEW t, NEW u, SameCapture(u, t), u.controls = t.controls, u.queued = t.queued,
         u.timers = t.timers, NEW states, NEW changes, NEW table
  PROVE  /\ ControlsJournaled(t, states) => ControlsJournaled(u, states)
         /\ QueuedJournaled(t, changes) => QueuedJournaled(u, changes)
         /\ TimersJournaled(t, table) => TimersJournaled(u, table)
BY DEF SameCapture, ControlsJournaled, QueuedJournaled, TimersJournaled

LEMMA AdvanceBegins ==
  ASSUME FrameInv, NEW delta \in Deltas, Advance(delta)
  PROVE  FrameInv'
<1>1. /\ txn.step = "idle"
      /\ mode = "playback" => Matches(Entry("advance", now, 0, delta))
      /\ cursor' = IF mode = "playback" THEN cursor + 1 ELSE cursor
      /\ UNCHANGED <<now, busVars, inputVars, timerVars, voice, device, mode, log, seen>>
  BY DEF Advance
<1>2. ServicesOK /\ DueBy(pending, now) /\ Ahead(queued, now)
  BY <1>1 DEF FrameInv, Resting
<1>3. ReplayOK(log', cursor')
  <2>1. /\ log \in Seq(Entries) /\ cursor \in Nat /\ Len(log) \in Nat
        /\ Len(log) <= MaxEntries /\ cursor <= Len(log)
    BY <1>2, LenProperties DEF ServicesOK, ReplayOK
  <2>2. mode = "playback" => cursor < Len(log)
    BY <1>1 DEF Matches
  <2> QED
    BY <1>1, <2>1, <2>2 DEF ReplayOK
<1>4. ServicesOK'
  BY <1>1, <1>2, <1>3 DEF ServicesOK, busVars, inputVars, timerVars
<1> DEFINE b == Snapshot
<1>5. /\ b \in Snapshots /\ b.now = now /\ b.pending = pending /\ b.nextSequence = nextSequence
      /\ b.controls = controls /\ b.queued = queued /\ b.timers = timers /\ b.voice = voice
      /\ b.device = device /\ b.log = log /\ b.cursor = cursor
  BY <1>2 DEF Snapshot, Snapshots, ServicesOK, BusOK, InputOK, TimersOK, DeviceOK, ReplayOK
<1>6. txn' = [step |-> "clock", outcome |-> "none", before |-> b, delta |-> delta,
              clock |-> now, pending |-> pending, nextSequence |-> nextSequence,
              voice |-> voice, device |-> device, cursor |-> cursor, entries |-> Len(log),
              controls |-> {}, queued |-> None, due |-> 0, timers |-> {}]
  BY DEF Advance
<1> HIDE DEF b
<1>7. /\ txn'.step = "clock" /\ txn'.before = b /\ txn'.clock = now /\ txn'.pending = pending
      /\ txn'.nextSequence = nextSequence /\ txn'.voice = voice /\ txn'.device = device
      /\ txn'.cursor = cursor /\ txn'.entries = Len(log) /\ txn'.controls = {}
      /\ txn'.queued = None /\ txn'.due = 0 /\ txn'.timers = {}
  BY <1>6
<1>8. txn' \in Advances
  <2>1. delta \in Nat /\ Len(log) \in Nat
    BY <1>2, FrameAssumption, LenProperties DEF ServicesOK, ReplayOK
  <2>2. /\ now \in Nat /\ pending \in SUBSET BusEvents /\ nextSequence \in Nat /\ voice \in Nat
        /\ device \in [Lamps -> LampStates] /\ cursor \in Nat
    BY <1>2 DEF ServicesOK, BusOK, DeviceOK, ReplayOK
  <2>3. "clock" \in Steps
    BY DEF Steps
  <2> QED
    BY <1>5, <1>6, <2>1, <2>2, <2>3 DEF Advances
<1>9. CapturedOK(txn') /\ log' = txn'.before.log
  BY <1>1, <1>5, <1>7 DEF CapturedOK
<1>10. BeforeOK(txn'.before, seen')
  BY <1>1, <1>2, <1>5, <1>7 DEF BeforeOK, ServicesOK
<1>11. /\ ControlsJournaled(txn', controls') /\ QueuedJournaled(txn', queued')
       /\ TimersJournaled(txn', timers')
  BY <1>1, <1>5, <1>7 DEF ControlsJournaled, QueuedJournaled, TimersJournaled, inputVars, timerVars
<1>12. ProgressOK(txn)'
  <2>1. now' = now /\ pending' = pending /\ queued' = queued
    BY <1>1 DEF busVars, inputVars
  <2>2. Len(queued) \in Nat
    BY <1>2, LenProperties DEF ServicesOK, InputOK
  <2>3. \A c \in ControlNames : \A e \in TransitionsOn(pending', c) : e.at <= Mark(txn', queued')
    BY <1>2, <1>7, <2>1 DEF Mark, TransitionsOn, DueBy
  <2> QED
    BY <1>2, <1>5, <1>7, <2>1, <2>2, <2>3 DEF ProgressOK, InputOver
<1>13. AdvanceOK'
  BY <1>8, <1>9, <1>10, <1>11, <1>12 DEF AdvanceOK
<1> QED
  BY <1>4, <1>7, <1>13 DEF FrameInv

\* A step of the advance that fails, whatever it has changed.
LEMMA FailKeeps ==
  ASSUME AdvanceOK, ServicesOK', txn' \in Advances, SameCapture(txn', txn),
         txn'.step = "rollback", seen' = seen, log' = log,
         ControlsJournaled(txn', controls'), QueuedJournaled(txn', queued'),
         TimersJournaled(txn', timers')
  PROVE  FrameInv'
BY StepKeeps

LEMMA AdvanceClockKeeps ==
  ASSUME FrameInv, AdvanceClock
  PROVE  FrameInv'
<1>1. /\ txn.step = "clock"
      /\ UNCHANGED <<busVars, inputVars, timerVars, voice, device, replayVars, seen>>
  BY DEF AdvanceClock, At
<1>2. ServicesOK /\ AdvanceOK /\ txn \in Advances
  BY <1>1, InAdvance
<1>3. /\ now = txn.clock /\ now \in Nat /\ txn.delta \in Nat /\ DueBy(pending, now)
      /\ ProgressOK(txn)
  BY <1>1, <1>2, AdvanceFacts DEF ProgressOK, AdvanceOK, ServicesOK
<1>4. CASE now' = now + txn.delta /\ Proceed("media")
  <2>1. /\ txn' \in Advances /\ SameCapture(txn', txn) /\ txn'.step = "media"
        /\ txn'.controls = txn.controls /\ txn'.queued = txn.queued /\ txn'.due = txn.due
        /\ txn'.timers = txn.timers
    BY <1>2, <1>4, StepTo DEF Proceed, Steps
  <2>2. ServicesOK'
    BY <1>1, <1>2, <1>3, <1>4
    DEF ServicesOK, busVars, inputVars, timerVars, replayVars
  <2>3. /\ ControlsJournaled(txn', controls') /\ QueuedJournaled(txn', queued')
        /\ TimersJournaled(txn', timers')
    BY <1>1, <1>2, <2>1, JournalsSame DEF AdvanceOK, inputVars, timerVars
  <2>4. ProgressOK(txn)'
    <3>1. now' = txn'.clock + txn'.delta
      BY <1>3, <1>4, <2>1 DEF SameCapture
    <3>2. DueBy(pending', now')
      <4>1. \A e \in pending : e.at \in Nat
        BY <1>2 DEF ServicesOK, BusOK, BusEvents
      <4> QED
        BY <1>1, <1>3, <1>4, <4>1 DEF DueBy, busVars
    <3>3. /\ queued' = txn'.before.queued /\ txn'.due <= Len(queued')
          /\ txn'.due > 0 => txn'.queued # None
      BY <1>1, <1>3, <2>1 DEF ProgressOK, BeforeInput, SameCapture, inputVars
    <3>4. \A c \in ControlNames : \A e \in TransitionsOn(pending', c) : e.at <= Mark(txn', queued')
      BY <1>1, <1>3, <2>1 DEF ProgressOK, BeforeInput, SameCapture, Mark, inputVars, busVars
    <3>5. txn'.due > 0 => queued'[txn'.due].at <= now'
      <4>1. ASSUME txn.due > 0 PROVE queued[txn.due].at <= now /\ queued[txn.due].at \in Nat
        <5>1. queued[txn.due].at <= now
          BY <4>1, <1>1, <1>3 DEF ProgressOK, BeforeInput
        <5>2. queued \in Seq(FutureChanges) /\ txn.due \in Nat /\ txn.due <= Len(queued)
          BY <1>1, <1>2, <1>3, AdvanceFacts DEF ProgressOK, BeforeInput, ServicesOK, InputOK
        <5>3. queued[txn.due] \in FutureChanges
          BY <4>1, <5>2, ElementOfSeq
        <5> QED
          BY <5>1, <5>3 DEF FutureChanges
      <4>2. txn'.due = txn.due /\ queued' = queued
        BY <1>1, <2>1 DEF inputVars
      <4> QED
        BY <1>3, <1>4, <4>1, <4>2
    <3> QED
      BY <2>1, <3>1, <3>2, <3>3, <3>4, <3>5 DEF ProgressOK, InputOver
  <2> QED
    BY <1>1, <1>2, <2>1, <2>2, <2>3, <2>4, StepKeeps DEF replayVars
<1>5. CASE now' = now /\ Fail
  <2>1. /\ txn' \in Advances /\ SameCapture(txn', txn) /\ txn'.step = "rollback"
        /\ txn'.controls = txn.controls /\ txn'.queued = txn.queued
        /\ txn'.timers = txn.timers
    BY <1>2, <1>5, StepTo DEF Fail, Proceed, Steps
  <2>2. ServicesOK'
    BY <1>1, <1>2, <1>5 DEF ServicesOK, busVars, inputVars, timerVars, replayVars
  <2>3. /\ ControlsJournaled(txn', controls') /\ QueuedJournaled(txn', queued')
        /\ TimersJournaled(txn', timers')
    BY <1>1, <1>2, <2>1, JournalsSame DEF AdvanceOK, inputVars, timerVars
  <2> QED
    BY <1>1, <1>2, <2>1, <2>2, <2>3, FailKeeps DEF replayVars
<1> QED
  BY <1>4, <1>5 DEF AdvanceClock

\* An event that is neither a press nor a release.
LEMMA OtherEnqueued ==
  ASSUME ServicesOK, CanEnqueue, NEW e \in BusEvents, e.sequence = nextSequence,
         e.kind \notin {"press", "release"},
         e.kind = "timer" => e.service \in AliveIn(timers),
         e.kind = "complete" => e.service = ClipID, e.kind = "repeat" => e.service = 0,
         Enqueued(e)
  PROVE  /\ BusOK(pending', nextSequence') /\ KeysOK(pending', controls, seen)
         /\ GraphOK(pending', timers)
         /\ \A c \in ControlNames : TransitionsOn(pending', c) = TransitionsOn(pending, c)
         /\ \A f \in pending' : f \in pending \/ f = e
<1>1. pending' = pending \cup {e} /\ nextSequence' = nextSequence + 1
  BY DEF Enqueued
<1>2. BusOK(pending \cup {e}, nextSequence + 1)
  BY EventPut DEF ServicesOK, CanEnqueue
<1>3. \A c \in ControlNames : TransitionsOn(pending', c) = TransitionsOn(pending, c)
  BY <1>1, OtherEvent
<1>4. KeysOK(pending', controls, seen)
  BY <1>3, SameTransitions DEF ServicesOK
<1>5. GraphOK(pending', timers)
  BY <1>1 DEF ServicesOK, GraphOK
<1> QED
  BY <1>1, <1>2, <1>3, <1>4, <1>5

LEMMA AdvanceMediaKeeps ==
  ASSUME FrameInv, AdvanceMedia
  PROVE  FrameInv'
<1>1. /\ txn.step = "media" /\ voice' = IF voice > txn.delta THEN voice - txn.delta ELSE 0
      /\ UNCHANGED <<now, inputVars, timerVars, device, replayVars, seen>>
  BY DEF AdvanceMedia, At
<1>2. ServicesOK /\ AdvanceOK /\ txn \in Advances /\ ProgressOK(txn)
  BY <1>1, InAdvance DEF AdvanceOK
<1>3. voice \in Nat /\ voice' \in Nat /\ txn.delta \in Nat /\ txn.clock \in Nat /\ now \in Nat
      /\ now = txn.clock + txn.delta
  BY <1>1, <1>2, AdvanceFacts DEF ServicesOK, ProgressOK
<1> DEFINE e == Event("complete", txn.clock + voice, 0, ClipID)
<1>4. /\ \/ /\ voice \in 1 .. txn.delta /\ CanEnqueue /\ Enqueued(e) /\ Proceed("input")
         \/ Fail /\ UNCHANGED busVars
         \/ Proceed("input") /\ UNCHANGED busVars
  BY DEF AdvanceMedia
<1>5. /\ BusOK(pending', nextSequence') /\ KeysOK(pending', controls, seen)
      /\ GraphOK(pending', timers)
      /\ \A c \in ControlNames : TransitionsOn(pending', c) = TransitionsOn(pending, c)
      /\ DueBy(pending', now)
  <2>1. CASE voice \in 1 .. txn.delta /\ CanEnqueue /\ Enqueued(e)
    <3>1. /\ e \in BusEvents /\ e.sequence = nextSequence /\ e.kind = "complete"
          /\ e.service = ClipID /\ e.at = txn.clock + voice
      BY <1>2, <1>3, FrameAssumption DEF Event, BusEvents, ServicesOK, BusOK
    <3> HIDE DEF e
    <3>2. /\ BusOK(pending', nextSequence') /\ KeysOK(pending', controls, seen)
          /\ GraphOK(pending', timers)
          /\ \A c \in ControlNames : TransitionsOn(pending', c) = TransitionsOn(pending, c)
          /\ \A f \in pending' : f \in pending \/ f = e
      BY <1>2, <2>1, <3>1, OtherEnqueued
    <3>3. e.at <= now
      BY <1>3, <2>1, <3>1
    <3> QED
      BY <1>2, <3>2, <3>3 DEF ProgressOK, DueBy
  <2>2. CASE UNCHANGED busVars
    BY <1>2, <2>2 DEF ServicesOK, ProgressOK, busVars
  <2> QED
    BY <1>4, <2>1, <2>2
<1>6. ServicesOK'
  BY <1>1, <1>2, <1>3, <1>5 DEF ServicesOK, inputVars, timerVars, replayVars
<1>7. CASE Fail
  <2>1. /\ txn' \in Advances /\ SameCapture(txn', txn) /\ txn'.step = "rollback"
        /\ txn'.controls = txn.controls /\ txn'.queued = txn.queued
        /\ txn'.timers = txn.timers
    BY <1>2, <1>7, StepTo DEF Fail, Proceed, Steps
  <2>2. /\ ControlsJournaled(txn', controls') /\ QueuedJournaled(txn', queued')
        /\ TimersJournaled(txn', timers')
    BY <1>1, <1>2, <2>1, JournalsSame DEF AdvanceOK, inputVars, timerVars
  <2> QED
    BY <1>1, <1>2, <1>6, <2>1, <2>2, FailKeeps DEF replayVars
<1>8. CASE Proceed("input")
  <2>1. /\ txn' \in Advances /\ SameCapture(txn', txn) /\ txn'.step = "input"
        /\ txn'.controls = txn.controls /\ txn'.queued = txn.queued /\ txn'.due = txn.due
        /\ txn'.timers = txn.timers
    BY <1>2, <1>8, StepTo DEF Proceed, Steps
  <2>2. /\ ControlsJournaled(txn', controls') /\ QueuedJournaled(txn', queued')
        /\ TimersJournaled(txn', timers')
    BY <1>1, <1>2, <2>1, JournalsSame DEF AdvanceOK, inputVars, timerVars
  <2>3. ProgressOK(txn)'
    <3>1. /\ now' = txn'.clock + txn'.delta /\ DueBy(pending', now') /\ queued' = queued
      BY <1>1, <1>3, <1>5, <2>1 DEF SameCapture, inputVars
    <3>2. /\ queued' = txn'.before.queued /\ txn'.due <= Len(queued')
          /\ txn'.due > 0 => txn'.queued # None
          /\ txn'.due > 0 => queued'[txn'.due].at <= now'
      BY <1>1, <1>2, <2>1, <3>1 DEF ProgressOK, BeforeInput, SameCapture
    <3>3. \A c \in ControlNames : \A f \in TransitionsOn(pending', c) : f.at <= Mark(txn', queued')
      BY <1>1, <1>2, <1>5, <2>1, <3>1 DEF ProgressOK, BeforeInput, SameCapture, Mark
    <3> QED
      BY <2>1, <3>1, <3>2, <3>3 DEF ProgressOK, InputOver
  <2> QED
    BY <1>1, <1>2, <1>6, <2>1, <2>2, <2>3, StepKeeps DEF replayVars
<1> QED
  BY <1>4, <1>7, <1>8

-----------------------------------------------------------------------------
(* Input, in an advance.                                                     *)

LEMMA CaptureTypes ==
  ASSUME ServicesOK, txn \in Advances, NEW c \in ControlNames
  PROVE  /\ CaptureControl(c) \in SUBSET SavedControls
         /\ SaveQueued \in Seq(FutureChanges) \cup {None}
         /\ HasDueChange \/ txn.queued # None => SaveQueued # None
<1>1. txn.controls \in SUBSET SavedControls /\ txn.queued \in Seq(FutureChanges) \cup {None}
  BY AdvanceFacts
<1>2. controls[c] \in ControlStates \cup {None} /\ queued \in Seq(FutureChanges)
  BY DEF ServicesOK, InputOK, Controls
<1>3. queued # None
  BY <1>2, NoneAssumption
<1>4. CaptureControl(c) \in SUBSET SavedControls
  BY <1>1, <1>2 DEF CaptureControl, SavedControls
<1> QED
  BY <1>1, <1>2, <1>3, <1>4 DEF SaveQueued

LEMMA InputJournaled ==
  ASSUME ServicesOK, txn \in Advances, NEW c \in ControlNames,
         NEW u, u = [txn EXCEPT !.controls = CaptureControl(c), !.queued = SaveQueued]
  PROVE  /\ u \in Advances /\ SameCapture(u, txn) /\ u.step = txn.step
         /\ u.controls = CaptureControl(c) /\ u.queued = SaveQueued /\ u.due = txn.due
         /\ u.timers = txn.timers /\ (HasDueChange \/ txn.queued # None => u.queued # None)
<1> DEFINE C == CaptureControl(c)
           Q == SaveQueued
<1>1. /\ C \in SUBSET SavedControls /\ Q \in Seq(FutureChanges) \cup {None}
      /\ HasDueChange \/ txn.queued # None => Q # None
  BY CaptureTypes
<1>2. u = [txn EXCEPT !.controls = C, !.queued = Q]
  OBVIOUS
<1> HIDE DEF C, Q
<1>3. /\ u \in Advances /\ SameCapture(u, txn) /\ u.step = txn.step
      /\ u.controls = C /\ u.queued = Q /\ u.due = txn.due /\ u.timers = txn.timers
  BY <1>1, <1>2 DEF Advances, SameCapture
<1> QED
  BY <1>1, <1>3 DEF C, Q

\* One control may change after it was captured.
LEMMA InputCaptured ==
  ASSUME ServicesOK, AdvanceOK, NEW c \in ControlNames, NEW new \in Controls,
         \A d \in ControlNames \ {c} : new[d] = controls[d],
         NEW u, SameCapture(u, txn), u.controls = CaptureControl(c), u.queued = SaveQueued,
         u.timers = txn.timers
  PROVE  /\ ControlsJournaled(u, new) /\ QueuedJournaled(u, queued)
         /\ TimersJournaled(u, timers)
<1>1. /\ ControlsJournaled(txn, controls) /\ QueuedJournaled(txn, queued)
      /\ TimersJournaled(txn, timers) /\ u.before = txn.before
  BY DEF AdvanceOK, SameCapture
<1>2. TimersJournaled(u, timers)
  BY <1>1 DEF TimersJournaled
<1>3. QueuedJournaled(u, queued)
  BY <1>1 DEF QueuedJournaled, SaveQueued
<1>4. ControlsJournaled(u, new)
  <2>1. CASE \E saved \in txn.controls : saved.name = c
    <3>1. u.controls = txn.controls
      BY <2>1 DEF CaptureControl
    <3> QED
      BY <1>1, <2>1, <3>1 DEF ControlsJournaled
  <2>2. CASE ~\E saved \in txn.controls : saved.name = c
    <3> DEFINE entry == [name |-> c, control |-> controls[c]]
    <3>1. u.controls = txn.controls \cup {entry}
      BY <2>2 DEF CaptureControl
    <3>2. controls[c] = txn.before.controls[c]
      BY <1>1, <2>2 DEF ControlsJournaled
    <3>3. entry.name = c /\ entry.control = u.before.controls[c]
      BY <1>1, <3>2
    <3> HIDE DEF entry
    <3>4. \A saved \in u.controls : saved.control = u.before.controls[saved.name]
      BY <1>1, <3>1, <3>3 DEF ControlsJournaled
    <3>5. ASSUME NEW d \in ControlNames
          PROVE  (\E saved \in u.controls : saved.name = d) \/ new[d] = u.before.controls[d]
      BY <1>1, <3>1, <3>3 DEF ControlsJournaled
    <3> QED
      BY <3>4, <3>5 DEF ControlsJournaled
  <2> QED
    BY <2>1, <2>2
<1> QED
  BY <1>2, <1>3, <1>4

LEMMA AdvanceRepeatKeeps ==
  ASSUME FrameInv, AdvanceRepeat
  PROVE  FrameInv'
<1>1. /\ txn.step = "input"
      /\ UNCHANGED <<now, queued, timerVars, voice, device, replayVars, seen>>
  BY DEF AdvanceRepeat, At
<1>2. ServicesOK /\ AdvanceOK /\ txn \in Advances /\ ProgressOK(txn)
  BY <1>1, InAdvance DEF AdvanceOK
<1>3. PICK c \in DueRepeats :
        LET coalesced == HasPendingRepeat(pending, Guest, c)
            journaled == [txn EXCEPT !.controls = CaptureControl(c), !.queued = SaveQueued]
            fits == controls[c].nextRepeat <= MaxTime - RepeatPeriod
        IN  /\ IF coalesced \/ ~CanEnqueue THEN UNCHANGED busVars
               ELSE Enqueued(Event("repeat", controls[c].nextRepeat, c, 0))
            /\ \/ /\ (coalesced \/ CanEnqueue) /\ fits
                  /\ controls' = [controls EXCEPT ![c].nextRepeat = @ + RepeatPeriod]
                  /\ txn' = journaled
               \/ /\ ~((coalesced \/ CanEnqueue) /\ fits)
                  /\ txn' = [journaled EXCEPT !.step = "rollback"]
                  /\ UNCHANGED controls
  BY DEF AdvanceRepeat
<1> DEFINE journaled == [txn EXCEPT !.controls = CaptureControl(c), !.queued = SaveQueued]
           e == Event("repeat", controls[c].nextRepeat, c, 0)
           state == [controls[c] EXCEPT !.nextRepeat = @ + RepeatPeriod]
           new == [controls EXCEPT ![c] = state]
<1>4. /\ c \in ControlNames /\ controls[c] # None /\ controls[c].pressed
      /\ controls[c].nextRepeat <= RepeatBound
  BY DEF DueRepeats, Held
<1>5. /\ UNCHANGED busVars \/ (CanEnqueue /\ Enqueued(e))
      /\ \/ controls' = new /\ txn' = journaled
         \/ txn' = [journaled EXCEPT !.step = "rollback"] /\ controls' = controls
  BY <1>3
<1>6. /\ controls \in Controls /\ controls[c] \in ControlStates
      /\ controls[c].nextRepeat \in Nat /\ controls[c].pressed \in BOOLEAN
  BY <1>2, <1>4 DEF ServicesOK, InputOK, Controls, ControlStates
<1>7. /\ now \in Nat /\ RepeatPeriod \in Nat \ {0} /\ RepeatBound <= now
  <2>1. now \in Nat /\ RepeatPeriod \in Nat \ {0}
    BY <1>2, FrameAssumption DEF ServicesOK
  <2>2. CASE HasDueChange
    <3>1. txn.due \in Nat /\ queued \in Seq(FutureChanges) /\ txn.due < Len(queued)
      BY <1>2, <2>2, AdvanceFacts DEF ServicesOK, InputOK, HasDueChange
    <3>2. queued[txn.due + 1] \in FutureChanges
      <4>1. txn.due + 1 \in 1 .. Len(queued)
        BY <3>1, LenProperties
      <4> QED
        BY <3>1, <4>1, ElementOfSeq
    <3>3. queued[txn.due + 1].at \in Nat /\ queued[txn.due + 1].at <= now
      BY <2>2, <3>2 DEF HasDueChange, FutureChanges
    <3> QED
      BY <2>1, <2>2, <3>3 DEF RepeatBound
  <2> QED
    BY <2>1, <2>2 DEF RepeatBound
<1>8. controls[c].nextRepeat <= now
  <2>1. CASE HasDueChange
    <3>1. txn.due \in Nat /\ queued \in Seq(FutureChanges) /\ txn.due < Len(queued)
      BY <1>2, <2>1, AdvanceFacts DEF ServicesOK, InputOK, HasDueChange
    <3>2. queued[txn.due + 1] \in FutureChanges
      <4>1. txn.due + 1 \in 1 .. Len(queued)
        BY <3>1, LenProperties
      <4> QED
        BY <3>1, <4>1, ElementOfSeq
    <3>3. queued[txn.due + 1].at \in Nat /\ queued[txn.due + 1].at <= now
      BY <2>1, <3>2 DEF HasDueChange, FutureChanges
    <3>4. controls[c].nextRepeat <= queued[txn.due + 1].at - 1
      BY <1>4, <2>1 DEF RepeatBound
    <3> DEFINE a == queued[txn.due + 1].at
               r == controls[c].nextRepeat
    <3>5. a \in Nat /\ a <= now /\ r <= a - 1 /\ r \in Nat
      BY <1>6, <3>3, <3>4
    <3> HIDE DEF a, r
    <3>6. r <= now
      BY <1>7, <3>5
    <3> QED
      BY <3>6 DEF r
  <2>2. CASE ~HasDueChange
    BY <1>4, <2>2 DEF RepeatBound
  <2> QED
    BY <2>1, <2>2
<1>9. /\ e \in BusEvents /\ e.sequence = nextSequence /\ e.kind = "repeat"
      /\ e.service = 0 /\ e.at <= now
  BY <1>2, <1>4, <1>6, <1>8 DEF Event, BusEvents, ServicesOK, BusOK
<1>10. /\ state \in ControlStates /\ state.pressed /\ state.nextRepeat # 0
  BY <1>4, <1>6, <1>7 DEF ControlStates
<1>11. /\ InputOK(new, queued) /\ new \in Controls /\ new[c] = state
       /\ \A d \in ControlNames \ {c} : new[d] = controls[d]
  <2> HIDE DEF state
  <2>1. InputOK(new, queued)
    BY <1>2, <1>4, <1>10, ControlSet DEF ServicesOK
  <2>2. new \in Controls
    BY <2>1 DEF InputOK
  <2>3. new[c] = state /\ \A d \in ControlNames \ {c} : new[d] = controls[d]
    BY <1>4, <1>6 DEF Controls
  <2> QED
    BY <2>1, <2>2, <2>3
<1>12. \A d \in ControlNames : HeldIn(new, d) <=> HeldIn(controls, d)
  <2> HIDE DEF new, state
  <2> SUFFICES ASSUME NEW d \in ControlNames PROVE HeldIn(new, d) <=> HeldIn(controls, d)
    OBVIOUS
  <2>1. CASE d = c
    <3>1. state # None
      BY <1>10, NoneAssumption
    <3> QED
      BY <1>4, <1>10, <1>11, <2>1, <3>1 DEF HeldIn
  <2>2. CASE d # c
    BY <1>11, <2>2 DEF HeldIn
  <2> QED
    BY <2>1, <2>2
<1> HIDE DEF e, new, state
<1>13. /\ BusOK(pending', nextSequence') /\ KeysOK(pending', controls, seen)
       /\ GraphOK(pending', timers)
       /\ \A d \in ControlNames : TransitionsOn(pending', d) = TransitionsOn(pending, d)
       /\ DueBy(pending', now)
  <2>1. CASE UNCHANGED busVars
    BY <1>2, <1>1, <2>1 DEF ServicesOK, ProgressOK, busVars
  <2>2. CASE CanEnqueue /\ Enqueued(e)
    <3>1. /\ BusOK(pending', nextSequence') /\ KeysOK(pending', controls, seen)
          /\ GraphOK(pending', timers)
          /\ \A d \in ControlNames : TransitionsOn(pending', d) = TransitionsOn(pending, d)
          /\ \A f \in pending' : f \in pending \/ f = e
      BY <1>2, <1>9, <2>2, OtherEnqueued
    <3> QED
      BY <1>2, <1>9, <3>1 DEF ProgressOK, DueBy
  <2> QED
    BY <1>5, <2>1, <2>2
<1>14. /\ controls' \in Controls /\ \A d \in ControlNames \ {c} : controls'[d] = controls[d]
       /\ InputOK(controls', queued)
       /\ \A d \in ControlNames : HeldIn(controls', d) <=> HeldIn(controls, d)
  <2>1. CASE controls' = new
    BY <1>11, <1>12, <2>1
  <2>2. CASE controls' = controls
    BY <1>2, <1>6, <2>2 DEF ServicesOK
  <2> QED
    BY <1>5, <2>1, <2>2
<1>15. KeysOK(pending', controls', seen)
  BY <1>13, <1>14, SameTransitions
<1>16. ServicesOK'
  BY <1>1, <1>2, <1>13, <1>14, <1>15 DEF ServicesOK, timerVars, replayVars
<1>17. /\ journaled \in Advances /\ SameCapture(journaled, txn) /\ journaled.step = "input"
       /\ journaled.controls = CaptureControl(c) /\ journaled.queued = SaveQueued
       /\ journaled.due = txn.due /\ journaled.timers = txn.timers
       /\ txn.queued # None => journaled.queued # None
  BY <1>1, <1>2, <1>4, InputJournaled
<1> HIDE DEF journaled
<1>18. CASE txn' = journaled
  <2>1. /\ ControlsJournaled(txn', controls') /\ QueuedJournaled(txn', queued')
        /\ TimersJournaled(txn', timers')
    <3>1. /\ ControlsJournaled(journaled, controls') /\ QueuedJournaled(journaled, queued)
          /\ TimersJournaled(journaled, timers)
      BY <1>2, <1>4, <1>14, <1>17, InputCaptured
    <3> QED
      BY <1>1, <1>18, <3>1 DEF timerVars
  <2>2. ProgressOK(txn)'
    <3>1. /\ now' = txn'.clock + txn'.delta /\ DueBy(pending', now') /\ queued' = queued
      BY <1>1, <1>2, <1>13, <1>17, <1>18 DEF ProgressOK, SameCapture
    <3>2. /\ queued' = txn'.before.queued /\ txn'.due <= Len(queued')
          /\ txn'.due > 0 => txn'.queued # None
          /\ txn'.due > 0 => queued'[txn'.due].at <= now'
      BY <1>1, <1>2, <1>17, <1>18, <3>1 DEF ProgressOK, BeforeInput, SameCapture
    <3>3. \A d \in ControlNames : \A f \in TransitionsOn(pending', d) : f.at <= Mark(txn', queued')
      BY <1>1, <1>2, <1>13, <1>17, <1>18, <3>1 DEF ProgressOK, BeforeInput, SameCapture, Mark
    <3> QED
      BY <1>17, <1>18, <3>1, <3>2, <3>3 DEF ProgressOK, InputOver
  <2> QED
    BY <1>1, <1>2, <1>16, <1>17, <1>18, <2>1, <2>2, StepKeeps DEF replayVars
<1>19. CASE txn' = [journaled EXCEPT !.step = "rollback"]
  <2>1. /\ txn' \in Advances /\ SameCapture(txn', journaled) /\ txn'.step = "rollback"
        /\ txn'.controls = journaled.controls /\ txn'.queued = journaled.queued
        /\ txn'.timers = journaled.timers
    BY <1>17, <1>19, StepTo DEF Steps
  <2>2. SameCapture(txn', txn)
    BY <1>17, <2>1 DEF SameCapture
  <2>3. /\ ControlsJournaled(txn', controls') /\ QueuedJournaled(txn', queued)
        /\ TimersJournaled(txn', timers)
    BY <1>2, <1>4, <1>14, <1>17, <2>1, <2>2, InputCaptured
  <2> QED
    BY <1>1, <1>2, <1>16, <2>1, <2>2, <2>3, FailKeeps DEF timerVars, replayVars
<1> QED
  BY <1>5, <1>18, <1>19

LEMMA ApplyDueChangeKeeps ==
  ASSUME FrameInv, ApplyDueChange
  PROVE  FrameInv'
<1>1. /\ txn.step = "input" /\ HasDueChange
      /\ UNCHANGED <<now, queued, timerVars, voice, device, replayVars, seen>>
  BY DEF ApplyDueChange, At
<1>2. ServicesOK /\ AdvanceOK /\ txn \in Advances /\ ProgressOK(txn)
  BY <1>1, InAdvance DEF AdvanceOK
<1> DEFINE k == txn.due + 1
           change == queued[k]
           c == change.control
           journaled == [txn EXCEPT !.controls = CaptureControl(c), !.queued = SaveQueued]
<1>3. \/ /\ CanChange(c, change.pressed, change.at) /\ Changed(c, change.pressed, change.at)
         /\ txn' = [journaled EXCEPT !.due = @ + 1]
      \/ /\ txn' = [journaled EXCEPT !.step = "rollback"]
         /\ UNCHANGED <<controls, busVars>>
  BY DEF ApplyDueChange
<1>4. /\ queued \in Seq(FutureChanges) /\ Len(queued) \in Nat /\ txn.due \in Nat
      /\ k \in 1 .. Len(queued) /\ txn.due < k
  <2>1. queued \in Seq(FutureChanges) /\ Len(queued) \in Nat /\ txn.due \in Nat
    BY <1>2, AdvanceFacts, LenProperties DEF ServicesOK, InputOK
  <2> QED
    BY <1>1, <2>1 DEF HasDueChange
<1>5. change \in FutureChanges /\ change.at <= now
  BY <1>1, <1>4, ElementOfSeq DEF HasDueChange
<1>6. c \in ControlNames /\ change.pressed \in BOOLEAN /\ change.at \in Nat
  BY <1>5 DEF FutureChanges
\* The transitions are in order, and the first one is after what was told before.
<1>7. Mark(txn, queued) \in Nat /\ Mark(txn, queued) <= change.at
  <2>1. CASE txn.due = 0
    <3>1. queued = txn.before.queued /\ Ahead(queued, txn.clock) /\ txn.clock \in Nat
      BY <1>1, <1>2, AdvanceFacts DEF ProgressOK, BeforeInput, AdvanceOK, BeforeOK, CapturedOK
    <3>2. change.at > txn.clock
      BY <1>4, <3>1 DEF Ahead
    <3> QED
      BY <1>6, <2>1, <3>1, <3>2 DEF Mark
  <2>2. CASE txn.due # 0
    <3>1. txn.due \in 1 .. Len(queued)
      BY <1>4, <2>2
    <3>2. queued[txn.due] \in FutureChanges
      BY <1>4, <3>1, ElementOfSeq
    <3>3. queued[txn.due].at <= change.at
      BY <1>2, <1>4, <3>1 DEF ServicesOK, InputOK
    <3> QED
      BY <2>2, <3>2, <3>3 DEF Mark, FutureChanges
  <2> QED
    BY <2>1, <2>2
<1>8. \A d \in ControlNames : \A e \in TransitionsOn(pending, d) : e.at <= change.at
  <2> SUFFICES ASSUME NEW d \in ControlNames, NEW e \in TransitionsOn(pending, d)
      PROVE e.at <= change.at
    OBVIOUS
  <2>1. e.at <= Mark(txn, queued)
    BY <1>1, <1>2 DEF ProgressOK, BeforeInput
  <2>2. e.at \in Nat
    BY <1>2 DEF TransitionsOn, ServicesOK, BusOK, BusEvents
  <2> QED
    BY <1>6, <1>7, <2>1, <2>2
<1>9. seen' = seen /\ timers' = timers /\ now' = now /\ queued' = queued /\ log' = log
  BY <1>1 DEF timerVars, replayVars
<1>10. /\ journaled \in Advances /\ SameCapture(journaled, txn) /\ journaled.step = "input"
       /\ journaled.controls = CaptureControl(c) /\ journaled.queued = SaveQueued
       /\ journaled.due = txn.due /\ journaled.timers = txn.timers
       /\ journaled.queued # None
  <2> HIDE DEF c
  <2> QED
    BY <1>1, <1>2, <1>6, InputJournaled
<1> HIDE DEF journaled, c
<1>11. CASE /\ CanChange(c, change.pressed, change.at) /\ Changed(c, change.pressed, change.at)
            /\ txn' = [journaled EXCEPT !.due = @ + 1]
  <2> DEFINE at == change.at
             pressed == change.pressed
  <2>1. \A e \in TransitionsOn(pending, c) : e.at <= at
    BY <1>6, <1>8
  <2>2. /\ CanChange(c, pressed, at) /\ Changed(c, pressed, at)
        /\ pressed \in BOOLEAN /\ at \in Nat /\ at <= now
    BY <1>5, <1>6, <1>11
  <2> HIDE DEF at, pressed
  <2>3. /\ BusOK(pending', nextSequence') /\ InputOK(controls', queued)
        /\ KeysOK(pending', controls', seen) /\ GraphOK(pending', timers)
        /\ \A e \in pending' : e \in pending \/ e.at = at
        /\ \A d \in ControlNames \ {c} : controls'[d] = controls[d]
    BY <1>2, <1>6, <1>9, <2>1, <2>2, ChangedKeeps
  <2>4. ServicesOK'
    BY <1>1, <1>2, <1>9, <2>3 DEF ServicesOK, timerVars, replayVars
  <2>5. /\ txn' \in Advances /\ SameCapture(txn', journaled) /\ txn'.step = "input"
        /\ txn'.controls = journaled.controls /\ txn'.queued = journaled.queued
        /\ txn'.due = journaled.due + 1 /\ txn'.timers = journaled.timers
    BY <1>10, <1>11, ChangeDone
  <2>6. SameCapture(txn', txn) /\ txn'.due = k
    BY <1>10, <2>5 DEF SameCapture
  <2>7. /\ ControlsJournaled(txn', controls') /\ QueuedJournaled(txn', queued)
        /\ TimersJournaled(txn', timers)
    <3>1. controls' \in Controls
      BY <2>3 DEF InputOK
    <3> QED
      BY <1>2, <1>6, <1>10, <2>3, <2>5, <2>6, <3>1, InputCaptured
  <2>8. ProgressOK(txn)'
    <3>1. now' = txn'.clock + txn'.delta
      BY <1>1, <1>2, <1>9, <2>6 DEF ProgressOK, SameCapture
    <3>2. DueBy(pending', now')
      BY <1>2, <1>9, <2>2, <2>3 DEF ProgressOK, DueBy
    <3>3. /\ queued' = txn'.before.queued /\ txn'.due <= Len(queued')
          /\ txn'.due > 0 => txn'.queued # None
      BY <1>1, <1>2, <1>4, <1>9, <1>10, <2>5, <2>6 DEF ProgressOK, BeforeInput, SameCapture
    <3>4. Mark(txn', queued') = at /\ queued'[txn'.due].at = at
      BY <1>4, <1>9, <2>6 DEF Mark, at
    <3>5. \A d \in ControlNames : \A e \in TransitionsOn(pending', d) : e.at <= Mark(txn', queued')
      <4> SUFFICES ASSUME NEW d \in ControlNames, NEW e \in TransitionsOn(pending', d)
          PROVE e.at <= at
        BY <3>4
      <4>1. e \in TransitionsOn(pending, d) \/ e.at = at
        BY <2>3 DEF TransitionsOn
      <4> QED
        BY <1>8, <2>2, <4>1 DEF at
    <3> QED
      BY <1>9, <2>2, <2>5, <3>1, <3>2, <3>3, <3>4, <3>5 DEF ProgressOK, InputOver
  <2> QED
    BY <1>2, <1>9, <2>4, <2>5, <2>6, <2>7, <2>8, StepKeeps
<1>12. CASE txn' = [journaled EXCEPT !.step = "rollback"] /\ UNCHANGED <<controls, busVars>>
  <2>1. /\ txn' \in Advances /\ SameCapture(txn', journaled) /\ txn'.step = "rollback"
        /\ txn'.controls = journaled.controls /\ txn'.queued = journaled.queued
        /\ txn'.timers = journaled.timers
    BY <1>10, <1>12, StepTo DEF Steps
  <2>2. SameCapture(txn', txn)
    BY <1>10, <2>1 DEF SameCapture
  <2>3. /\ ControlsJournaled(txn', controls) /\ QueuedJournaled(txn', queued)
        /\ TimersJournaled(txn', timers)
    <3>1. controls \in Controls
      BY <1>2 DEF ServicesOK, InputOK
    <3> QED
      BY <1>2, <1>6, <1>10, <2>1, <2>2, <3>1, InputCaptured
  <2>4. ServicesOK'
    BY <1>1, <1>2, <1>12 DEF ServicesOK, timerVars, replayVars, busVars
  <2> QED
    BY <1>2, <1>9, <1>12, <2>1, <2>2, <2>3, <2>4, FailKeeps
<1> QED
  BY <1>3, <1>11, <1>12

LEMMA FinishInputKeeps ==
  ASSUME FrameInv, FinishInput
  PROVE  FrameInv'
<1>1. /\ txn.step = "input" /\ ~HasDueChange /\ DueRepeats = {}
      /\ queued' = SubSeq(queued, txn.due + 1, Len(queued)) /\ Proceed("timers")
      /\ UNCHANGED <<now, busVars, controls, timerVars, voice, device, replayVars, seen>>
  BY DEF FinishInput, At
<1>2. ServicesOK /\ AdvanceOK /\ txn \in Advances /\ ProgressOK(txn)
  BY <1>1, InAdvance DEF AdvanceOK
<1>3. /\ txn' \in Advances /\ SameCapture(txn', txn) /\ txn'.step = "timers"
      /\ txn'.controls = txn.controls /\ txn'.queued = txn.queued /\ txn'.timers = txn.timers
  BY <1>1, <1>2, StepTo DEF Proceed, Steps
<1> DEFINE d == txn.due
           n == Len(queued)
<1>4. /\ queued \in Seq(FutureChanges) /\ n \in Nat /\ d \in Nat /\ d <= n
      /\ \A i \in 1 .. n : queued[i] \in FutureChanges
  <2>1. queued \in Seq(FutureChanges) /\ d \in Nat /\ d <= n
    BY <1>1, <1>2, AdvanceFacts DEF ServicesOK, InputOK, ProgressOK, BeforeInput
  <2> QED
    BY <2>1, LenProperties, ElementOfSeq
<1>5. /\ queued' \in Seq(FutureChanges) /\ Len(queued') = n - d
      /\ \A i \in 1 .. n - d : queued'[i] = queued[i + d]
  <2>1. SubSeq(queued, d + 1, n) \in Seq(FutureChanges)
    BY <1>4, SubSeqProperties
  <2>2. Len(SubSeq(queued, d + 1, n)) = n - d
    BY <1>4, SubSeqProperties
  <2>3. \A i \in 1 .. n - d : SubSeq(queued, d + 1, n)[i] = queued[i + d]
    BY <1>4, SubSeqProperties
  <2> QED
    BY <1>1, <2>1, <2>2, <2>3
<1> HIDE DEF d, n
<1>6. \A i \in 1 .. n - d : i + d \in 1 .. n /\ i + d > d
  BY <1>4
<1>7. InputOK(controls', queued')
  <2>1. InputOK(controls, queued)
    BY <1>2 DEF ServicesOK
  <2>2. \A i \in 1 .. n :
          /\ queued[i].control \in KnownIn(controls) /\ queued[i].at > 0
          /\ queued[i].pressed => queued[i].at <= MaxTime - RepeatDelay
    BY <2>1 DEF InputOK, n
  <2>3. \A i, j \in 1 .. n : i < j => queued[i].at <= queued[j].at
    BY <2>1 DEF InputOK, n
  <2>4. \A i \in 1 .. n - d :
          /\ queued'[i].control \in KnownIn(controls) /\ queued'[i].at > 0
          /\ queued'[i].pressed => queued'[i].at <= MaxTime - RepeatDelay
    BY <1>5, <1>6, <2>2
  <2>5. \A i, j \in 1 .. n - d : i < j => queued'[i].at <= queued'[j].at
    <3> SUFFICES ASSUME NEW i \in 1 .. n - d, NEW j \in 1 .. n - d, i < j
        PROVE queued'[i].at <= queued'[j].at
      OBVIOUS
    <3>1. i + d \in 1 .. n /\ j + d \in 1 .. n /\ i + d < j + d
      BY <1>4, <1>6
    <3> QED
      BY <1>5, <2>3, <3>1
  <2>6. n \in Nat /\ n <= MaxEvents
    BY <2>1, LenProperties DEF InputOK, n
  <2>7. Len(queued') <= MaxEvents
    BY <1>4, <1>5, <2>6, MaxEventsAssumption
  <2> QED
    BY <1>1, <1>5, <2>1, <2>4, <2>5, <2>7 DEF InputOK
<1>8. ServicesOK'
  BY <1>1, <1>2, <1>7 DEF ServicesOK, timerVars, replayVars, busVars
<1>9. QueuedJournaled(txn', queued')
  <2>1. QueuedJournaled(txn, queued) /\ queued = txn.before.queued
    BY <1>1, <1>2 DEF AdvanceOK, ProgressOK, BeforeInput
  <2>2. CASE txn.queued = None
    <3>1. d = 0
      BY <1>1, <1>2, <1>4, <2>2 DEF ProgressOK, BeforeInput, d
    <3>2. Len(queued') = n /\ \A i \in 1 .. n : queued'[i] = queued[i]
      BY <1>4, <1>5, <3>1
    <3>3. queued' = queued
      BY <1>4, <1>5, <3>2, SeqEqual DEF n
    <3> QED
      BY <1>3, <2>1, <2>2, <3>3 DEF QueuedJournaled, SameCapture
  <2>3. CASE txn.queued # None
    BY <1>3, <2>1, <2>3 DEF QueuedJournaled, SameCapture
  <2> QED
    BY <2>2, <2>3
<1>10. ControlsJournaled(txn', controls') /\ TimersJournaled(txn', timers')
  BY <1>1, <1>2, <1>3 DEF AdvanceOK, ControlsJournaled, TimersJournaled, SameCapture, timerVars
<1>11. Ahead(queued', now)
  <2> SUFFICES ASSUME NEW i \in 1 .. n - d PROVE queued'[i].at > now
    BY <1>5 DEF Ahead
  <2>1. i + d \in 1 .. n /\ d < n /\ d + 1 \in 1 .. n
    BY <1>4, <1>6
  <2>2. queued[d + 1].at \in Nat /\ queued[i + d].at \in Nat /\ now \in Nat
    BY <1>2, <1>4, <2>1 DEF FutureChanges, ServicesOK
  <2>3. ~(queued[d + 1].at <= now)
    BY <1>1, <2>1 DEF HasDueChange, d, n
  <2>4. queued[d + 1].at <= queued[i + d].at
    <3>1. CASE i = 1
      BY <1>4, <2>2, <3>1
    <3>2. CASE i > 1
      <4>1. d + 1 < i + d
        BY <1>4, <3>2
      <4>2. \A a, b \in 1 .. n : a < b => queued[a].at <= queued[b].at
        BY <1>2 DEF ServicesOK, InputOK, n
      <4> QED
        BY <2>1, <4>1, <4>2
    <3> QED
      BY <3>1, <3>2, <1>4
  <2> QED
    BY <1>5, <2>2, <2>3, <2>4
<1>12. RepeatsAhead(controls, now)
  <2> SUFFICES ASSUME NEW c \in ControlNames, HeldIn(controls, c)
      PROVE controls[c].nextRepeat > now
    BY DEF RepeatsAhead
  <2>1. controls[c].nextRepeat \in Nat /\ now \in Nat
    BY <1>2 DEF ServicesOK, InputOK, Controls, ControlStates, HeldIn
  <2>2. ~(controls[c].nextRepeat <= now)
    <3>1. c \notin DueRepeats /\ Held(c)
      BY <1>1, HeldNow
    <3> QED
      BY <1>1, <3>1 DEF DueRepeats, RepeatBound
  <2> QED
    BY <2>1, <2>2
<1>13. ProgressOK(txn)'
  <2>1. now' = txn'.clock + txn'.delta
    BY <1>1, <1>2, <1>3 DEF ProgressOK, SameCapture
  <2>2. DueBy(pending', now')
    BY <1>1, <1>2 DEF ProgressOK, busVars
  <2>3. Ahead(queued', now') /\ RepeatsAhead(controls', now')
    BY <1>1, <1>11, <1>12
  <2> QED
    BY <1>3, <2>1, <2>2, <2>3 DEF ProgressOK, BeforeInput
<1> QED
  BY <1>1, <1>2, <1>3, <1>8, <1>9, <1>10, <1>13, StepKeeps DEF replayVars

-----------------------------------------------------------------------------
(* Timers and lamps, in an advance.                                          *)

\* A timer keeps its interval, and its journal what it was.
LEMMA TimerCaptured ==
  ASSUME ServicesOK, AdvanceOK, NEW t \in TimerIDs, timers[t] # None,
         NEW timer \in TimerStates, timer.interval = timers[t].interval,
         NEW table \in {timers, [timers EXCEPT ![t] = timer]}, TimersOK(table),
         AliveIn(table) = AliveIn(timers),
         NEW u, SameCapture(u, txn), u.timers = Journal(t)
  PROVE  TimersJournaled(u, table)
<1>1. TimersJournaled(txn, timers) /\ u.before = txn.before
  BY DEF AdvanceOK, SameCapture
<1>2. TimersOK(timers)
  BY DEF ServicesOK
<1>3. /\ t \in AliveIn(table) /\ table[t].interval = timers[t].interval
      /\ \A id \in TimerIDs \ {t} : table[id] = timers[id]
  <2>1. t \in AliveIn(table)
    BY DEF AliveIn
  <2>2. \A id \in TimerIDs \ {t} : table[id] = timers[id]
    BY <1>2, TimerFacts
  <2>3. table[t] = timers[t] \/ table[t] = timer
    BY <1>2, TimerFacts
  <2> QED
    BY <2>1, <2>2, <2>3
<1> DEFINE old == txn.before.timers
<1>4. CASE \E saved \in txn.timers : saved.id = t
  <2>1. u.timers = txn.timers
    BY <1>4 DEF Journal
  <2>2. \A saved \in txn.timers :
          /\ saved.id \in AliveIn(timers)
          /\ saved.deadline = old[saved.id].deadline /\ saved.active = old[saved.id].active
          /\ timers[saved.id].interval = old[saved.id].interval
    BY <1>1 DEF TimersJournaled
  <2>3. \A saved \in txn.timers : table[saved.id].interval = timers[saved.id].interval
    BY <1>3, <2>2 DEF AliveIn
  <2>4. \A id \in TimerIDs :
          (\E saved \in txn.timers : saved.id = id) \/ table[id] = old[id]
    BY <1>1, <1>3, <1>4 DEF TimersJournaled
  <2> QED
    BY <1>1, <2>1, <2>2, <2>3, <2>4 DEF TimersJournaled
<1>5. CASE ~\E saved \in txn.timers : saved.id = t
  <2> DEFINE entry == [id |-> t, deadline |-> timers[t].deadline, active |-> timers[t].active]
  <2>1. u.timers = txn.timers \cup {entry}
    BY <1>5 DEF Journal
  <2>2. timers[t] = old[t]
    BY <1>1, <1>5 DEF TimersJournaled
  <2>3. entry.id = t /\ entry.deadline = old[t].deadline /\ entry.active = old[t].active
    BY <2>2
  <2> HIDE DEF entry
  <2>4. \A saved \in txn.timers :
          /\ saved.id \in AliveIn(timers)
          /\ saved.deadline = old[saved.id].deadline /\ saved.active = old[saved.id].active
          /\ timers[saved.id].interval = old[saved.id].interval
    BY <1>1 DEF TimersJournaled
  <2>5. \A saved \in txn.timers : saved.id # t /\ table[saved.id] = timers[saved.id]
    BY <1>3, <1>5, <2>4 DEF AliveIn
  <2>6. \A id \in TimerIDs :
          (\E saved \in u.timers : saved.id = id) \/ table[id] = old[id]
    BY <1>1, <1>3, <2>1, <2>3 DEF TimersJournaled
  <2>7. \A saved \in u.timers :
          /\ saved.id \in AliveIn(table)
          /\ saved.deadline = old[saved.id].deadline /\ saved.active = old[saved.id].active
          /\ table[saved.id].interval = old[saved.id].interval
    BY <1>3, <2>1, <2>2, <2>3, <2>4, <2>5
  <2> QED
    BY <1>1, <2>6, <2>7 DEF TimersJournaled
<1> QED
  BY <1>4, <1>5

LEMMA AdvanceTimerKeeps ==
  ASSUME FrameInv, AdvanceTimer
  PROVE  FrameInv'
<1>1. /\ txn.step = "timers"
      /\ UNCHANGED <<now, inputVars, nextTimer, voice, device, replayVars, seen>>
  BY DEF AdvanceTimer, At
<1>2. ServicesOK /\ AdvanceOK /\ txn \in Advances /\ ProgressOK(txn)
  BY <1>1, InAdvance DEF AdvanceOK
<1>3. PICK t \in DueTimers :
        LET timer == timers[t]
            journaled == [txn EXCEPT !.timers = Journal(t)]
            fits == timer.deadline <= MaxTime - timer.interval
        IN  /\ IF CanEnqueue THEN Enqueued(Event("timer", timer.deadline, 0, t))
                             ELSE UNCHANGED busVars
            /\ \/ /\ CanEnqueue /\ timer.interval = 0
                  /\ timers' = [timers EXCEPT ![t].active = FALSE]
                  /\ txn' = journaled
               \/ /\ CanEnqueue /\ timer.interval # 0 /\ fits
                  /\ timers' = [timers EXCEPT ![t].deadline = @ + timer.interval]
                  /\ txn' = journaled
               \/ /\ ~CanEnqueue \/ ~fits
                  /\ txn' = [journaled EXCEPT !.step = "rollback"]
                  /\ UNCHANGED timers
  BY DEF AdvanceTimer
<1> DEFINE journaled == [txn EXCEPT !.timers = Journal(t)]
           e == Event("timer", timers[t].deadline, 0, t)
           spent == [timers[t] EXCEPT !.active = FALSE]
           again == [timers[t] EXCEPT !.deadline = @ + timers[t].interval]
<1>4. /\ UNCHANGED busVars \/ (CanEnqueue /\ Enqueued(e))
      /\ \/ timers' \in {[timers EXCEPT ![t] = spent], [timers EXCEPT ![t] = again]}
            /\ txn' = journaled
         \/ txn' = [journaled EXCEPT !.step = "rollback"] /\ timers' = timers
  BY <1>3
<1>5. /\ t \in TimerIDs /\ timers[t] # None /\ timers[t].deadline <= now
      /\ TimersOK(timers)
  BY <1>2 DEF DueTimers, ServicesOK
<1>6. /\ timers[t] \in TimerStates /\ timers[t].deadline \in Nat
      /\ timers[t].interval \in Nat /\ timers[t].active \in BOOLEAN
  BY <1>5, TimerFacts
<1>7. /\ spent \in TimerStates /\ spent.interval = timers[t].interval
      /\ again \in TimerStates /\ again.interval = timers[t].interval
  <2> DEFINE r == timers[t]
             later == r.deadline + r.interval
  <2>1. r \in TimerStates /\ later \in Nat
    BY <1>6
  <2>2. spent = [r EXCEPT !.active = FALSE] /\ again = [r EXCEPT !.deadline = later]
    OBVIOUS
  <2> HIDE DEF r, later, spent, again
  <2>3. spent \in TimerStates /\ spent.interval = r.interval
    BY <2>1, <2>2 DEF TimerStates
  <2>4. again \in TimerStates /\ again.interval = r.interval
    BY <2>1, <2>2 DEF TimerStates
  <2> QED
    BY <2>3, <2>4 DEF r
<1>8. /\ e \in BusEvents /\ e.sequence = nextSequence /\ e.kind = "timer" /\ e.service = t
      /\ e.at <= now
  BY <1>2, <1>5, <1>6, FrameAssumption DEF Event, BusEvents, ServicesOK, BusOK
<1> HIDE DEF e, spent, again
<1>9. /\ BusOK(pending', nextSequence') /\ KeysOK(pending', controls, seen)
      /\ GraphOK(pending', timers) /\ DueBy(pending', now)
  <2>1. CASE UNCHANGED busVars
    BY <1>2, <2>1 DEF ServicesOK, ProgressOK, busVars
  <2>2. CASE CanEnqueue /\ Enqueued(e)
    <3>1. /\ BusOK(pending', nextSequence') /\ KeysOK(pending', controls, seen)
          /\ GraphOK(pending', timers)
          /\ \A f \in pending' : f \in pending \/ f = e
      <4>1. e.service \in AliveIn(timers)
        BY <1>5, <1>8 DEF AliveIn
      <4> QED
        BY <1>2, <1>8, <2>2, <4>1, OtherEnqueued
    <3> QED
      BY <1>2, <1>8, <3>1 DEF ProgressOK, DueBy
  <2> QED
    BY <1>4, <2>1, <2>2
\* The timer that replaces it, if one does.
<1>10. PICK timer \in TimerStates :
         /\ timer.interval = timers[t].interval
         /\ timers' \in {timers, [timers EXCEPT ![t] = timer]}
  BY <1>4, <1>7
<1>11. TimersOK(timers') /\ AliveIn(timers') = AliveIn(timers)
  <2> DEFINE new == [timers EXCEPT ![t] = timer]
  <2>1. TimersOK(new) /\ AliveIn(new) = AliveIn(timers) \cup {t}
    BY <1>5, TimerSet
  <2>2. t \in AliveIn(timers)
    BY <1>5 DEF AliveIn
  <2>3. timers' = timers \/ timers' = new
    BY <1>10
  <2> HIDE DEF new
  <2> QED
    BY <1>5, <2>1, <2>2, <2>3
<1>12. ServicesOK'
  <2>1. GraphOK(pending', timers')
    BY <1>9, <1>11 DEF GraphOK
  <2> QED
    BY <1>1, <1>2, <1>9, <1>11, <2>1 DEF ServicesOK, inputVars, replayVars
<1>13. /\ journaled \in Advances /\ SameCapture(journaled, txn) /\ journaled.step = "timers"
       /\ journaled.controls = txn.controls /\ journaled.queued = txn.queued
       /\ journaled.timers = Journal(t)
  <2> DEFINE J == Journal(t)
  <2>1. J \in SUBSET SavedTimers
    <3>1. txn.timers \in SUBSET SavedTimers
      BY <1>2, AdvanceFacts
    <3> QED
      BY <1>5, <1>6, <3>1 DEF Journal, SavedTimers
  <2>2. journaled = [txn EXCEPT !.timers = J]
    OBVIOUS
  <2> HIDE DEF J, journaled
  <2>3. /\ journaled \in Advances /\ SameCapture(journaled, txn) /\ journaled.step = txn.step
        /\ journaled.controls = txn.controls /\ journaled.queued = txn.queued
        /\ journaled.timers = J
    BY <1>2, <2>1, <2>2 DEF Advances, SameCapture
  <2> QED
    BY <1>1, <2>3 DEF J
<1> HIDE DEF journaled
<1>14. ASSUME NEW u, SameCapture(u, txn), u.controls = txn.controls, u.queued = txn.queued,
              u.timers = Journal(t)
       PROVE  /\ ControlsJournaled(u, controls') /\ QueuedJournaled(u, queued')
              /\ TimersJournaled(u, timers')
  <2>1. ControlsJournaled(u, controls') /\ QueuedJournaled(u, queued')
    BY <1>1, <1>2, <1>14
    DEF AdvanceOK, ControlsJournaled, QueuedJournaled, SameCapture, inputVars
  <2>2. TimersJournaled(u, timers')
    BY <1>2, <1>5, <1>10, <1>11, <1>14, TimerCaptured
  <2> QED
    BY <2>1, <2>2
<1>15. CASE txn' = journaled
  <2>1. ProgressOK(txn)'
    <3>1. now' = txn'.clock + txn'.delta
      BY <1>1, <1>2, <1>13, <1>15 DEF ProgressOK, SameCapture
    <3>2. DueBy(pending', now') /\ Ahead(queued', now') /\ RepeatsAhead(controls', now')
      BY <1>1, <1>2, <1>9 DEF ProgressOK, InputOver, inputVars
    <3> QED
      BY <1>13, <1>15, <3>1, <3>2 DEF ProgressOK, BeforeInput
  <2> QED
    BY <1>1, <1>2, <1>12, <1>13, <1>14, <1>15, <2>1, StepKeeps DEF replayVars
<1>16. CASE txn' = [journaled EXCEPT !.step = "rollback"]
  <2>1. /\ txn' \in Advances /\ SameCapture(txn', journaled) /\ txn'.step = "rollback"
        /\ txn'.controls = journaled.controls /\ txn'.queued = journaled.queued
        /\ txn'.timers = journaled.timers
    BY <1>13, <1>16, StepTo DEF Steps
  <2>2. SameCapture(txn', txn)
    BY <1>13, <2>1 DEF SameCapture
  <2> QED
    BY <1>1, <1>2, <1>12, <1>13, <1>14, <2>1, <2>2, FailKeeps DEF replayVars
<1> QED
  BY <1>4, <1>15, <1>16

LEMMA FinishTimersKeeps ==
  ASSUME FrameInv, FinishTimers
  PROVE  FrameInv'
<1>1. /\ txn.step = "timers" /\ DueTimers = {} /\ Proceed("device")
      /\ UNCHANGED <<serviceVars, seen>>
  BY DEF FinishTimers, At
<1>2. ServicesOK /\ AdvanceOK /\ txn \in Advances /\ ProgressOK(txn)
  BY <1>1, InAdvance DEF AdvanceOK
<1>3. /\ txn' \in Advances /\ SameCapture(txn', txn) /\ txn'.step = "device"
      /\ txn'.controls = txn.controls /\ txn'.queued = txn.queued /\ txn'.timers = txn.timers
  BY <1>1, <1>2, StepTo DEF Proceed, Steps
<1>4. /\ now' = now /\ pending' = pending /\ nextSequence' = nextSequence
      /\ controls' = controls /\ queued' = queued /\ timers' = timers /\ nextTimer' = nextTimer
      /\ voice' = voice /\ device' = device /\ mode' = mode /\ log' = log /\ cursor' = cursor
      /\ seen' = seen
  BY <1>1 DEF serviceVars, busVars, inputVars, timerVars, replayVars
<1>5. ServicesOK'
  BY <1>2, <1>4 DEF ServicesOK
<1>6. /\ ControlsJournaled(txn', controls') /\ QueuedJournaled(txn', queued')
      /\ TimersJournaled(txn', timers')
  BY <1>2, <1>3, <1>4, JournalsSame DEF AdvanceOK
<1>7. ProgressOK(txn)'
  <2>1. now' = txn'.clock + txn'.delta
    BY <1>1, <1>2, <1>3, <1>4 DEF ProgressOK, SameCapture
  <2>2. DueTimers' = {}
    BY <1>1, <1>4 DEF DueTimers
  <2>3. DueBy(pending', now') /\ Ahead(queued', now') /\ RepeatsAhead(controls', now')
    BY <1>1, <1>2, <1>4 DEF ProgressOK, InputOver
  <2> QED
    BY <1>3, <2>1, <2>2, <2>3 DEF ProgressOK, BeforeInput
<1> QED
  BY <1>2, <1>3, <1>4, <1>5, <1>6, <1>7, StepKeeps

LEMMA AdvanceDeviceKeeps ==
  ASSUME FrameInv, AdvanceDevice
  PROVE  FrameInv'
<1>1. /\ txn.step = "device" /\ Proceed("record")
      /\ device' = [lamp \in Lamps |->
           IF device[lamp].until \in 1 .. now THEN [on |-> FALSE, until |-> 0] ELSE device[lamp]]
      /\ UNCHANGED <<now, busVars, inputVars, timerVars, voice, replayVars, seen>>
  BY DEF AdvanceDevice, At
<1>2. ServicesOK /\ AdvanceOK /\ txn \in Advances /\ ProgressOK(txn)
  BY <1>1, InAdvance DEF AdvanceOK
<1>3. /\ txn' \in Advances /\ SameCapture(txn', txn) /\ txn'.step = "record"
      /\ txn'.controls = txn.controls /\ txn'.queued = txn.queued /\ txn'.timers = txn.timers
  BY <1>1, <1>2, StepTo DEF Proceed, Steps
<1>4. /\ now' = now /\ pending' = pending /\ nextSequence' = nextSequence
      /\ controls' = controls /\ queued' = queued /\ timers' = timers /\ nextTimer' = nextTimer
      /\ voice' = voice /\ mode' = mode /\ log' = log /\ cursor' = cursor /\ seen' = seen
  BY <1>1 DEF busVars, inputVars, timerVars, replayVars
<1>5. /\ device' \in [Lamps -> LampStates]
      /\ \A lamp \in Lamps :
           \/ device'[lamp].until = 0 /\ ~device'[lamp].on
           \/ device'[lamp] = device[lamp] /\ (device[lamp].until = 0 \/ device[lamp].until > now)
  <2> DEFINE out == [on |-> FALSE, until |-> 0]
  <2>1. device \in [Lamps -> LampStates] /\ now \in Nat
    BY <1>2 DEF ServicesOK, DeviceOK
  <2>2. out \in LampStates /\ out.until = 0 /\ ~out.on
    BY DEF LampStates
  <2>3. \A lamp \in Lamps : device[lamp].until \in Nat
    BY <2>1 DEF LampStates
  <2>4. device' = [lamp \in Lamps |-> IF device[lamp].until \in 1 .. now THEN out ELSE device[lamp]]
    BY <1>1
  <2> HIDE DEF out
  <2>5. \A lamp \in Lamps :
          \/ device'[lamp] = out
          \/ device'[lamp] = device[lamp] /\ (device[lamp].until = 0 \/ device[lamp].until > now)
    BY <2>1, <2>3, <2>4
  <2>6. device' \in [Lamps -> LampStates]
    BY <2>1, <2>2, <2>4
  <2> QED
    BY <2>2, <2>5, <2>6
<1>6. DeviceOK(device')
  BY <1>2, <1>5 DEF ServicesOK, DeviceOK
<1>7. ServicesOK'
  BY <1>2, <1>4, <1>6 DEF ServicesOK
<1>8. /\ ControlsJournaled(txn', controls') /\ QueuedJournaled(txn', queued')
      /\ TimersJournaled(txn', timers')
  BY <1>2, <1>3, <1>4, JournalsSame DEF AdvanceOK
<1>9. ProgressOK(txn)'
  <2>1. now' = txn'.clock + txn'.delta
    BY <1>1, <1>2, <1>3, <1>4 DEF ProgressOK, SameCapture
  <2>2. DueTimers' = {}
    <3>1. DueTimers = {}
      BY <1>1, <1>2 DEF ProgressOK
    <3> QED
      BY <1>4, <3>1 DEF DueTimers
  <2>3. DueBy(pending', now') /\ Ahead(queued', now') /\ RepeatsAhead(controls', now')
    BY <1>1, <1>2, <1>4 DEF ProgressOK, InputOver
  <2>4. \A lamp \in Lamps : device'[lamp].until = 0 \/ device'[lamp].until > now'
    BY <1>4, <1>5
  <2> QED
    BY <1>3, <2>1, <2>2, <2>3, <2>4 DEF ProgressOK, BeforeInput
<1> QED
  BY <1>2, <1>3, <1>4, <1>7, <1>8, <1>9, StepKeeps

-----------------------------------------------------------------------------
(* The end of an advance.                                                    *)

LEMMA RecordAdvanceKeeps ==
  ASSUME FrameInv, RecordAdvance
  PROVE  FrameInv'
<1>1. /\ txn.step = "record"
      /\ UNCHANGED <<now, busVars, inputVars, timerVars, voice, device, mode, cursor, seen>>
  BY DEF RecordAdvance, At
<1>2. ServicesOK /\ AdvanceOK /\ txn \in Advances /\ ProgressOK(txn)
  BY <1>1, InAdvance DEF AdvanceOK
<1>3. /\ now' = now /\ pending' = pending /\ nextSequence' = nextSequence
      /\ controls' = controls /\ queued' = queued /\ timers' = timers /\ nextTimer' = nextTimer
      /\ voice' = voice /\ device' = device /\ mode' = mode /\ cursor' = cursor /\ seen' = seen
  BY <1>1 DEF busVars, inputVars, timerVars
<1> DEFINE entry == Entry("advance", txn.clock, 0, txn.delta)
<1>4. CASE /\ mode = "record" => Len(log) < MaxEntries
           /\ log' = IF mode = "record" THEN Append(log, entry) ELSE log
           /\ txn' = [Idle EXCEPT !.outcome = "ok"]
  <2>1. ReplayOK(log', cursor')
    <3>1. entry \in Entries
      BY <1>2, AdvanceFacts DEF Entry, Entries
    <3> HIDE DEF entry
    <3>2. /\ log \in Seq(Entries) /\ cursor \in Nat /\ Len(log) \in Nat
          /\ Len(log) <= MaxEntries /\ cursor <= Len(log) /\ MaxEntries \in Nat
      BY <1>2, LenProperties, FrameAssumption DEF ServicesOK, ReplayOK
    <3>3. CASE mode = "record"
      <4>1. log' \in Seq(Entries) /\ Len(log') = Len(log) + 1 /\ Len(log) < MaxEntries
        BY <1>4, <3>1, <3>2, <3>3, AppendProperties
      <4> QED
        BY <1>3, <3>2, <4>1 DEF ReplayOK
    <3>4. CASE mode # "record"
      BY <1>3, <1>4, <3>2, <3>4 DEF ReplayOK
    <3> QED
      BY <3>3, <3>4
  <2>2. ServicesOK'
    BY <1>2, <1>3, <2>1 DEF ServicesOK
  <2>3. txn'.step = "idle" /\ txn'.outcome = "ok"
    BY <1>4 DEF Idle
  <2>4. /\ DueBy(pending, now) /\ Ahead(queued, now) /\ RepeatsAhead(controls, now)
        /\ DueTimers = {} /\ \A lamp \in Lamps : device[lamp].until = 0 \/ device[lamp].until > now
    BY <1>1, <1>2 DEF ProgressOK, InputOver
  <2>5. AdvanceCatchesUp'
    <3>1. queued # <<>> => Head(queued).at > now
      <4>1. queued \in Seq(FutureChanges)
        BY <1>2 DEF ServicesOK, InputOK
      <4>2. queued # <<>> => 1 \in 1 .. Len(queued) /\ Head(queued) = queued[1]
        BY <4>1, EmptySeq, LenProperties
      <4> QED
        BY <2>4, <4>2 DEF Ahead
    <3>2. \A c \in ControlNames : Held(c) => controls[c].nextRepeat > now
      BY <2>4, HeldNow DEF RepeatsAhead
    <3>3. DueTimers' = {}
      BY <1>3, <2>4 DEF DueTimers
    <3>4. \A c \in ControlNames : Held(c)' => controls'[c].nextRepeat > now'
      BY <1>3, <3>2 DEF Held
    <3> QED
      BY <1>3, <2>4, <3>1, <3>3, <3>4 DEF AdvanceCatchesUp
  <2>6. FailedAdvanceChangesNothing'
    BY <2>3 DEF FailedAdvanceChangesNothing
  <2>7. DueBy(pending', now') /\ Ahead(queued', now')
    BY <1>3, <2>4
  <2> QED
    BY <2>2, <2>3, <2>5, <2>6, <2>7 DEF FrameInv, Resting
<1>5. CASE Fail /\ UNCHANGED log
  <2>1. /\ txn' \in Advances /\ SameCapture(txn', txn) /\ txn'.step = "rollback"
        /\ txn'.controls = txn.controls /\ txn'.queued = txn.queued
        /\ txn'.timers = txn.timers
    BY <1>2, <1>5, StepTo DEF Fail, Proceed, Steps
  <2>2. ServicesOK'
    BY <1>2, <1>3, <1>5 DEF ServicesOK
  <2>3. /\ ControlsJournaled(txn', controls') /\ QueuedJournaled(txn', queued')
        /\ TimersJournaled(txn', timers')
    BY <1>2, <1>3, <2>1, JournalsSame DEF AdvanceOK
  <2> QED
    BY <1>2, <1>3, <1>5, <2>1, <2>2, <2>3, FailKeeps
<1> QED
  BY <1>4, <1>5 DEF RecordAdvance

\* What restoreAdvance computes from the journals is what the services were.
LEMMA Restored ==
  ASSUME ServicesOK, AdvanceOK, RestoreAdvance
  PROVE  LET b == txn.before
         IN  /\ now' = b.now /\ pending' = b.pending /\ nextSequence' = b.nextSequence
             /\ controls' = b.controls /\ queued' = b.queued /\ timers' = b.timers
             /\ voice' = b.voice /\ device' = b.device /\ log' = b.log /\ cursor' = b.cursor
<1> DEFINE b == txn.before
<1>1. /\ now' = txn.clock /\ pending' = txn.pending /\ nextSequence' = txn.nextSequence
      /\ voice' = txn.voice /\ device' = txn.device /\ cursor' = txn.cursor
      /\ log' = SubSeq(log, 1, txn.entries)
      /\ queued' = IF txn.queued = None THEN queued ELSE txn.queued
      /\ controls' = [c \in ControlNames |->
           IF \E saved \in txn.controls : saved.name = c
             THEN (CHOOSE saved \in txn.controls : saved.name = c).control
             ELSE controls[c]]
      /\ timers' = [t \in TimerIDs |->
           IF \E saved \in txn.timers : saved.id = t
             THEN LET saved == CHOOSE saved \in txn.timers : saved.id = t
                  IN  [timers[t] EXCEPT !.deadline = saved.deadline, !.active = saved.active]
             ELSE timers[t]]
  BY DEF RestoreAdvance
<1>2. /\ CapturedOK(txn) /\ BeforeOK(b, seen) /\ log = b.log
      /\ ControlsJournaled(txn, controls) /\ QueuedJournaled(txn, queued)
      /\ TimersJournaled(txn, timers)
  BY DEF AdvanceOK
<1>3. /\ now' = b.now /\ pending' = b.pending /\ nextSequence' = b.nextSequence
      /\ voice' = b.voice /\ device' = b.device /\ cursor' = b.cursor
  BY <1>1, <1>2 DEF CapturedOK
<1>4. queued' = b.queued
  BY <1>1, <1>2 DEF QueuedJournaled
<1>5. log' = b.log
  <2>1. txn.entries = Len(log) /\ log \in Seq(Entries)
    BY <1>2 DEF CapturedOK, ServicesOK, ReplayOK
  <2>2. Len(log) \in Nat
    BY <2>1, LenProperties
  <2> DEFINE part == SubSeq(log, 1, Len(log))
  <2>3. part \in Seq(Entries) /\ Len(part) = Len(log) /\ \A i \in 1 .. Len(log) : part[i] = log[i]
    BY <2>1, <2>2, SubSeqProperties
  <2>4. part = log
    <3> HIDE DEF part
    <3> QED
      BY <2>1, <2>3, SeqEqual
  <2> QED
    BY <1>1, <1>2, <2>1, <2>4
<1>6. controls' = b.controls
  <2>1. b.controls \in [ControlNames -> ControlStates \cup {None}]
    BY <1>2 DEF BeforeOK, InputOK, Controls
  <2>2. \A c \in ControlNames : controls'[c] = b.controls[c]
    <3> SUFFICES ASSUME NEW c \in ControlNames PROVE controls'[c] = b.controls[c]
      OBVIOUS
    <3>1. CASE \E saved \in txn.controls : saved.name = c
      <4> DEFINE saved == CHOOSE saved \in txn.controls : saved.name = c
      <4>1. saved \in txn.controls /\ saved.name = c
        BY <3>1
      <4>2. controls'[c] = saved.control
        BY <1>1, <3>1
      <4> HIDE DEF saved
      <4> QED
        BY <1>2, <4>1, <4>2 DEF ControlsJournaled
    <3>2. CASE ~\E saved \in txn.controls : saved.name = c
      <4>1. controls'[c] = controls[c]
        BY <1>1, <3>2
      <4> QED
        BY <1>2, <3>2, <4>1 DEF ControlsJournaled
    <3> QED
      BY <3>1, <3>2
  <2>3. controls' = [c \in ControlNames |-> controls'[c]]
    BY <1>1
  <2>4. b.controls = [c \in ControlNames |-> b.controls[c]]
    BY <2>1
  <2> QED
    BY <2>2, <2>3, <2>4
<1>7. timers' = b.timers
  <2>1. b.timers \in [TimerIDs -> TimerStates \cup {None}]
    BY <1>2 DEF BeforeOK, TimersOK, TimerTables
  <2>2. \A t \in TimerIDs : timers'[t] = b.timers[t]
    <3> SUFFICES ASSUME NEW t \in TimerIDs PROVE timers'[t] = b.timers[t]
      OBVIOUS
    <3>1. CASE \E saved \in txn.timers : saved.id = t
      <4> DEFINE saved == CHOOSE saved \in txn.timers : saved.id = t
                 old == b.timers[t]
                 cur == timers[t]
      <4>1. saved \in txn.timers /\ saved.id = t
        BY <3>1
      <4>2. timers'[t] = [cur EXCEPT !.deadline = saved.deadline, !.active = saved.active]
        BY <1>1, <3>1
      <4> HIDE DEF saved
      <4>3. /\ t \in AliveIn(timers) /\ t \in AliveIn(b.timers)
            /\ saved.deadline = old.deadline /\ saved.active = old.active
            /\ cur.interval = old.interval
        BY <1>2, <4>1 DEF TimersJournaled
      <4>4. old \in TimerStates /\ cur \in TimerStates
        BY <2>1, <4>3, TimerFacts DEF ServicesOK, AliveIn
      <4> HIDE DEF old, cur
      <4>5. [cur EXCEPT !.deadline = saved.deadline, !.active = saved.active] = old
        BY <4>3, <4>4 DEF TimerStates
      <4> QED
        BY <4>2, <4>5 DEF old
    <3>2. CASE ~\E saved \in txn.timers : saved.id = t
      <4>1. timers'[t] = timers[t]
        BY <1>1, <3>2
      <4> QED
        BY <1>2, <3>2, <4>1 DEF TimersJournaled
    <3> QED
      BY <3>1, <3>2
  <2>3. timers' = [t \in TimerIDs |-> timers'[t]]
    BY <1>1
  <2>4. b.timers = [t \in TimerIDs |-> b.timers[t]]
    BY <2>1
  <2> QED
    BY <2>2, <2>3, <2>4
<1> QED
  BY <1>3, <1>4, <1>5, <1>6, <1>7

LEMMA RestoreAdvanceKeeps ==
  ASSUME FrameInv, RestoreAdvance
  PROVE  FrameInv'
<1>1. /\ txn.step = "rollback" /\ txn' = [Idle EXCEPT !.outcome = "failed", !.before = txn.before]
      /\ UNCHANGED <<nextTimer, mode, seen>>
  BY DEF RestoreAdvance, At
<1>2. ServicesOK /\ AdvanceOK /\ txn \in Advances
  BY <1>1, InAdvance
<1> DEFINE b == txn.before
<1>3. /\ now' = b.now /\ pending' = b.pending /\ nextSequence' = b.nextSequence
      /\ controls' = b.controls /\ queued' = b.queued /\ timers' = b.timers
      /\ voice' = b.voice /\ device' = b.device /\ log' = b.log /\ cursor' = b.cursor
  BY <1>2, Restored
<1>4. b \in Snapshots /\ BeforeOK(b, seen)
  BY <1>2, AdvanceFacts DEF AdvanceOK
<1> HIDE DEF b
<1>5. b.now \in Nat /\ b.voice \in Nat
  BY <1>4, SnapshotFacts
<1>6. ServicesOK'
  BY <1>1, <1>2, <1>3, <1>4, <1>5 DEF ServicesOK, BeforeOK
<1>7. DueBy(pending', now') /\ Ahead(queued', now')
  BY <1>3, <1>4 DEF BeforeOK
<1>8. txn'.step = "idle" /\ txn'.outcome = "failed" /\ txn'.before = b
  BY <1>1 DEF Idle, b
<1>9. Snapshot' = b
  <2>1. b = [now |-> b.now, pending |-> b.pending, nextSequence |-> b.nextSequence,
             controls |-> b.controls, queued |-> b.queued, timers |-> b.timers,
             voice |-> b.voice, device |-> b.device, log |-> b.log, cursor |-> b.cursor]
    BY <1>4 DEF Snapshots
  <2> QED
    BY <1>3, <2>1 DEF Snapshot
<1>10. FailedAdvanceChangesNothing' /\ AdvanceCatchesUp'
  BY <1>8, <1>9 DEF FailedAdvanceChangesNothing, AdvanceCatchesUp
<1> QED
  BY <1>6, <1>7, <1>8, <1>10 DEF FrameInv, Resting

-----------------------------------------------------------------------------
(* The frame.                                                                *)

LEMMA InitFrame == Init => FrameInv
<1> SUFFICES ASSUME Init PROVE FrameInv
  OBVIOUS
<1>1. /\ now = 0 /\ pending = {} /\ nextSequence = 1
      /\ controls = [c \in ControlNames |-> None] /\ queued = <<>>
      /\ timers = [t \in TimerIDs |-> None] /\ nextTimer = 1 /\ voice = 0
      /\ device = [lamp \in Lamps |-> [on |-> FALSE, until |-> 0]]
      /\ mode = "off" /\ log = <<>> /\ cursor = 0 /\ txn = Idle
      /\ seen = [c \in ControlNames |-> FALSE]
  BY DEF Init
<1>2. IsFiniteSet({}) /\ Cardinality({}) = 0
  BY FS_EmptySet
<1>3. BusOK(pending, nextSequence) /\ GraphOK(pending, timers) /\ DueBy(pending, now)
  BY <1>1, <1>2, MaxEventsAssumption DEF BusOK, GraphOK, DueBy
<1>4. queued \in Seq(FutureChanges) /\ Len(queued) = 0 /\ Ahead(queued, now)
  BY <1>1, EmptySeq DEF Ahead
<1>5. InputOK(controls, queued)
  <2>1. controls \in Controls /\ KnownIn(controls) = {}
    BY <1>1 DEF Controls, KnownIn
  <2> QED
    BY <1>2, <1>4, <2>1, FrameAssumption, MaxEventsAssumption DEF InputOK
<1>6. KeysOK(pending, controls, seen)
  <2> SUFFICES ASSUME NEW c \in ControlNames
      PROVE KeyOK(TransitionsOn(pending, c), HeldIn(controls, c), seen[c])
    BY DEF KeysOK
  <2>1. TransitionsOn(pending, c) = {} /\ ~HeldIn(controls, c) /\ seen[c] = FALSE
    BY <1>1 DEF TransitionsOn, HeldIn
  <2>2. Even(Cardinality(TransitionsOn(pending, c)))
    BY <1>2, <2>1, Parity
  <2> QED
    BY <2>1, <2>2 DEF KeyOK
<1>7. TimersOK(timers)
  <2>1. timers \in TimerTables /\ AliveIn(timers) = {}
    BY <1>1 DEF TimerTables, AliveIn
  <2> QED
    BY <1>2, <2>1, FrameAssumption DEF TimersOK
<1>8. DeviceOK(device)
  BY <1>1 DEF DeviceOK, LampStates
<1>9. ReplayOK(log, cursor)
  BY <1>1, EmptySeq, FrameAssumption DEF ReplayOK
<1>10. txn.step = "idle" /\ FailedAdvanceChangesNothing /\ AdvanceCatchesUp
  BY <1>1 DEF Idle, FailedAdvanceChangesNothing, AdvanceCatchesUp
<1>11. ServicesOK
  BY <1>1, <1>3, <1>5, <1>6, <1>7, <1>8, <1>9 DEF ServicesOK
<1> QED
  BY <1>3, <1>4, <1>10, <1>11 DEF FrameInv, Resting

LEMMA StillFrame ==
  ASSUME FrameInv, UNCHANGED vars
  PROVE  FrameInv'
<1>1. /\ now' = now /\ pending' = pending /\ nextSequence' = nextSequence
      /\ controls' = controls /\ queued' = queued /\ timers' = timers /\ nextTimer' = nextTimer
      /\ voice' = voice /\ device' = device /\ mode' = mode /\ log' = log /\ cursor' = cursor
      /\ txn' = txn /\ seen' = seen
  BY DEF vars, serviceVars, busVars, inputVars, timerVars, replayVars
<1>2. ServicesOK'
  BY <1>1 DEF FrameInv, ServicesOK
<1>3. CASE txn.step = "idle"
  <2>1. DueTimers' = DueTimers /\ Snapshot' = Snapshot
    BY <1>1 DEF DueTimers, Snapshot
  <2>2. \A c \in ControlNames : Held(c)' <=> Held(c)
    BY <1>1 DEF Held
  <2>3. FailedAdvanceChangesNothing'
    BY <1>1, <1>3, <2>1 DEF FrameInv, Resting, FailedAdvanceChangesNothing
  <2>4. AdvanceCatchesUp'
    BY <1>1, <1>3, <2>1, <2>2 DEF FrameInv, Resting, AdvanceCatchesUp
  <2> QED
    BY <1>1, <1>2, <1>3, <2>3, <2>4 DEF FrameInv, Resting
<1>4. CASE txn.step # "idle"
  <2>1. DueTimers' = DueTimers
    BY <1>1 DEF DueTimers
  <2>2. AdvanceOK
    BY <1>4 DEF FrameInv
  <2>3. ProgressOK(txn) => ProgressOK(txn)'
    BY <1>1, <2>1 DEF ProgressOK
  <2>4. AdvanceOK'
    BY <1>1, <2>2, <2>3 DEF AdvanceOK
  <2> QED
    BY <1>1, <1>2, <1>4, <2>4 DEF FrameInv
<1> QED
  BY <1>3, <1>4

LEMMA NextFrame == FrameInv /\ [Next]_vars => FrameInv'
<1> SUFFICES ASSUME FrameInv, [Next]_vars PROVE FrameInv'
  OBVIOUS
<1>1. CASE \E delta \in Deltas : Advance(delta)
  BY <1>1, AdvanceBegins
<1>2. CASE AdvanceStep
  BY <1>2, AdvanceClockKeeps, AdvanceMediaKeeps, AdvanceRepeatKeeps, ApplyDueChangeKeeps,
     FinishInputKeeps, AdvanceTimerKeeps, FinishTimersKeeps, AdvanceDeviceKeeps,
     RecordAdvanceKeeps, RestoreAdvanceKeeps DEF AdvanceStep
<1>3. CASE \E c \in ControlNames, pressed \in BOOLEAN, at \in InputTimes : QueueInput(c, pressed, at)
  BY <1>3, QueueInputKeeps
<1>4. CASE Define
  BY <1>4, TimerCallsKeep
<1>5. CASE \E t \in TimerIDs :
             \/ \E deadline \in Deadlines, interval \in {0, 1} : Set(t, deadline, interval)
             \/ Cancel(t)
             \/ Destroy(t)
  BY <1>5, TimerCallsKeep, DestroyKeeps
<1>6. CASE Play \/ \E next \in Modes : SetMode(next)
  BY <1>6, PlayAndModeKeep
<1>7. CASE \E lamp \in Lamps, on \in BOOLEAN, duration \in {0, 1} : Light(lamp, on, duration)
  BY <1>7, LightKeeps
<1>8. CASE PopReady
  BY <1>8, PopReadyKeeps
<1>9. CASE UNCHANGED vars
  BY <1>9, StillFrame
<1> QED
  BY <1>1, <1>2, <1>3, <1>4, <1>5, <1>6, <1>7, <1>8, <1>9 DEF Next

\* In every reachable state the services are sound; in the middle of an advance
\* the journals of input and timers and what was captured in full still make the
\* state it began in.
THEOREM FrameInvariant == Spec => []FrameInv
<1>1. Init => FrameInv
  BY InitFrame
<1>2. FrameInv /\ [Next]_vars => FrameInv'
  BY NextFrame
<1> QED
  BY <1>1, <1>2, PTL DEF Spec

\* A failed advance leaves no trace: whichever step of Services.Advance fails,
\* restoreAdvance brings back every service as it was.
THEOREM FailureIsUndone == Spec => []FailedAdvanceChangesNothing
<1>1. FrameInv => FailedAdvanceChangesNothing
  BY AdvanceFacts DEF FrameInv, Resting, AdvanceOK, FailedAdvanceChangesNothing
<1> QED
  BY <1>1, FrameInvariant, PTL

\* When Services.Advance returns without an error, no transition, repeat, timer
\* or lamp that was due is left.
THEOREM CaughtUp == Spec => []AdvanceCatchesUp
<1>1. FrameInv => AdvanceCatchesUp
  BY AdvanceFacts DEF FrameInv, Resting, AdvanceOK, AdvanceCatchesUp
<1> QED
  BY <1>1, FrameInvariant, PTL

\* The presses and releases on the bus tell the guest, whenever it looks, which
\* keys Input.Change has left held.
THEOREM KeysAreTold == Spec => []KeyEventsTellTheKey
<1>1. ASSUME FrameInv PROVE KeyEventsTellTheKey
  <2>1. KeysOK(pending, controls, seen) /\ controls \in Controls /\ seen \in [ControlNames -> BOOLEAN]
    BY <1>1 DEF FrameInv, ServicesOK, InputOK
  <2> SUFFICES ASSUME NEW c \in ControlNames
      PROVE  LET earlier(e) == {f \in Transitions(c) : Before(f, e)}
                 alternates(e) == (e.kind = "press") =
                   (IF Cardinality(earlier(e)) % 2 = 0 THEN ~seen[c] ELSE seen[c])
             IN  /\ \A e \in Transitions(c) : alternates(e)
                 /\ Held(c) = IF Cardinality(Transitions(c)) % 2 = 0 THEN seen[c] ELSE ~seen[c]
    BY DEF KeyEventsTellTheKey
  <2> DEFINE T == Transitions(c)
             told == seen[c]
             held == Held(c)
  <2>2. KeyOK(T, held, told)
    <3>1. T = TransitionsOn(pending, c)
      BY DEF Transitions, TransitionsOn
    <3>2. KeyOK(TransitionsOn(pending, c), HeldIn(controls, c), seen[c])
      BY <2>1 DEF KeysOK
    <3> QED
      BY <3>1, <3>2, HeldNow DEF KeyOK
  <2>3. told \in BOOLEAN /\ held \in BOOLEAN
    <3>1. HeldIn(controls, c) \in BOOLEAN
      BY <2>1, HeldIsBoolean
    <3>2. held = HeldIn(controls, c)
      BY DEF Held, HeldIn
    <3> QED
      BY <2>1, <3>1, <3>2
  <2> HIDE DEF T, told, held
  <2>4. \A e \in T :
          (e.kind = "press") = (IF Cardinality({f \in T : Before(f, e)}) % 2 = 0 THEN ~told ELSE told)
    <3> SUFFICES ASSUME NEW e \in T
        PROVE (e.kind = "press") = (IF Cardinality({f \in T : Before(f, e)}) % 2 = 0 THEN ~told ELSE told)
      OBVIOUS
    <3> DEFINE even == Cardinality({f \in T : Before(f, e)}) % 2 = 0
               press == e.kind = "press"
    <3>1. press <=> (even <=> ~told)
      BY <2>2 DEF KeyOK, Even, Earlier
    <3>2. press \in BOOLEAN /\ even \in BOOLEAN
      OBVIOUS
    <3> HIDE DEF press, even
    <3>3. press = IF even THEN ~told ELSE told
      BY <2>3, <3>1, <3>2
    <3> QED
      BY <3>3 DEF press, even
  <2>5. held = IF Cardinality(T) % 2 = 0 THEN told ELSE ~told
    <3> DEFINE even == Cardinality(T) % 2 = 0
    <3>1. held <=> (even <=> told)
      BY <2>2 DEF KeyOK, Even
    <3>2. even \in BOOLEAN
      OBVIOUS
    <3> HIDE DEF even
    <3>3. held = IF even THEN told ELSE ~told
      BY <2>3, <3>1, <3>2
    <3> QED
      BY <3>3 DEF even
  <2> QED
    BY <2>4, <2>5 DEF T, told, held
<1> QED
  BY <1>1, FrameInvariant, PTL

\* Between advances everything on the bus is due (EventBus.PopReady), so a guest
\* can empty a full bus.
THEOREM DrainableBus == Spec => []BusCanBeDrained
<1>1. FrameInv => BusCanBeDrained
  BY DEF FrameInv, Resting, BusCanBeDrained, DueBy
<1> QED
  BY <1>1, FrameInvariant, PTL

\* Services.Restore accepts what Services.Snapshot returns between any two
\* operations.
THEOREM AlwaysRestorable == Spec => []SnapshotLoads
<1>1. ASSUME FrameInv, txn.step = "idle" PROVE Restorable
  <2>1. ServicesOK /\ Ahead(queued, now)
    BY <1>1 DEF FrameInv, Resting
  <2>2. EventsAccepted
    BY <2>1 DEF ServicesOK, BusOK, EventsAccepted
  <2>3. InputAccepted
    <3>1. Known = KnownIn(controls)
      BY DEF Known, KnownIn
    <3>2. InputOK(controls, queued)
      BY <2>1 DEF ServicesOK
    <3>3. \A c \in Known : controls[c].pressed = (controls[c].nextRepeat # 0)
      <4> SUFFICES ASSUME NEW c \in Known
          PROVE controls[c].pressed = (controls[c].nextRepeat # 0)
        OBVIOUS
      <4>1. controls[c].pressed <=> controls[c].nextRepeat # 0
        BY <3>1, <3>2 DEF InputOK
      <4>2. controls[c].pressed \in BOOLEAN
        BY <3>2 DEF Known, InputOK, Controls, ControlStates
      <4> QED
        BY <4>1, <4>2
    <3>4. \A i \in 1 .. Len(queued) : i > 1 => queued[i - 1].at <= queued[i].at
      <4>1. Len(queued) \in Nat
        BY <3>2, LenProperties DEF InputOK
      <4>2. \A i \in 1 .. Len(queued) : i > 1 => i - 1 \in 1 .. Len(queued) /\ i - 1 < i
        BY <4>1
      <4> QED
        BY <3>2, <4>2 DEF InputOK
    <3> QED
      BY <3>1, <3>2, <3>3, <3>4 DEF InputAccepted, InputOK
  <2>4. TimersAccepted
    BY <2>1 DEF ServicesOK, TimersOK, AliveIn, TimersAccepted
  <2>5. DeviceAccepted
    <3>1. DeviceOK(device)
      BY <2>1 DEF ServicesOK
    <3> SUFFICES ASSUME NEW lamp \in Lamps
        PROVE  /\ lamp = "vibration" => device[lamp].on = (device[lamp].until # 0)
               /\ lamp = "backlight" /\ ~device[lamp].on => device[lamp].until = 0
      BY DEF DeviceAccepted
    <3>2. device[lamp].on \in BOOLEAN
      BY <3>1 DEF DeviceOK, LampStates
    <3>3. lamp = "vibration" => (device[lamp].on <=> device[lamp].until # 0)
      BY <3>1 DEF DeviceOK
    <3>4. lamp = "vibration" => device[lamp].on = (device[lamp].until # 0)
      BY <3>2, <3>3
    <3> QED
      BY <3>1, <3>4 DEF DeviceOK
  <2>6. ReplayAccepted
    BY <2>1 DEF ServicesOK, ReplayOK, ReplayAccepted
  <2>7. GraphAccepted
    BY <2>1 DEF ServicesOK, GraphOK, AliveIn, GraphAccepted
  <2>8. PendingInputAccepted
    BY <2>1 DEF ServicesOK, InputOK, Ahead, PendingInputAccepted
  <2> QED
    BY <2>2, <2>3, <2>4, <2>5, <2>6, <2>7, <2>8 DEF Restorable
<1>2. FrameInv => SnapshotLoads
  BY <1>1 DEF SnapshotLoads
<1> QED
  BY <1>2, FrameInvariant, PTL
=============================================================================
