------------------------------- MODULE Frame -------------------------------
(***************************************************************************)
(* One machine's virtual time (runtime/services.go with clock.go,          *)
(* input.go, timers.go, device.go, replay.go): Services.Advance moves the  *)
(* clock and then media, input, timers, device and replay log through it,  *)
(* one after the other, as a transaction.  A step that fails undoes the    *)
(* ones before it from journals that recorded only what each component     *)
(* was about to change.  Between advances the host queues input and the    *)
(* guest sets timers, starts sounds and takes events off the bus.          *)
(*                                                                         *)
(* Everything belongs to one guest owner.  The code's sentinel limits are  *)
(* constants: MaxTime is math.MaxInt64 and MaxSequence math.MaxUint64.     *)
(***************************************************************************)
EXTENDS EventQueue, Sequences, Selections

CONSTANTS
  ControlNames,            \* 1 .. n, in the order of the control names
  MaxControls,             \* limit on the controls known at once
  TimerIDs,                \* 1 .. n, handed out in order and never again
  MaxTimers,               \* limit on the timers alive at once
  RepeatDelay, RepeatPeriod,
  MaxTime, MaxSequence,
  MaxEntries,              \* limit of the replay log
  Deltas, InputTimes, Deadlines,  \* what Advance, QueueInput and Set are called with
  Modes,                   \* replay modes the host selects
  Lamps,                   \* "vibration" and "backlight"
  ClipLength,              \* ticks a sound lasts
  ClipID,                  \* the sound's service ID
  Guest, None

ASSUME FrameAssumption ==
  /\ ControlNames \subseteq Nat /\ TimerIDs \subseteq Nat \ {0}
  /\ MaxControls \in Nat \ {0} /\ MaxTimers \in Nat \ {0}
  /\ RepeatDelay \in Nat \ {0} /\ RepeatPeriod \in Nat \ {0}
  /\ MaxTime \in Nat /\ MaxSequence \in Nat \ {0} /\ MaxEntries \in Nat \ {0}
  /\ Deltas \subseteq Nat /\ InputTimes \subseteq Nat /\ Deadlines \subseteq Nat
  /\ Modes \subseteq {"off", "record", "playback"} /\ ClipLength \in Nat \ {0}
  /\ Lamps \subseteq {"vibration", "backlight"}
  /\ ClipID \in Nat \ (TimerIDs \cup {0})

ControlStates == [pressed : BOOLEAN, nextRepeat : Nat]
FutureChanges == [at : Nat, control : ControlNames, pressed : BOOLEAN]
TimerStates == [deadline : Nat, interval : Nat, active : BOOLEAN]

\* None is no state and no queue.
ASSUME NoneAssumption == None \notin ControlStates \cup TimerStates \cup Seq(FutureChanges)

VARIABLES
  now,           \* Clock.monotonic
  pending,       \* the event bus
  nextSequence,
  controls,      \* by name: None, or [pressed, nextRepeat]
  queued,        \* Input.pending: future transitions in the order of their time
  timers,        \* by ID: None, or [deadline, interval, active]
  nextTimer,     \* the ID the registry hands out next
  voice,         \* ticks left of the sound that plays, 0 when silent
  device,        \* [vibration, backlight], each [on, until]
  mode, log, cursor,  \* the replay log
  txn,           \* the advance in progress: its step and its journals
  seen           \* ghost: controls held according to the events delivered

busVars == <<pending, nextSequence>>
inputVars == <<controls, queued>>
timerVars == <<timers, nextTimer>>
replayVars == <<mode, log, cursor>>
serviceVars == <<now, busVars, inputVars, timerVars, voice, device, replayVars>>
vars == <<serviceVars, txn, seen>>

NoControl == [pressed |-> FALSE, nextRepeat |-> 0]
Idle == [step |-> "idle", outcome |-> "none", before |-> None]

\* Operations come between advances: one goroutine owns the services.
BetweenAdvances == txn.step = "idle" /\ txn' = Idle

Event(kind, at, control, service) ==
  [sequence |-> nextSequence, at |-> at, kind |-> kind, owner |-> Guest,
   control |-> control, service |-> service]

\* Enqueue: CanEnqueue is its guard, Enqueued its effect.
CanEnqueue == HasRoom(pending) /\ nextSequence < MaxSequence

Enqueued(event) ==
  /\ pending' = pending \cup {event}
  /\ nextSequence' = nextSequence + 1

Init ==
  /\ now = 0 /\ pending = {} /\ nextSequence = 1
  /\ controls = [c \in ControlNames |-> None] /\ queued = <<>>
  /\ timers = [t \in TimerIDs |-> None] /\ nextTimer = 1
  /\ voice = 0
  /\ device = [lamp \in Lamps |-> [on |-> FALSE, until |-> 0]]
  /\ mode = "off" /\ log = <<>> /\ cursor = 0
  /\ txn = Idle
  /\ seen = [c \in ControlNames |-> FALSE]

-----------------------------------------------------------------------------
(* The replay log. *)

Entry(kind, at, control, value) ==
  [kind |-> kind, at |-> at, control |-> control, value |-> value]

\* Peek and compare: what Consume requires in playback.
Matches(entry) == cursor < Len(log) /\ log[cursor + 1] = entry

\* What a replayable operation does to the log: verify and step in playback,
\* append when recording.
CanReplay(entry) ==
  /\ mode = "playback" => Matches(entry)
  /\ mode = "record" => Len(log) < MaxEntries

Replayed(entry) ==
  /\ cursor' = IF mode = "playback" THEN cursor + 1 ELSE cursor
  /\ log' = IF mode = "record" THEN Append(log, entry) ELSE log

SetMode(next) ==
  /\ BetweenAdvances /\ next # mode
  /\ next = "record" => cursor = 0
  /\ mode' = next
  /\ UNCHANGED <<now, busVars, inputVars, timerVars, voice, device, log, cursor, seen>>

-----------------------------------------------------------------------------
(* Input. *)

Known == {c \in ControlNames : controls[c] # None}
CanKnow(c) == controls[c] # None \/ Cardinality(Known) < MaxControls
Held(c) == controls[c] # None /\ controls[c].pressed

\* Input.Change: no event when the control is already there; the deadline of the
\* first repeat must not overflow.
CanChange(c, pressed, at) ==
  /\ CanKnow(c)
  /\ Held(c) # pressed => CanEnqueue /\ (pressed => at <= MaxTime - RepeatDelay)

Changed(c, pressed, at) ==
  IF Held(c) = pressed
    THEN UNCHANGED <<controls, pending, nextSequence>>
    ELSE /\ controls' = [controls EXCEPT ![c] =
              [pressed |-> pressed, nextRepeat |-> IF pressed THEN at + RepeatDelay ELSE 0]]
         /\ Enqueued(Event(IF pressed THEN "press" ELSE "release", at, c, 0))

\* After those of the same time: equal timestamps keep their order.
InsertQueued(change) ==
  LET due(i) == queued[i].at <= change.at
      k == Cardinality({i \in 1 .. Len(queued) : due(i)})
  IN  InsertedAt(queued, k + 1, change)

\* Mutant: late input keeps the timestamp the host gave it.
NotAnchored(at) == at

\* Input that comes late is anchored at the current time.
Anchored(at) == IF at < now THEN now ELSE at

\* Mutant: a future transition is applied when it is queued.
AlwaysDue(at) == TRUE

DueNow(at) == at <= now

\* Services.QueueInput.  Any failure restores the event, input and replay
\* snapshots, that is, changes nothing.
QueueInput(c, pressed, requested) ==
  LET at == Anchored(requested)
      entry == Entry("input", at, c, IF pressed THEN 1 ELSE 0)
  IN  /\ BetweenAdvances
      /\ CanReplay(entry) /\ Replayed(entry)
      /\ \/ /\ DueNow(at)
            /\ CanChange(c, pressed, at) /\ Changed(c, pressed, at)
            /\ UNCHANGED queued
         \/ /\ ~DueNow(at)
            /\ pressed => at <= MaxTime - RepeatDelay
            /\ CanKnow(c) /\ Len(queued) < MaxEvents
            /\ queued' = InsertQueued([at |-> at, control |-> c, pressed |-> pressed])
            /\ controls' = IF controls[c] = None
                           THEN [controls EXCEPT ![c] = NoControl] ELSE controls
            /\ UNCHANGED <<pending, nextSequence>>
      /\ UNCHANGED <<now, timerVars, voice, device, mode, seen>>

-----------------------------------------------------------------------------
(* The guest: timers, sound, device, events. *)

Define ==
  /\ BetweenAdvances /\ nextTimer \in TimerIDs
  /\ Cardinality({t \in TimerIDs : timers[t] # None}) < MaxTimers
  /\ timers' = [timers EXCEPT ![nextTimer] = [deadline |-> 0, interval |-> 0, active |-> FALSE]]
  /\ nextTimer' = nextTimer + 1
  /\ UNCHANGED <<now, busVars, inputVars, voice, device, replayVars, seen>>

Set(t, deadline, interval) ==
  /\ BetweenAdvances /\ timers[t] # None
  /\ timers' = [timers EXCEPT ![t] = [deadline |-> deadline, interval |-> interval, active |-> TRUE]]
  /\ UNCHANGED <<now, busVars, inputVars, nextTimer, voice, device, replayVars, seen>>

Cancel(t) ==
  /\ BetweenAdvances /\ timers[t] # None
  /\ timers' = [timers EXCEPT ![t].active = FALSE]
  /\ UNCHANGED <<now, busVars, inputVars, nextTimer, voice, device, replayVars, seen>>

\* Mutant: the events of a destroyed timer stay on the bus.
DestroyKeepsEvents(t) ==
  /\ BetweenAdvances /\ timers[t] # None
  /\ timers' = [timers EXCEPT ![t] = None]
  /\ UNCHANGED <<now, busVars, inputVars, nextTimer, voice, device, replayVars, seen>>

Destroy(t) ==
  /\ BetweenAdvances /\ timers[t] # None
  /\ timers' = [timers EXCEPT ![t] = None]
  /\ pending' = RemoveService(pending, t)
  /\ UNCHANGED <<now, nextSequence, inputVars, nextTimer, voice, device, replayVars, seen>>

\* Media.Play, reduced to what an advance sees of it; Media has the rest.
Play ==
  /\ BetweenAdvances /\ voice = 0
  /\ voice' = ClipLength
  /\ UNCHANGED <<now, busVars, inputVars, timerVars, device, replayVars, seen>>

\* Vibrate and SetBacklight: a vibration without a duration is none, a backlight
\* without one stays on.
Light(lamp, on, duration) ==
  /\ BetweenAdvances /\ duration <= MaxTime - now
  /\ device' = [device EXCEPT ![lamp] =
       [on |-> on /\ (lamp = "vibration" => duration # 0),
        until |-> IF on /\ duration # 0 THEN now + duration ELSE 0]]
  /\ UNCHANGED <<now, busVars, inputVars, timerVars, voice, replayVars, seen>>

PopReady ==
  /\ BetweenAdvances
  /\ \E e \in Ready(pending, now) :
       /\ pending' = pending \ {e}
       /\ seen' = IF e.kind \in {"press", "release"}
                  THEN [seen EXCEPT ![e.control] = (e.kind = "press")] ELSE seen
  /\ UNCHANGED <<now, nextSequence, inputVars, timerVars, voice, device, replayVars>>

-----------------------------------------------------------------------------
(* Services.Advance: each step changes its component and moves on, or fails  *)
(* where it is and leaves the partial change to the rollback.                *)

Snapshot ==
  [now |-> now, pending |-> pending, nextSequence |-> nextSequence, controls |-> controls,
   queued |-> queued, timers |-> timers, voice |-> voice, device |-> device, log |-> log,
   cursor |-> cursor]

\* The clock, the event bus, media, device and replay position are captured in
\* full; input and timers journal what they change as they change it.
Advance(delta) ==
  /\ txn.step = "idle"
  /\ mode = "playback" => Matches(Entry("advance", now, 0, delta))
  /\ cursor' = IF mode = "playback" THEN cursor + 1 ELSE cursor
  /\ txn' = [step |-> "clock", outcome |-> "none", before |-> Snapshot, delta |-> delta,
             clock |-> now, pending |-> pending, nextSequence |-> nextSequence,
             voice |-> voice, device |-> device, cursor |-> cursor, entries |-> Len(log),
             controls |-> {}, queued |-> None, due |-> 0, timers |-> {}]
  /\ UNCHANGED <<now, busVars, inputVars, timerVars, voice, device, mode, log, seen>>

At(step) == txn.step = step
Proceed(step) == txn' = [txn EXCEPT !.step = step]
Fail == Proceed("rollback")

AdvanceClock ==
  /\ At("clock")
  /\ \/ /\ txn.delta <= MaxTime - now
        /\ now' = now + txn.delta
        /\ Proceed("media")
     \/ /\ txn.delta > MaxTime - now
        /\ Fail
        /\ UNCHANGED now
  /\ UNCHANGED <<busVars, inputVars, timerVars, voice, device, replayVars, seen>>

\* A sound that ends is stopped before its completion event is enqueued.
AdvanceMedia ==
  /\ At("media")
  /\ voice' = IF voice > txn.delta THEN voice - txn.delta ELSE 0
  /\ IF voice \in 1 .. txn.delta
       THEN \/ /\ CanEnqueue
               /\ Enqueued(Event("complete", txn.clock + voice, 0, ClipID))
               /\ Proceed("input")
            \/ ~CanEnqueue /\ Fail /\ UNCHANGED busVars
       ELSE Proceed("input") /\ UNCHANGED busVars
  /\ UNCHANGED <<now, inputVars, timerVars, device, replayVars, seen>>

\* captureControl: the first value an advance meets is the one that is kept.
CaptureControl(c) ==
  IF \E saved \in txn.controls : saved.name = c THEN txn.controls
  ELSE txn.controls \cup {[name |-> c, control |-> controls[c]]}

HasDueChange == txn.due < Len(queued) /\ queued[txn.due + 1].at <= now
\* Mutant: a repeat that falls due at this very instant is left for later.
RepeatBoundBefore == IF HasDueChange THEN queued[txn.due + 1].at - 1 ELSE now - 1

\* Repeats before a transition belong to the state it ends.
RepeatBound == IF HasDueChange THEN queued[txn.due + 1].at - 1 ELSE now
DueRepeats == {c \in ControlNames : Held(c) /\ controls[c].nextRepeat <= RepeatBound}

\* saved.pending is taken before the first due transition is touched.
SaveQueued == IF HasDueChange /\ txn.queued = None THEN queued ELSE txn.queued

\* Mutant: the deadline of a coalesced repeat does not move on.
AdvanceRepeatStuck ==
  /\ At("input")
  /\ \E c \in DueRepeats :
       /\ \A other \in DueRepeats : c <= other
       /\ LET coalesced == HasPendingRepeat(pending, Guest, c)
              journaled == [txn EXCEPT !.controls = CaptureControl(c), !.queued = SaveQueued]
              fits == controls[c].nextRepeat <= MaxTime - RepeatPeriod
          IN  /\ IF coalesced \/ ~CanEnqueue THEN UNCHANGED busVars
                 ELSE Enqueued(Event("repeat", controls[c].nextRepeat, c, 0))
              /\ \/ /\ (coalesced \/ CanEnqueue) /\ fits
                    /\ controls' = IF coalesced THEN controls
                                  ELSE [controls EXCEPT ![c].nextRepeat = @ + RepeatPeriod]
                    /\ txn' = journaled
                 \/ /\ ~((coalesced \/ CanEnqueue) /\ fits)
                    /\ txn' = [journaled EXCEPT !.step = "rollback"]
                    /\ UNCHANGED controls
  /\ UNCHANGED <<now, queued, timerVars, voice, device, replayVars, seen>>

\* One turn of advanceRepeats for the least due control: a repeat behind an
\* undelivered one is coalesced, the deadline moves on either way.
AdvanceRepeat ==
  /\ At("input")
  /\ \E c \in DueRepeats :
       /\ \A other \in DueRepeats : c <= other
       /\ LET coalesced == HasPendingRepeat(pending, Guest, c)
              journaled == [txn EXCEPT !.controls = CaptureControl(c), !.queued = SaveQueued]
              fits == controls[c].nextRepeat <= MaxTime - RepeatPeriod
          IN  /\ IF coalesced \/ ~CanEnqueue THEN UNCHANGED busVars
                 ELSE Enqueued(Event("repeat", controls[c].nextRepeat, c, 0))
              /\ \/ /\ (coalesced \/ CanEnqueue) /\ fits
                    /\ controls' = [controls EXCEPT ![c].nextRepeat = @ + RepeatPeriod]
                    /\ txn' = journaled
                 \/ /\ ~((coalesced \/ CanEnqueue) /\ fits)
                    /\ txn' = [journaled EXCEPT !.step = "rollback"]
                    /\ UNCHANGED controls
  /\ UNCHANGED <<now, queued, timerVars, voice, device, replayVars, seen>>

ApplyDueChange ==
  /\ At("input") /\ DueRepeats = {} /\ HasDueChange
  /\ LET change == queued[txn.due + 1]
         journaled == [txn EXCEPT !.controls = CaptureControl(change.control), !.queued = SaveQueued]
     IN  \/ /\ CanChange(change.control, change.pressed, change.at)
            /\ Changed(change.control, change.pressed, change.at)
            /\ txn' = [journaled EXCEPT !.due = @ + 1]
         \/ /\ ~CanChange(change.control, change.pressed, change.at)
            /\ txn' = [journaled EXCEPT !.step = "rollback"]
            /\ UNCHANGED <<controls, busVars>>
  /\ UNCHANGED <<now, queued, timerVars, voice, device, replayVars, seen>>

FinishInput ==
  /\ At("input") /\ DueRepeats = {} /\ ~HasDueChange
  /\ queued' = SubSeq(queued, txn.due + 1, Len(queued))
  /\ Proceed("timers")
  /\ UNCHANGED <<now, busVars, controls, timerVars, voice, device, replayVars, seen>>

DueTimers == {t \in TimerIDs : timers[t] # None /\ timers[t].active /\ timers[t].deadline <= now}

\* Mutant: a timer that fires twice in an advance is journaled twice, and the
\* later value wins.
JournalLatest(t) ==
  {saved \in txn.timers : saved.id # t}
    \cup {[id |-> t, deadline |-> timers[t].deadline, active |-> timers[t].active]}

Journal(t) ==
  IF \E saved \in txn.timers : saved.id = t THEN txn.timers
  ELSE txn.timers \cup {[id |-> t, deadline |-> timers[t].deadline, active |-> timers[t].active]}

\* The earliest deadline first, then the smaller ID; a repeating timer may be
\* selected again in the same advance.
AdvanceTimer ==
  /\ At("timers")
  /\ \E t \in DueTimers :
       /\ \A other \in DueTimers \ {t} :
            \/ timers[t].deadline < timers[other].deadline
            \/ timers[t].deadline = timers[other].deadline /\ t < other
       /\ LET timer == timers[t]
              journaled == [txn EXCEPT !.timers = Journal(t)]
              fits == timer.deadline <= MaxTime - timer.interval
          IN  /\ IF CanEnqueue THEN Enqueued(Event("timer", timer.deadline, 0, t))
                               ELSE UNCHANGED busVars
              /\ \/ /\ CanEnqueue /\ timer.interval = 0
                    /\ timers' = [timers EXCEPT ![t].active = FALSE]
                    /\ txn' = journaled
                 \/ /\ CanEnqueue /\ timer.interval # 0 /\ fits
                    /\ timers' = [timers EXCEPT ![t].deadline = @ + timer.interval]
                    /\ txn' = journaled
                 \/ /\ ~CanEnqueue \/ ~fits
                    /\ txn' = [journaled EXCEPT !.step = "rollback"]
                    /\ UNCHANGED timers
  /\ UNCHANGED <<now, inputVars, nextTimer, voice, device, replayVars, seen>>

FinishTimers ==
  /\ At("timers") /\ DueTimers = {}
  /\ Proceed("device")
  /\ UNCHANGED <<serviceVars, seen>>

AdvanceDevice ==
  /\ At("device")
  /\ device' = [lamp \in Lamps |->
       IF device[lamp].until \in 1 .. now THEN [on |-> FALSE, until |-> 0] ELSE device[lamp]]
  /\ Proceed("record")
  /\ UNCHANGED <<now, busVars, inputVars, timerVars, voice, replayVars, seen>>

\* The last step can fail too: a full log undoes the whole advance.
RecordAdvance ==
  /\ At("record")
  /\ \/ /\ mode = "record" => Len(log) < MaxEntries
        /\ log' = IF mode = "record"
                  THEN Append(log, Entry("advance", txn.clock, 0, txn.delta)) ELSE log
        /\ txn' = [Idle EXCEPT !.outcome = "ok"]
     \/ /\ mode = "record" /\ Len(log) >= MaxEntries
        /\ Fail
        /\ UNCHANGED log
  /\ UNCHANGED <<now, busVars, inputVars, timerVars, voice, device, mode, cursor, seen>>

\* Services.restoreAdvance.
RestoreAdvance ==
  /\ At("rollback")
  /\ log' = SubSeq(log, 1, txn.entries) /\ cursor' = txn.cursor
  /\ device' = txn.device
  /\ timers' = [t \in TimerIDs |->
       IF \E saved \in txn.timers : saved.id = t
         THEN LET saved == CHOOSE saved \in txn.timers : saved.id = t
              IN  [timers[t] EXCEPT !.deadline = saved.deadline, !.active = saved.active]
         ELSE timers[t]]
  /\ controls' = [c \in ControlNames |->
       IF \E saved \in txn.controls : saved.name = c
         THEN (CHOOSE saved \in txn.controls : saved.name = c).control
         ELSE controls[c]]
  /\ queued' = IF txn.queued = None THEN queued ELSE txn.queued
  /\ voice' = txn.voice
  /\ pending' = txn.pending /\ nextSequence' = txn.nextSequence
  /\ now' = txn.clock
  /\ txn' = [Idle EXCEPT !.outcome = "failed", !.before = txn.before]
  /\ UNCHANGED <<nextTimer, mode, seen>>

AdvanceStep ==
  \/ AdvanceClock \/ AdvanceMedia
  \/ AdvanceRepeat \/ ApplyDueChange \/ FinishInput
  \/ AdvanceTimer \/ FinishTimers
  \/ AdvanceDevice \/ RecordAdvance
  \/ RestoreAdvance

Next ==
  \/ \E delta \in Deltas : Advance(delta)
  \/ AdvanceStep
  \/ \E c \in ControlNames, pressed \in BOOLEAN, at \in InputTimes : QueueInput(c, pressed, at)
  \/ Define
  \/ \E t \in TimerIDs :
       \/ \E deadline \in Deadlines, interval \in {0, 1} : Set(t, deadline, interval)
       \/ Cancel(t)
       \/ Destroy(t)
  \/ Play
  \/ \E lamp \in Lamps, on \in BOOLEAN, duration \in {0, 1} : Light(lamp, on, duration)
  \/ PopReady
  \/ \E next \in Modes : SetMode(next)

\* Once begun, an advance runs to its end: it is one call.
Spec == Init /\ [][Next]_vars /\ WF_vars(AdvanceStep)

-----------------------------------------------------------------------------
(* What Services.Restore checks of each component's own snapshot, and of the *)
(* references between them.                                                  *)

EventsAccepted ==
  /\ Cardinality(pending) <= MaxEvents
  /\ \A e \in pending : e.sequence \in 1 .. nextSequence - 1
  /\ \A e, f \in pending : e # f => e.sequence # f.sequence

InputAccepted ==
  /\ Cardinality(Known) <= MaxControls
  /\ \A c \in Known : controls[c].pressed = (controls[c].nextRepeat # 0)
  /\ \A i \in 1 .. Len(queued) :
       /\ queued[i].control \in Known /\ queued[i].at > 0
       /\ i > 1 => queued[i - 1].at <= queued[i].at
       /\ queued[i].pressed => queued[i].at <= MaxTime - RepeatDelay

\* Services.Restore's own checks of what waits: bounded, and in the future.
PendingInputAccepted == Len(queued) <= MaxEvents /\ \A i \in 1 .. Len(queued) : queued[i].at > now

TimersAccepted == Cardinality({t \in TimerIDs : timers[t] # None}) <= MaxTimers

DeviceAccepted ==
  \A lamp \in Lamps :
    /\ lamp = "vibration" => device[lamp].on = (device[lamp].until # 0)
    /\ lamp = "backlight" /\ ~device[lamp].on => device[lamp].until = 0

ReplayAccepted == Len(log) <= MaxEntries /\ cursor <= Len(log)

\* validateServiceRegistryGraph: events name live objects of their kind.
GraphAccepted ==
  \A e \in pending :
    /\ e.kind = "timer" => e.service \in TimerIDs /\ timers[e.service] # None
    /\ e.kind = "complete" => e.service = ClipID
    /\ e.kind \in {"press", "release", "repeat"} => e.service = 0

Restorable ==
  /\ EventsAccepted /\ InputAccepted /\ PendingInputAccepted /\ TimersAccepted
  /\ DeviceAccepted /\ ReplayAccepted /\ GraphAccepted

-----------------------------------------------------------------------------
(* Properties. *)

\* A failed advance leaves no trace: clock, events and their sequence numbers,
\* held keys and their repeats, queued transitions, timers, sound, lamps and
\* replay log are what they were, whichever step failed and however much the
\* steps before it had done (Services.restoreAdvance).
FailedAdvanceChangesNothing == txn.outcome = "failed" => Snapshot = txn.before

\* An advance that succeeds leaves nothing behind that was due: no transition, no
\* repeat, no timer, no lamp.
AdvanceCatchesUp ==
  txn.outcome = "ok" =>
    /\ queued # <<>> => Head(queued).at > now
    /\ \A c \in ControlNames : Held(c) => controls[c].nextRepeat > now
    /\ DueTimers = {}
    /\ \A lamp \in Lamps : device[lamp].until = 0 \/ device[lamp].until > now

Transitions(c) == {e \in pending : e.kind \in {"press", "release"} /\ e.control = c}

\* The guest's view of a key never drifts from the host's: in delivery order the
\* pending presses and releases of a control alternate, starting from what the
\* guest has seen and ending with whether the control is held.
KeyEventsTellTheKey ==
  txn.step = "idle" =>
    \A c \in ControlNames :
      LET earlier(e) == {f \in Transitions(c) : Before(f, e)}
          alternates(e) == (e.kind = "press") =
            (IF Cardinality(earlier(e)) % 2 = 0 THEN ~seen[c] ELSE seen[c])
      IN  /\ \A e \in Transitions(c) : alternates(e)
          /\ Held(c) = IF Cardinality(Transitions(c)) % 2 = 0 THEN seen[c] ELSE ~seen[c]

\* Between advances every event on the bus is due, so a guest that takes events
\* can always empty a full bus: an advance refused for want of room is never
\* refused for good.
BusCanBeDrained == txn.step = "idle" => \A e \in pending : e.at <= now

\* A machine can be saved and loaded between any two operations: Services.Restore
\* finds nothing wrong with any state the host, the guest and advances, whether
\* they succeeded or were undone, leave behind.
SnapshotLoads == txn.step = "idle" => Restorable

\* An advance always returns: catching up with overdue repeats and timers ends.
AdvanceReturns == txn.step # "idle" ~> txn.step = "idle"

\* What the coalescing of repeats is said to cost ("a second one behind an
\* undelivered first carries nothing new"): when a repeat of the hold a pending
\* press began has fallen due, some repeat follows that press on the bus.
NoRepeatIsLost ==
  txn.step = "idle" =>
    \A p \in pending :
      /\ p.kind = "press" /\ Held(p.control)
      /\ \A f \in Transitions(p.control) : ~Before(p, f)
      /\ controls[p.control].nextRepeat > p.at + RepeatDelay
      => \E r \in pending : r.kind = "repeat" /\ r.control = p.control /\ Before(p, r)
=============================================================================
