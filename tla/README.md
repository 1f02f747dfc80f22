# aram-core: TLA+ specifications and proofs

aram-core runs feature-phone software (KTF and WIPI-C titles, SKVM Java, GVM,
GNEX32, BREW, whole firmware images) on a deterministic host. The guest machines
differ; the handset they see is one set of *shared runtime services* under
`runtime/`: object handles, an event bus, virtual time, input, timers, sound,
files, network, device state, a replay log, and a coordinator for lifecycle and
budgets. Above them a machine under `application/` drives one title, publishes its
sound and its requests to the host, and is paused, reset, saved and loaded.

This project models the services, the protocols between machine and host, and the
two cooperative schedulers titles run on (SKVM threads, KTF tasks): the state that
has to survive failed frames, slow hosts, saves, loads and replays, where a
mistake takes many steps to show. TLC checks every module on small instances;
most of them are also proved with TLAPS, for every value of their constants.

## 1. Inventory

| Part | State it keeps | Operations | Hard behaviour | Module |
|---|---|---|---|---|
| Service registry (`runtime/registry.go`) | next slot, generation per slot, live entries, sorted free list | Create, Transfer, Retain, Release, Destroy, Snapshot/Restore | slot reuse under stale handles, generation exhaustion, a free list that is rebuilt rather than saved | `Registry` |
| Event bus (`runtime/events.go`) | slice sorted by time and sequence, next sequence | Enqueue, PopReady, HasPendingRepeat, three kinds of drop, Snapshot/Restore | order under mixed timestamps, the bound, rollback whose error is discarded | `EventBus`, `EventQueue`, `OrderedQueue` |
| Coordinator (`runtime/coordinator.go`) | adapters with lifecycle, budget, fault; foreground, presentation owner, scheduler cursor | Register … Unregister, Transition, Fault, SetForeground, Consume, NextRunnable | announcements on a full bus, dangling owners, fairness of turns | `Coordinator` |
| Clock, input, timers, device, replay and the facade (`clock`, `input`, `timers`, `device`, `replay`, `services.go`) | virtual time, held keys and future transitions, timers, lamps, log | Advance, QueueInput, Define/Set/Cancel/Destroy, Vibrate/SetBacklight, SetMode | one transaction over six components with partial journals; repeats, boundaries, overflow | `Frame` |
| Network (`network`, `external`, `local_network.go`) | sockets, HTTP requests, serial ports, their buffers | open, connect, write, read, close; host answers; offline servers | late, repeated and refused answers; an answer of several steps that fails half-way; record and playback | `Network` |
| Storage (`storage*.go`, `persistence.go`) | files, directories, handles, packages, record stores, quotas | open … rename, mount, records, export/import | handles against rename and delete, parents made for a file that is then refused, clocks and record numbers across a reset | `Storage` |
| Media clips (`media.go`) | clips (bytes, position, state, plays, decoder, wait flag), background loop | 15 clip operations, advance, save, load | data that arrives while a clip plays, decoders that are found again on load | `Media` |
| Media output (`media_output.go`) | bounded queue of frames, timed spans, untimed head, remainder | mix, Drain, DrainTimed, invalidate, save, load | loss at the front, merged spans, rounding | `MediaOutput` |
| Audio presentation (`application/audio_presentation.go`) | generation, epoch, cursor, published chunks | publish, drain, start generation | two threads, two locks, revisions read before the lock | `Presentation` |
| External requests (`application/external_requests.go`, `device.go`) | the device's outbox, host numbers | Request, ExternalRequests, ClearExternalRequests, save, load, reset | sequence numbers that are rewound under late acknowledgements | `Outbox` |
| GNEX32 network (`gnex32/network.go`, `application/gnex32_*.go`) | guest socket, requests to the provider, events | NetConnect … NetSend, provider calls, pause, stop, reset, save, load | hang-ups against answers, resets under data in flight | `Transport` |
| SKVM threads (`skvm/threads.go` and natives) | thread states, clips, the Go stack | start, sleep, wait, notify, interrupt, play/stop/close, Advance | threads resumed inside each other's calls, waiters listed before they run | `Threads` |
| KTF tasks (`application/internal/ktf`, `machine_ktf.go`) | the table of tasks, pending calls, timers, paints, keys held back | RunTaskSlice, threads, java.util.Timer, cards, keys, WIPI-C callbacks | places that are reused under pointers, who may run beside whom, full tables | `KTFTasks` |
| Graphics, text, assets, score synthesis, codecs, interpreters, firmware, loaders, tools | pixels, samples, guest memory | computations | – | none, see section 5 |

How they interact. A machine's loop, on one goroutine, lets the guest run (calls
into the services), then calls `Services.Advance`, which moves clock, media,
input, timers, device and replay log in that order; whatever falls due becomes an
event on the shared bus, which the guest drains with `PopReady`. Every service
object is named by a registry ID and events name those IDs, so destroying an
object also removes its events. `Services.Snapshot`/`Restore` saves and loads all
of it, with a cross check of the references between components. Every operation
that can fail half-way either changes nothing or is rolled back. After an advance
the machine takes the mixed sound and publishes it under a second lock, which is
all the host's audio thread ever waits for; requests to the outside wait in
bounded queues until the host reads and acknowledges them.

What could go wrong, line by line, is the hazard list of `PROJECT.json`; the
properties in section 3 are there for it.

## 2. Modules

| Module | State ↔ code |
|---|---|
| `Registry`, `ServiceProofs` | the four fields of `Registry`; `issued` is a history of every ID returned. An ID is a slot and a generation (`types.go`). `MaxUint32` is the width of slots, generations and counts. |
| `EventQueue` | the bus as a set of events: order, bound, drops, coalescing. Used by the modules that have a bus. |
| `OrderedQueue` | what the bus promises: one step per operation on that set |
| `Selections`, `SelectionProofs` | the loops that compact a slice in place or make room in one, the sums of sizes, and what they return |
| `EventBus`, `ServiceProofs` | the sorted slice, binary search, compaction, snapshot buffer; refines `OrderedQueue` with `pending <- Range(events)` |
| `Coordinator`, `CoordinatorProofs` | fields of `Coordinator` and `AdapterState`, the bus it announces on (with other producers, the guest and a title's end), ghosts `taken` and `overtook` |
| `Frame`, `FrameProofs` | `txn` is the advance in progress: the step it is at and the journals (`rbEvents` … `rbReplay`). Each step of `Services.Advance` is an action, and each turn of its catch-up loops; a failing step leaves its partial change to `RestoreAdvance`. `seen` is what the guest concludes from delivered events. |
| `Network`, `ServiceProofs` | `net` holds the open descriptors, pending events, status and replay log, so that a rollback is an assignment of its old value, as in the code; `refused` marks a call that failed after it began |
| `Storage`, `StorageProofs` | `tree` (files and directories), `handles`, `stores`, the registered IDs; each file has an identity and each store the IDs of its life, as histories |
| `Media` | clips, the preserved loop, completions on the bus; an encoded buffer is what the decoders say of it (empty, wave, score, broken, prefix, partial). `starved` is a ghost. `AudioProofs` is about this module and the next two. |
| `MediaOutput` | the queue of frames (each carrying the guest time it was mixed for), spans, untimed head, remainder; `Ends` are the running sums of the spans' lengths |
| `Presentation` | extends `MediaOutput`: what `audioMu` guards, and the phase of the machine between advance and publish. `era` and `heard` are ghosts: which side of a discontinuity a frame is from, and what the host has taken. |
| `Outbox`, `HostProofs` | device requests, the map from device numbers to host numbers; ghosts number requests over all timelines |
| `Transport`, `HostProofs` | `runtime` is the network part of the GNEX32 runtime, `phase` who runs. `session`, `seen` and `open` are what the host knows. |
| `Threads`, `SchedulerProofs` | `threads` are the `threadState`s, `stack` what is on the Go stack: activations of threads and the loops that run several. Ghosts `turn`, `owed` and `silenced` |
| `KTFTasks`, `SchedulerProofs` | `rt` is the `Runtime`. A pointer to a task is its place in the table, or `Gone` once the place was given away; `detached` is the running task if its place was. |
| `MC*` | instances for TLC |

An operation that returns an error without changing anything is not a step. The
definition-by-definition correspondence is the `map` of `PROJECT.json`.

Abstractions worth knowing:

* Names, payloads and traces are left out; bytes are counted; controls and timers
  are small numbers, ordered as their names or IDs are. `MaxTime`, `MaxSequence`,
  `MaxOwner`, `LastToken` and `MaxRecordID` stand for integer limits the code
  checks; failing at them is modelled where the code handles it.
* `Frame` has one owner, one sound and no mixing; `Media` has the sounds, with
  one duration for everything that decodes. IDs are never reused outside
  `Registry`: that reuse is safe is what `Registry` shows. A refused `Advance` on
  a full bus in `Media` is no step: `Frame` shows that it leaves no trace.
* `Threads`: a load returns to a state that was saved, which is one already
  reached, so it is no action of its own; what a load checks is
  `SavedThreadsLoad`. A halted title, the collector, the fault on an overflowing
  sleep, clips that cannot be decoded (they do not park) and `play` of a paused
  clip (an error) are left out. `open` of a clip whose waiters play it again
  faults the title; that is `TitleFails`, after which the title starts again.
* `Transport`: a key that finds the bus full faults the machine with "limit", as a
  full request queue does. The guest's handler for the end of the title, called by
  `Stop`, is a guest step followed by `GuestExits`.
* `KTFTasks`: one Timer, one monitor, one Display. A title uses one of the sets of
  services in `Titles`, and its calls are counted (`MaxCalls`), because the table
  with all services at once is out of reach. Grabbed keys, key repeats, Java
  methods that the host calls to their end inside a call, the pacing of a quantum
  (`NextWakeWithin`, the limits on presentations) and the saved CPU contexts are
  left out. `due` in `Slice` is the millisecond in which a key put on the bus can
  be taken from it: the bus stamps it with the clock and `queueKTFInput` drains at
  the clock cut to milliseconds, so a key can lie on the bus for one slice,
  although the comment at `ktf_scheduler.go:499-507` says the bus never holds an
  input it cannot deliver. `CanBeSaved` is what `SaveState` asks for
  (`state.go:40-57`): a machine that stands still and has not faulted.

## 3. Runs

Parts that share nothing are explored in one run by a variable `part`, chosen in
the initial state: the reachable states are the union of the parts' states.
All bounds are named constants in the configurations.

| Run | Checks | Bounds, and why they are enough |
|---|---|---|
| `coordinator` | loadable, newest record survives, destroyed is final, nobody overtakes twice | two adapters at a time, four owners in all, so one leaves and another comes; a bus of two that others, one owner or both can fill. Announcements and budgets meet only in the lifecycles and are two parts. |
| `services` | registry: free list kept by a save, stale IDs dead. Bus: refines `OrderedQueue`, own snapshot accepted. Network: refused calls leave no trace, loadable with every queued event. Storage: handles follow their file, failures leave no trace, loadable, record IDs new until an adapter replaces a view | three slots of width 4, so every slot is used up; three events of three kinds and two times; one descriptor of each kind at a time and two in all, buffers of 2 of 3 bytes, bus and tape of 2, so each step of an answer fails in some behaviour; two directories that may be files with a file in each, one handle, quotas of 3; two stores of two records that share one byte, IDs to 4 |
| `frame` | failed advance changes nothing; a successful one catches up; key events tell the key; bus can be drained; loadable; every advance returns | two keys, one timer, one lamp, one sound, bus of two, log of one entry, four ticks: each step fails in some behaviour, overdue repeats and timers fire several times in one advance, input comes late and early |
| `audio` | clips: only paused appends starve, a save loads and sounds on. Queue: spans tell the frames. Machine: stream moves forward, one era per generation, chunks are where they say, changes reported once | three clips one after the other, so that a loop left behind by one meets the next, advances shorter than and over twice a clip. Frames of two ticks, queue of three, advances of 1, 5 and 9 ticks. A backlog of two frames, two discontinuities, a pause or a switch of the audio policy up to the second generation, also within a step, slack of one frame |
| `machines` | network: queue matches socket, only limits fault, dropped connections are told. Requests: tokens name one request, acknowledged were told. Threads: none runs twice, saves load, every due thread runs. Tasks: callbacks take turns, one worker per timer, blockers can run, one paint per card, only TimerTasks spoil a save | two sockets, three requests, two sessions; an outbox of two, four requests over all timelines, four tokens, so they run out; two threads, a monitor, an audio clip with three sources; a table of three tasks with one place kept for keys and one call waiting, so that it is full and its places are reused, two TimerTasks (one at a fixed rate), periodic and one-shot, one card, one key, one carrier callback, four calls of the title before it starts again (three where it uses cards and timers) |
| `repeat`, `media_starved`, `media_unloadable`, `audio_stolen`, `transport_stale`, `threads_release`, `tasks_unloadable` | **violated**, see below | as the runs above, or smaller |

`coordinator`, `audio` and `audio_stolen` do not check deadlock: owner IDs,
discontinuities and the clock are used up there, and nothing is left to do. The
other runs do.

Fairness. Only `Frame` has any: weak fairness of `AdvanceStep`. An advance is one
synchronous call, so once begun it goes on to its next step; nothing is assumed
of host or guest. `AdvanceReturns` says that the catch-up loops end. That a due
SKVM thread runs is stated without fairness, as an action property of the round
(`EveryDueThreadRuns`), and that held-back KTF threads are not stuck as an
invariant (`BlockersCanRun`): both rounds are loops of one call.

Each property has a mutant: a variant of a definition, kept beside it and named
in `PROJECT.json`, that a plausible slip would produce and that violates the
property in the same run.

### What the violated runs show

* `media_starved`: `Append` raises the wait flag only for a *playing* clip. Play,
  Pause, Append of bytes after which the WAV no longer parses, Resume: the clip
  plays with neither decoder nor flag and the next advance fails the tick, which
  the comment in `Append` says must not happen. `OnlyPausedAppendsStarve` shows
  that this is the only way.
* `media_unloadable`: `Seek` cannot bound a position while a score is not
  decoded; `Restore` decodes it and refuses the save.
* `repeat`: a repeat the guest has not taken yet swallows the repeats of a *later*
  hold of the same key, so the guest sees press, and no repeat, for as long as it
  lags.
* `audio_stolen`: `Machine.DrainAudio` drains Media on the host's thread and does not
  compare the output revision, as `publishAudioFromMedia` does. During a KTF slice,
  which runs without the machine's lock, it can come between the advance and the
  publication; if the guest invalidated before that advance, the new sound is
  published in the old generation. Without that call (`PresentationSpec`, run `audio`)
  it cannot happen.
* `transport_stale`: `Reset` starts the connection numbers at 1 again, so data for
  the connection before it passes the test for the one after it, if the host does
  not give up its connections at a reset (`HostForgets = FALSE`). In run
  `machines` the host forgets.
* `threads_release`: a waiter listed by an outer release, resumed by an inner one
  and parked again in `play` of the same clip is resumed by the outer one while
  the clip sounds.
* `tasks_unloadable`: a one-shot TimerTask counts as executed when its `run()`
  starts; a save taken while it sleeps holds a live callback that is not scheduled,
  and the loader refuses it. `OnlyTimerTasksSpoilASave` shows what else is needed
  for a KTF save to fail: a callback that cancels its own TimerTask is finished
  while it runs, and a repaint it asks for afterwards is kept for a task whose
  place may be another's.

Other things met while modelling that no run states:

* a card left dirty by a full KTF table is painted only when something asks again,
  although the comment promises a later quantum (`ktf_lwc.go:2359`); `showNotify`
  on a full table faults the title (`ktf_lwc.go:2327`); a task that ends by an
  uncaught exception loses the repaints it asked for, which the comment above
  `releaseTerminatedTask` keeps for the end of the title (`ktf_scheduler.go:1168`);
* `AudioClip.open` releases a clip's waiters before it replaces the source, and a
  waiter that plays the clip makes the replacement fail (`natives_skt.go:716`); a
  waiter whose clip stopped stays parked if another thread restarts the clip
  earlier in the same round (`threads.go:266`);
* `Pause` from another thread during a KTF slice sets a state the slice is about to
  overwrite (`application/machine.go:386`); the outcome depends on the CPU backend;
* the patches of one cheat are enabled one by one, with the engine's lock given up
  between them (`cheat/library.go:218`);
* `SetForeground` changes lifecycles without a record on the bus
  (`coordinator.go:240`); nothing in the production code calls it.

## 4. Proofs

The proofs assume only the named `ASSUME`s of the modules (limits are positive or natural numbers,
defaults within them, packages finite, thread references are positive numbers, keys are a namespace
and a path, nothing that is a clip, a control, a timer, a card, a thread or a queue stands for
none, a title has finitely many TimerTasks), which TLC
evaluates in the runs, and what two theorems state as a hypothesis.

**Registry.** Theorems `TypeCorrect`, `LosslessRestore`, `StaleForever`,
`CreateIsolated`. `RestoreIsLossless` is not inductive: that Create removes the
right index needs the free list sorted and without live slots, which needs every
entry to carry its slot's current generation. The invariant is the type invariant
with: used slots are exactly those below `nextSlot`; entries are current; the free
list is sorted, sound and complete; and no issued ID is above its slot's
generation. The last makes `StaleForever` and `CreateIsolated` follow for single
steps: a new ID has a generation above all issued ones of the slot. The lemmas on
the free list (removing an index, inserting at the searched one) are proved first,
on sequences.

**Coordinator.** Theorems `TypeCorrect`, `SnapshotsLoad`, `NewestRecordKept`,
`DestroyedForever`, `RoundRobin`, about the whole `Spec`. The invariant adds to
the type invariant: the number of adapters, budgets and faults of each adapter
sound; foreground, presentation owner and cursor registered or none; the bus
bounded, with events only of owners handed out and sequences already used; and
`NewestRecordSurvives` itself. The bound on the bus is what makes the last one
inductive: a transition is refused only when the *other* events fill the bus, and
then the owner had no record to lose. `RoundRobin` follows the ghosts: an adapter
that was overtaken and stayed runnable lies between the cursor and whoever
overtook it.

**Threads.** Theorems `ThreadsInvariant`, `OneActivation`, `SavedThreads`,
`RoundInvariant` and `DueThreadsRun`, for any number of threads, monitors and clips
and any depth of nesting. The first invariant (`ThreadsInv`):
a thread on the stack is active, holds no frames and is parked on nothing
(`StackOK`); off the stack it is active exactly if it has frames; a clip somebody
is parked on exists, *or the loop that closed it still has him on its list*
(`ThreadsOK`); and every open AudioClip has a media clip of its own (`ClipsOK`).
The middle one is what makes `SavedThreadsLoad` inductive: between the close of a
clip and the end of the release, threads are parked on a clip that is gone, and
only the empty stack shows that no such loop is left.

`EveryDueThreadRuns` is an action property of the step that ends a round, proved
from a second invariant beside the first (`RoundInv`): a thread that was due when
the round began keeps its frames and a deadline in the past, so it is not running;
and it is on the round's list, or its clip sounds, *or the loop that stopped the
clip has it on its list* (`Comes`). The third case is needed because a thread of the
round may stop, close or reopen a clip others are parked on: the round may have
passed them over while it sounded and does not come back, so only the release
loop can run them. The round's own loop is the outermost entry of the stack, hence
when it ends no release loop is left and the list is empty: what remains is a
thread whose clip sounds. That a notified thread is not running rests on a third
fact, that no thread on the stack is in a wait set (`RunningWaitOnNothing`).

**KTF tasks.** Theorems `KTFCallbacksTakeTurns`, `KTFOneWorkerPerTimer`,
`KTFBlockersCanRun`, `KTFOnePaintPerCard` and `KTFOnlyTimerTasksSpoilASave`, for any
size of the table and of the pending queue, any title, any cards, threads, timers,
periods and times; all five follow from one invariant (`TasksInv`, theorem
`TasksInvariant`). None of the five is inductive. A second callback of a TimerTask
could come from its timer's pointer, from the pending calls or from the callback
itself when it returns, so the invariant says of each callback that its timer knows it,
or that it is a one-shot that began (`Known`), and that a timer with a pending call
has no callback (`WaitingTimers`). A callback that has begun keeps the worker because it
comes first in the order of the scan, and a second one does not begin while it lives.
A task that holds a thread back is the running one or `Free`: none of its conditions
is set, and it has the worker if it needs it. That is why a blocker can run: a task
that parks itself has let its threads go in the same call, so it may set a condition
only when nobody waits for it (`Quiet`). What is left of finished tasks (`Marks`: a
card's paint, deferred cards) belongs to the running task or was left by a callback
that cancelled itself, which may have lost its place (`Gone`) while it runs; a title
that faulted may have more, which is why `OnlyTimerTasksSpoilASave` is about machines
that can be saved.

A call of a host function is a chain of changes to one runtime, so the proof is about
values and not about steps: `Sound(r)` is the invariant of such a value, `Keeps` and
`Follows` say what a change leaves alone (who is alive, who runs, which timers have
callbacks), and one lemma for each function of the code says that it preserves the
first and obeys the second. The loops over deferred cards, over pending calls and over
the timers of a cancelled Timer are recursive functions, whose every value the lemmas
`IterationExists` and `IterationHolds` reach. An action is then proved by chaining its
lemmas, up to `Leavable`, what `EndSlice` asks for.

**Storage.** Theorems `HandlesFollow`, `RecordIDsAreNew`, `StorageAlwaysLoads` and
`FailuresAreUndone`, for
any tree, any number of handles and stores and any limits. `HandlesFollowTheirFile`
is nearly inductive; what it needs besides is that everything moved has the shape
of a file, a handle or a key. The hard step is `RenameDirectory`: the model looks
up a moved file under the key it came from, so moving a key there and back must
give the key again (`MovedBack`, a lemma on sequences). For records the invariant
says that a store handed out IDs below the next one only, and that the records it
has were handed out or replaced by an adapter. `ReplaceRecords` accepts any next ID
above the new records, also a smaller one than before, so it begins a new life of the
store, whose history is the IDs in the new view: what was handed out before may come
again. The SKVM host calls it only to install the stores of a title, so a Java store has one
life. KTF mirrors a whole database with every change of it, under a next ID that is
the number of its records, and WIPI mirrors its own with its own next ID; how those two
number their records is not modelled.

What a snapshot is checked for needs a second invariant (`SnapshotInv`): files and
directories are finitely many different keys, each in directories that exist, none
from the future, their number and bytes within the limits; positions lie in a file
of the greatest size; and the service IDs are those of the handles and stores, each
one's own. Most operations change one key, and a lemma says what that does
to a tree (`FilePlaced`, `Fewer`, `EnsuredTree`). The hard ones move many:
`RenameDirectory` keeps the number and the bytes only because moving keys is
one-to-one and what is moved comes to new places, and the parents of a moved key are the
parents of the new directory or moved themselves (`Rearranged`,
`RenameDirectoryTree`). A restart loses the temporary files,
so what is exported together with the package is a part of the tree that was within
the limits, closed under parents: the import is always accepted
(`ImportAccepted`), and a reset never drops the player's files. That is the third
case of `FailuresAreUndone`; the first two are `putNewFile` taking back the directories
it made, for `WriteFile` and for `Open`.

**Event bus.** Theorems `SnapshotsAccepted` and `BusImplementsQueue`, for any bound,
any events and times. The invariant (`BusInv`) holds of the slice and of the
rollback buffer alike: the events are in strict order, and their sequences differ
and are below the next one. The last is what places an event that Enqueue inserts:
behind every event of its time. That the order is strict makes the head of the
slice the least of the set, so delivery from the slice is delivery from the set.
Compaction is proved on the positions that are kept (`SelectionProofs`).

**Network.** Theorems `NetworkAlwaysLoads` and `RefusalIsUndone`, for any limits,
sizes and answers, in any replay mode. A call checks the quotas for the one
descriptor it changes, `Restore` asks for them of all at once; the invariant
(`NetworkInv`) is that what `Restore` asks for holds, that descriptors, events and
log entries have their types, and that every event is about a descriptor that is
open. It is also what the second theorem rests on: `rollback` discards
`Restore`'s error, so it restores only because the old descriptors would be
accepted. A sum of sizes is written as a count (`TotalOf`), of which it can be
proved how it changes with one descriptor.

**Advance.** Theorems `FailureIsUndone`, `CaughtUp`, `KeysAreTold`, `DrainableBus` and
`AlwaysRestorable` about `Frame`, for any keys, timers, lamps, limits and times; all
five follow from one invariant (`FrameInv`). What has to hold of the services
(`ServicesOK`) is said a second time of the values an advance began with
(`BeforeOK`), and between the two stand the journals: every saved value is the old
one, and what is not saved has not changed (`ControlsJournaled`,
`QueuedJournaled`, `TimersJournaled`). Each turn of the catch-up loops keeps that,
so restoreAdvance computes the old values whatever failed (`Restored`), and the old
values were sound. `ProgressOK` says how far a step has come. Its hard part is the
order of key events: a due transition must go behind every event of its key on
the bus, which holds because transitions up to a mark were put there, the queued
ones are sorted, and all of them lie after the instant the advance began. That
presses and releases then alternate is an argument on parity (`KeyTurned` when one
is added at the end, `KeyTaken` when the guest takes the first).

**Requests to the host.** Theorems `TokensAreUnique` and `AcknowledgementsAreSafe`
about `Outbox`, over all resets and loads. The invariant (`OutboxInv`) says that the
device's requests are numbered in order, that the requests with a token are the
oldest ones, and that tokens grow with the requests they name; so an
acknowledgement, which works on the order, reaches only what had a token. A
mapping whose request was dropped or rewound is harmless because it stays with
the content and the history it was told under, or is deleted when the
application next looks.

**GNEX32 network.** Theorem `RequestsMatchSocket` holds with any host. Its invariant
(`NetInv`) describes the queue by the phase of the machine and the state of the
socket, for the runtime and its save; within a dispatch one event is taken from
the queue but not yet answered, which the invariant must know. `NetworkFaultsAreLimits` and
`HostClosesConnections` have the hypothesis `HostForgets`, that a host gives up its
connections at a reset or a load. It is needed: run `transport_stale` has a host that
does not, and connection numbers start again. With it, what the host has read is
what stands under that number in the queue (`SeenOK`), so its answers are never
out of order.

**Presented sound.** Theorems `StreamOnlyMovesForward`, `GenerationsHaveOneEra`,
`ChunksTellTheirPlace` and `GenerationsAreReportedOnce` about `PresentationSpec`, in
which the host does not call `Machine.DrainAudio`; with that call the second one
fails (run `audio_stolen`). The invariant (`PresentationInv`) relates four places: what
the host heard, the board of published chunks, the running cursor, and the frames
still in the media queue. A discontinuity is what parts the sound: an invalidation by
the guest (a seek, a change of gain), a reset, a load. `Pause`, `Stop` and
`SetAudioMixMode` begin a generation without one, also between the two halves of a KTF
step: `Media.SetAudioMixMode` only stores the flag, so frames mixed before and after
the switch are one era. The running cursor is less than one frame ahead of the
guest time that has been mixed; with a slack of a frame or more the next chunk is
therefore never placed before the last. Revisions only grow, and a generation is begun
before frames of a new revision reach the board.

**Media clips.** Theorems `OnlyPausedClipsStarve` and `ClipSnapshotsLoad`, for any number
of clips. The invariant (`ClipInv`) says what each clip's flags tell of its
buffer: a playing clip has a decoder, or waits for data that does not decode yet, or was
starved by an append while it was paused; and the preserved loop and the
completions belong to clips that are alive.

**Media output.** Theorem `SpansTellTheTime`, of the queue alone and of the machine
that drains it. That each span is less than a frame off its frames (`QueueTold`) is
not inductive: AddSpan may merge the next block into the last span. The invariant
adds that the last span, if it ends now, continues within a frame of the next
frame to be mixed (`LastContinues`); that frames carry the time they were mixed for and
the remainder is what is left of a frame makes the merge exact. Spans are found by
summing the lengths of those before, which is a recursive function: the proof
shows that such sums exist, grow, and survive losing the first spans. An advance is
assumed to be longer than zero, as those of the machines are
(`machine_ktf.go:89` returns before it when nothing is left).

Induction. The library's induction theorems cannot be used here (they take an
operator), but a set of numbers has a least one, and with that the proofs show by
the least counterexample what a recursive function (`Ends`) or a
count of positions (`Rank`) gives for every length.

Only model-checked: `AdvanceReturns`, a liveness property under fairness, which is
out of the prover's reach.

The type invariants and `CreateIsolated` are proved and not checked again by a run.

## 5. Not modelled

* Pixels, glyphs, samples, scores (`graphics*.go`, `text*.go`, `smaf*.go`, …):
  computations on data, with next to no control.
* CPU interpreters and the bytecode machines (`cpu`, `skvm`, `gvm`, `gnex32`): an
  instruction set is as large as its interpreter, and a model would be the
  interpreter again. What they hold between calls of the services (threads,
  sockets) is modelled.
* Firmware emulation (`system`, `systemmachine`): register maps and boot flows of
  particular handsets, whose correctness is agreement with hardware that the
  repository does not specify.
* ABI bridges (`application/internal/ktf`, `wipi`, `raptor`, `brewrt`): some
  thousand calls that read guest registers, call one service and write a result.
  Their state is guest memory.
* Loaders, parsers, codecs, profiles, quirks, tools: stateless, tables, or wrappers.
* Cheat engine and debug session: loops and calls under one mutex.
* `Input.SetFocus` and the clip state "recording", which nothing in the production
  code reaches.

These parts are by far the most of the repository's lines: the interpreters,
bridges and firmware alone are over two thirds. The share of lines that the map
covers is small for that reason; of `runtime/`'s control code it is most.

## 6. Running

    tlc -workers 2 -config MCServices.cfg MCServices
    tlapm SchedulerProofs.tla
    tlapm StorageProofs.tla
    tlapm ServiceProofs.tla
    tlapm FrameProofs.tla
    tlapm AudioProofs.tla

Each configuration is named after its module, except `MCRepeat.cfg` (`MCFrame`),
`MCMediaStarved.cfg` and `MCMediaUnloadable.cfg` (`MCMedia`),
`MCTransportStale.cfg` (`MCTransport`), `MCThreadsRelease.cfg` (`MCThreads`) and
`MCTasksUnloadable.cfg` (`MCTasks`). The passing runs take up to three
minutes each with two workers, each module of proofs up to five.
