------------------------------ MODULE KTFTasks ------------------------------
(* The task scheduler of a KTF title (application/internal/ktf): one table  *)
(* of cooperative tasks for Java threads, TimerTasks, card paints, key      *)
(* handlers and WIPI-C callbacks, and the machine's loop that feeds keys to *)
(* it and runs it slice by slice (application/machine_ktf.go).              *)
(*                                                                          *)
(* `rt` is the Runtime.  Its operators take a runtime and give the runtime  *)
(* after the call, in the order in which the code makes its calls.  Of a    *)
(* pointer to a Task the model keeps its place in the table, or Gone once   *)
(* the place was given to a new task; only a finished task loses its place. *)
EXTENDS Integers, Selections, SequencesExt

CONSTANTS
  MaxTasks,        \* the task table; the last place is kept for key handlers
  MaxPendingCalls, \* ktfMaxPendingJavaCalls
  Cards,           \* the cards of the title
  TimerTasks,      \* the java.util.TimerTask objects of its one java.util.Timer
  FixedRate,       \* those scheduled with scheduleAtFixedRate
  JavaThreads,     \* the java.lang.Thread objects
  Periods,         \* periods of its timers; 0: a one-shot
  MaxTick,         \* bound on TickMS
  MaxKeys,         \* bound on the keys that are under way
  MaxCallbacks,    \* bound on the carrier callbacks that wait
  MaxCalls,        \* for each title, the bound on its calls, keys and clips that end
  Titles           \* the sets of services that titles use together

Services == {"threads", "timers", "cards", "keys", "native"}

Gone == -1
Nobody == "nobody"
Off == -1

ASSUME TasksAssumption ==
  /\ MaxTasks \in Nat /\ MaxTasks >= 2 /\ MaxPendingCalls \in Nat
  /\ IsFiniteSet(TimerTasks) /\ FixedRate \subseteq TimerTasks /\ Periods \subseteq Nat
  /\ Nobody \notin Cards \cup TimerTasks \cup JavaThreads
  /\ MaxTick \in Nat /\ MaxKeys \in Nat /\ MaxCallbacks \in Nat
  /\ Titles \subseteq SUBSET Services /\ MaxCalls \in [Titles -> Nat]

VARIABLES
  rt,              \* the Runtime
  keysHeld,        \* Machine.input: keys not yet handed on
  calls,           \* how many calls were made, to bound them
  uses,            \* the services this title uses
  keysOnBus        \* the millisecond from which each key on the event bus is due

taskVars == <<rt, keysHeld, keysOnBus, calls, uses>>

\* A task that only runs its method: showNotify, layout, a listener, a Runnable.
PlainTask ==
  [done |-> FALSE, wake |-> 0, waits |-> FALSE, join |-> Nobody, thread |-> Nobody,
   timer |-> Nobody, period |-> 0, deadline |-> 0, started |-> FALSE,
   paint |-> Nobody, bestEffort |-> FALSE, wipic |-> FALSE, key |-> Nobody, layout |-> FALSE,
   blocker |-> 0, grace |-> FALSE, after |-> 0,
   cards |-> <<>>, shown |-> {}]

FinishedTask == [PlainTask EXCEPT !.done = TRUE]

StartedTitle ==
  [tasks |-> <<[PlainTask EXCEPT !.layout = TRUE]>>, cursor |-> 1,
   active |-> 0, detached |-> FinishedTask, orphans |-> {},
   pending |-> <<>>,
   card |-> Nobody, display |-> FALSE, dirty |-> {}, painted |-> {}, paintOf |-> [c \in Cards |-> 0],
   timerOf |-> [t \in TimerTasks |-> 0], status |-> [t \in TimerTasks |-> "new"],
   timerDead |-> FALSE, threads |-> {},
   wipicTimer |-> Off, carrier |-> 0,
   presented |-> FALSE, inputWaiting |-> FALSE, tick |-> 0,
   ended |-> FALSE, fault |-> "none"]

TasksInit == rt = StartedTitle /\ keysHeld = 0 /\ keysOnBus = <<>> /\ calls = 0 /\ uses \in Titles

Fail(r, why) == IF r.fault = "none" THEN [r EXCEPT !.fault = why] ELSE r

(***************************************************************************)
(* The table                                                               *)
(***************************************************************************)
Living(r) == {i \in DOMAIN r.tasks : ~r.tasks[i].done}

\* nextJavaTaskIndex; 0: none.
FreePlace(r, limit) ==
  LET finished == {i \in DOMAIN r.tasks : r.tasks[i].done /\ i <= limit}
  IN IF finished # {} THEN Min(finished)
     ELSE IF Len(r.tasks) < limit THEN Len(r.tasks) + 1 ELSE 0

BackgroundLimit == MaxTasks - 1
HasBackgroundCapacity(r) == FreePlace(r, BackgroundLimit) # 0

\* The task at place i is replaced: what pointed to it points to a task that is
\* no longer in the table.  orphans names the timers of replaced tasks for which
\* deferredPaintCards still has an entry.
Placed(r, i, task) ==
  LET Moved(p) == IF p = i THEN Gone ELSE p
      old == r.tasks[i]
  IN IF i > Len(r.tasks) THEN [r EXCEPT !.tasks = Append(@, task)]
     ELSE [r EXCEPT
       !.tasks = [k \in DOMAIN r.tasks |->
                    IF k = i THEN task
                    ELSE [r.tasks[k] EXCEPT !.blocker = Moved(@), !.after = Moved(@)]],
       !.paintOf = [c \in Cards |-> Moved(r.paintOf[c])],
       !.timerOf = [t \in TimerTasks |-> Moved(r.timerOf[t])],
       !.active = Moved(@),
       !.detached = IF r.active = i THEN old ELSE @,
       !.orphans = IF r.active # i /\ old.cards # <<>> THEN @ \cup {old.timer} ELSE @]

\* queueJavaVirtualTaskWithin, where there is room.
Queued(r, limit, task) == Placed(r, FreePlace(r, limit), task)

TaskAt(r, p) == IF p = Gone THEN r.detached ELSE r.tasks[p]
WithTask(r, p, task) ==
  IF p = Gone THEN [r EXCEPT !.detached = task] ELSE [r EXCEPT !.tasks[p] = task]
ActiveTask(r) == TaskAt(r, r.active)
WithActive(r, task) == WithTask(r, r.active, task)

Deferred(r, call) ==
  IF Len(r.pending) >= MaxPendingCalls THEN Fail(r, "pending")
  ELSE [r EXCEPT !.pending = Append(@, call)]

PendingCall(thread) == [thread |-> thread, timer |-> Nobody, period |-> 0, deadline |-> 0, wake |-> 0]

QueueJavaVirtual(r) ==
  IF HasBackgroundCapacity(r) THEN Queued(r, BackgroundLimit, PlainTask)
  ELSE Deferred(r, PendingCall(Nobody))

(***************************************************************************)
(* Tasks that hold others back, and how a task's traces are removed        *)
(***************************************************************************)
ReleaseStartedThreads(r, p) ==
  LET released == [r EXCEPT !.tasks = [k \in DOMAIN r.tasks |->
                     IF r.tasks[k].blocker = p THEN [r.tasks[k] EXCEPT !.blocker = 0]
                                               ELSE r.tasks[k]]]
  IN WithTask(released, p, [TaskAt(released, p) EXCEPT !.grace = FALSE])

ReleaseTerminatedTask(r, p) ==
  LET released == ReleaseStartedThreads(r, p)
      cleared == WithTask(released, p, [TaskAt(released, p) EXCEPT !.cards = <<>>, !.shown = {}])
  IN [cleared EXCEPT !.paintOf = [c \in Cards |-> IF @[c] = p THEN 0 ELSE @[c]]]

(***************************************************************************)
(* Cards                                                                   *)
(***************************************************************************)
KeyTasks(r, c) == {i \in Living(r) : r.tasks[i].key = c}
WipicTasks(r) == {i \in Living(r) : r.tasks[i].wipic}
PaintIsLive(r, c) == r.paintOf[c] > 0 /\ ~r.tasks[r.paintOf[c]].done

DeferCardPaint(r, p, c, show) ==
  LET task == TaskAt(r, p)
  IN WithTask(r, p, [task EXCEPT !.shown = IF show THEN @ \cup {c} ELSE @,
                                 !.cards = IF c \in ToSet(@) THEN @ ELSE Append(@, c)])

NotifyCardShown(r) ==
  IF HasBackgroundCapacity(r) THEN Queued(r, BackgroundLimit, PlainTask) ELSE Fail(r, "showNotify")

\* A key that waits at the machine runs before a card is painted again.
KeyGoesFirst(r, c) ==
  r.inputWaiting /\ c \in r.painted /\ c = r.card /\ WipicTasks(r) = {}

QueuePaint(r, c) ==
  LET place == FreePlace(r, BackgroundLimit)
      queued == Queued([r EXCEPT !.dirty = @ \ {c}, !.paintOf[c] = 0], BackgroundLimit,
                       [PlainTask EXCEPT !.paint = c, !.bestEffort = c \notin r.painted])
  IN [queued EXCEPT !.paintOf[c] = place]

PaintCardAgain(r, c) ==
  IF c \notin r.dirty \/ KeyTasks(r, c) # {} \/ ~HasBackgroundCapacity(r) THEN r ELSE QueuePaint(r, c)
PaintCard(r, c) ==
  IF c \notin r.dirty THEN r
  ELSE IF KeyTasks(r, c) # {} THEN DeferCardPaint(r, Min(KeyTasks(r, c)), c, FALSE)
  ELSE IF PaintIsLive(r, c) THEN [r EXCEPT !.dirty = @ \ {c}]
  ELSE IF ~HasBackgroundCapacity(r) \/ KeyGoesFirst(r, c) THEN r ELSE QueuePaint(r, c)

ReleaseCard(r, c, shown) ==
  LET announced == IF shown THEN NotifyCardShown(r) ELSE r
  IN IF announced.fault # "none" THEN announced ELSE PaintCard(announced, c)

ReleaseDeferredCardPaints(r, p) ==
  LET task == TaskAt(r, p)
      cleared == WithTask(r, p, [task EXCEPT !.cards = <<>>, !.shown = {}])
      After[n \in 0 .. Len(task.cards)] ==
        IF n = 0 THEN cleared
        ELSE ReleaseCard(After[n - 1], task.cards[n], task.cards[n] \in task.shown)
  IN After[Len(task.cards)]

(***************************************************************************)
(* java.util.Timer                                                         *)
(***************************************************************************)
TimerCall(t, period, deadline, wake) ==
  [thread |-> Nobody, timer |-> t, period |-> period, deadline |-> deadline, wake |-> wake]

\* queueJavaVirtualTask followed by applyJavaTimer
QueuedTimer(r, call) ==
  LET place == FreePlace(r, BackgroundLimit)
      queued == Queued(r, BackgroundLimit,
                       [PlainTask EXCEPT !.timer = call.timer, !.period = call.period,
                                         !.deadline = call.deadline, !.wake = call.wake])
  IN [queued EXCEPT !.timerOf[call.timer] = place]

QueueJavaTimerTask(r, call) ==
  IF HasBackgroundCapacity(r) THEN QueuedTimer(r, call) ELSE Deferred(r, call)

\* A one-shot TimerTask counts as executed as soon as it starts.
BeginJavaTimerTask(r, i) ==
  LET t == r.tasks[i].timer
  IN IF t = Nobody \/ r.tasks[i].period # 0 \/ r.timerOf[t] # i \/ r.status[t] # "scheduled" THEN r
     ELSE [r EXCEPT !.timerOf[t] = 0, !.status[t] = "executed"]

\* The callback of the active task returned.
CompleteJavaTimerTask(r) ==
  LET task == ActiveTask(r)
      t == task.timer
      deadline == task.period + (IF t \in FixedRate THEN task.deadline ELSE r.tick)
      again == QueueJavaTimerTask(r, TimerCall(t, task.period, deadline, deadline))
  IN IF t = Nobody \/ r.timerOf[t] # r.active THEN r
     ELSE IF task.period = 0 THEN [r EXCEPT !.timerOf[t] = 0, !.status[t] = "executed"]
     ELSE IF r.status[t] # "scheduled" THEN r
     ELSE again

\* Both kinds of cancel end the callback of t, if it has a task, at once.
CancelledCallback(r, t) ==
  LET p == r.timerOf[t]
      finished == [WithTask(r, p, [TaskAt(r, p) EXCEPT !.done = TRUE]) EXCEPT !.timerOf[t] = 0]
  IN IF p = 0 THEN r
     ELSE IF p = Gone THEN [r EXCEPT !.timerOf[t] = 0]
     ELSE ReleaseDeferredCardPaints(ReleaseStartedThreads(finished, p), p)

WithoutPendingTimers(r, S) ==
  [r EXCEPT !.pending = Pick(@, {k \in DOMAIN @ : @[k].timer \notin S})]

EarliestHasTheWorker(r, i) ==
  \A j \in Living(r) : r.tasks[j].timer # Nobody => r.tasks[i].deadline <= r.tasks[j].deadline
\* canRunJavaTimerTask: the Timer's worker belongs to the callback that started,
\* else to the one with the earliest deadline.
HasTheWorker(r, i) ==
  LET callbacks == {j \in Living(r) : r.tasks[j].timer # Nobody}
      Before(j, k) ==
        LET a == r.tasks[j]  b == r.tasks[k]
        IN IF a.started # b.started THEN a.started
           ELSE a.deadline < b.deadline \/ (a.deadline = b.deadline /\ j <= k)
  IN r.tasks[i].timer = Nobody \/ \A j \in callbacks : Before(i, j)

(***************************************************************************)
(* Choosing a task                                                         *)
(***************************************************************************)
ThreadAlive(r, h) ==
  \/ \E i \in Living(r) : r.tasks[i].thread = h
  \/ \E k \in DOMAIN r.pending : r.pending[k].thread = h

IsDone(r, p) == p = Gone \/ r.tasks[p].done

\* What the scan does to a task it looks at: conditions that are over are cleared.
Looked(r, i) ==
  LET task == r.tasks[i]
      expired == task.wake # 0 /\ task.wake <= r.tick
  IN [task EXCEPT
        !.join = IF @ # Nobody /\ ~ThreadAlive(r, @) THEN Nobody ELSE @,
        !.blocker = IF @ # 0 /\ (IsDone(r, @) \/ ~r.tasks[@].grace) THEN 0 ELSE @,
        !.wake = IF expired THEN 0 ELSE @,
        !.waits = @ /\ ~expired,
        !.after = IF @ # 0 /\ IsDone(r, @) THEN 0 ELSE @]

Runnable(r, i) ==
  LET task == Looked(r, i)
  IN /\ ~task.done /\ task.blocker = 0 /\ task.join = Nobody /\ ~task.waits
     /\ task.wake = 0 /\ task.after = 0 /\ HasTheWorker(r, i)

\* nextRunnableTask from the cursor on, and what RunTaskSlice does to the task
\* before its code runs.
Distance(r, i) == (i - r.cursor) % Len(r.tasks)
BeginTask(r) ==
  LET ready == {i \in DOMAIN r.tasks : Runnable(r, i)}
      first == CHOOSE i \in ready : \A j \in ready : Distance(r, i) <= Distance(r, j)
      scanned == IF ready = {} THEN DOMAIN r.tasks
                 ELSE {i \in DOMAIN r.tasks : Distance(r, i) <= Distance(r, first)}
      Seen(i) == IF i \in scanned THEN Looked(r, i) ELSE r.tasks[i]
      Begun(i) == IF i = first THEN [Seen(i) EXCEPT !.started = r.tasks[i].timer # Nobody] ELSE Seen(i)
      begun == [r EXCEPT !.tasks = [i \in DOMAIN r.tasks |-> Begun(i)]]
  IN IF ready = {} THEN [r EXCEPT !.tasks = [i \in DOMAIN r.tasks |-> Seen(i)]]
     ELSE [BeginJavaTimerTask(begun, first)
             EXCEPT !.active = first, !.cursor = (first % Len(r.tasks)) + 1]

\* ActivatePendingJavaCalls, one call at a time.
ActivateCall(r) ==
  LET call == Head(r.pending)
      rest == [r EXCEPT !.pending = Tail(@)]
  IN IF r.pending = <<>> \/ ~HasBackgroundCapacity(r) THEN r
     ELSE IF call.timer = Nobody
          THEN Queued(rest, BackgroundLimit, [PlainTask EXCEPT !.thread = call.thread])
     ELSE IF r.status[call.timer] = "scheduled" THEN QueuedTimer(rest, call) ELSE rest

ActivatePendingJavaCalls(r) ==
  LET After[n \in 0..MaxPendingCalls] == IF n = 0 THEN r ELSE ActivateCall(After[n - 1])
  IN After[MaxPendingCalls]

\* activateDueWIPICTimers: a carrier callback before a timer, one at a time, and
\* none while a key handler runs.
ActivateDueWIPICTimers(r) ==
  LET callback == Queued(r, BackgroundLimit, [PlainTask EXCEPT !.wipic = TRUE])
  IN IF \/ \E i \in Living(r) : r.tasks[i].wipic \/ r.tasks[i].key # Nobody
        \/ ~HasBackgroundCapacity(r) THEN r
     ELSE IF r.carrier > 0 THEN [callback EXCEPT !.carrier = @ - 1]
     ELSE IF r.wipicTimer # Off /\ r.wipicTimer <= r.tick
          THEN [callback EXCEPT !.wipicTimer = Off]
     ELSE r

(***************************************************************************)
(* Keys                                                                    *)
(***************************************************************************)
HasTaskCapacity(r) == FreePlace(r, MaxTasks) # 0

CanQueueKeyBesideCallback(r) ==
  r.card # Nobody /\ KeyTasks(r, r.card) = {} /\ HasTaskCapacity(r) /\ ~PaintIsLive(r, r.card)
CanQueueKeyEvent(r) ==
  /\ r.card # Nobody /\ KeyTasks(r, r.card) = {} /\ WipicTasks(r) = {} /\ HasTaskCapacity(r)
  /\ PaintIsLive(r, r.card) =>
       LET paint == r.tasks[r.paintOf[r.card]]
       IN paint.waits /\ (paint.wake = 0 \/ paint.wake > r.tick)

CanAwaitEvents(r) == ~r.ended /\ (r.card # Nobody \/ r.wipicTimer # Off)

\* queueKeyEdge of a key nobody grabbed: the handler takes over a repaint that
\* was held back for it.
QueueKeyEdge(r) ==
  LET place == FreePlace(r, MaxTasks)
      queued == Queued(r, MaxTasks, [PlainTask EXCEPT !.key = r.card])
  IN IF r.card \in r.dirty THEN DeferCardPaint(queued, place, r.card, FALSE) ELSE queued

(***************************************************************************)
(* Slices                                                                  *)
(***************************************************************************)
BetweenSlices == rt.active = 0 /\ rt.fault = "none" /\ ~rt.ended
InTask == rt.active # 0

\* Nobody reads these fields of a finished task.
Settled(task) ==
  IF task.done THEN [FinishedTask EXCEPT !.blocker = task.blocker, !.cards = task.cards,
                                         !.shown = task.shown, !.timer = task.timer]
  ELSE task

EndSlice(r) ==
  [r EXCEPT !.active = 0, !.detached = FinishedTask,
            !.orphans = IF r.active = Gone /\ r.detached.cards # <<>> THEN @ \cup {r.detached.timer}
                        ELSE @,
            !.tasks = [i \in DOMAIN r.tasks |-> Settled(r.tasks[i])]]

\* A slice with nothing left to run stops the machine, unless a card or a timer
\* can still bring work.
StopIfOver(r) == [r EXCEPT !.ended = @ \/ (Living(r) = {} /\ ~CanAwaitEvents(r))]

\* queueKTFInput, then RunTaskSlice up to the first instruction of a task.  The
\* bus stamps a key with the clock, which may be ahead of TickMS by less than a
\* millisecond.
Slice(due) ==
  LET dropped == keysHeld > 0 /\ rt.display /\ ~CanAwaitEvents(rt)
      offered == keysHeld > 0 /\ ~dropped /\ CanQueueKeyEvent(rt)
      held == IF dropped \/ offered THEN keysHeld - 1 ELSE keysHeld
      bus == IF offered THEN Append(keysOnBus, due) ELSE keysOnBus
      told == [rt EXCEPT !.inputWaiting = held > 0]
      delivered == bus # <<>> /\ Head(bus) <= rt.tick /\ CanQueueKeyEvent(told)
      keyed == IF delivered THEN QueueKeyEdge(told) ELSE told
      begun == BeginTask(ActivateDueWIPICTimers(ActivatePendingJavaCalls(keyed)))
  IN /\ BetweenSlices /\ due \in {rt.tick, rt.tick + 1} /\ (~offered => due = rt.tick)
     /\ rt' = IF begun.active = 0 THEN StopIfOver(EndSlice(begun)) ELSE begun
     /\ keysHeld' = held
     /\ keysOnBus' = IF delivered THEN Tail(bus) ELSE bus
     /\ UNCHANGED calls

CountCall == calls < MaxCalls[uses] /\ calls' = calls + 1

\* A host call of the active task, which goes on unless the call failed.
Continue(r) ==
  /\ InTask
  /\ rt' = IF r.fault = "none" THEN r ELSE EndSlice(r)
  /\ CountCall /\ UNCHANGED <<keysHeld, keysOnBus>>

YieldKeepsThreads(r) ==
  /\ InTask /\ rt' = EndSlice(ReleaseDeferredCardPaints(r, r.active))
  /\ CountCall /\ UNCHANGED <<keysHeld, keysOnBus>>
\* A host call that asked for a yield ends the slice when it returns.
Yield(r) ==
  LET released == ReleaseStartedThreads(r, r.active)
  IN /\ InTask
     /\ rt' = EndSlice(ReleaseDeferredCardPaints(released, released.active))
     /\ CountCall /\ UNCHANGED <<keysHeld, keysOnBus>>

\* The instruction budget is spent; so may be the grace of the threads it started.
BudgetEnds(graceSpent) ==
  /\ InTask /\ (graceSpent => ActiveTask(rt).grace)
  /\ rt' = EndSlice(IF graceSpent THEN ReleaseStartedThreads(rt, rt.active) ELSE rt)
  /\ UNCHANGED <<keysHeld, keysOnBus, calls>>

LayoutOnReturn(r) ==
  IF ~ActiveTask(r).layout THEN r
  ELSE IF HasBackgroundCapacity(r) THEN Queued(r, BackgroundLimit, PlainTask)
  ELSE Fail(r, "layout")

PresentOnReturnKeepsTask(r) ==
  LET c == ActiveTask(r).paint
  IN IF c = Nobody \/ r.fault # "none" THEN r
     ELSE [r EXCEPT !.painted = @ \cup {c}, !.presented = TRUE]
PresentOnReturn(r) ==
  LET c == ActiveTask(r).paint
  IN IF c = Nobody \/ r.fault # "none" THEN r
     ELSE [r EXCEPT !.painted = @ \cup {c}, !.presented = TRUE,
                    !.paintOf[c] = IF @ = r.active THEN 0 ELSE @]

TaskReturns ==
  LET finished == WithActive(rt, [ActiveTask(rt) EXCEPT !.done = TRUE])
      completed == CompleteJavaTimerTask(finished)
      laidOut == LayoutOnReturn(ReleaseStartedThreads(completed, completed.active))
      painted == IF laidOut.fault # "none" THEN laidOut
                 ELSE ReleaseDeferredCardPaints(laidOut, laidOut.active)
  IN /\ InTask
     /\ rt' = StopIfOver(EndSlice(PresentOnReturn(painted)))
     /\ UNCHANGED <<keysHeld, keysOnBus, calls>>

\* An exception that no guest code catches ends the first paint of a card
\* quietly, and otherwise the task alone, unless it was the last one of a title
\* that never showed anything.
TaskThrows ==
  LET task == ActiveTask(rt)
      finished == WithActive(rt, [task EXCEPT !.done = TRUE])
      discarded == [ReleaseStartedThreads(finished, rt.active) EXCEPT !.paintOf[task.paint] = 0]
  IN /\ InTask
     /\ rt' = StopIfOver(EndSlice(
          IF task.bestEffort THEN ReleaseDeferredCardPaints(discarded, rt.active)
          ELSE IF Living(finished) # {} \/ rt.presented THEN ReleaseTerminatedTask(finished, rt.active)
          ELSE Fail(rt, "exception")))
     /\ UNCHANGED <<keysHeld, keysOnBus, calls>>

(***************************************************************************)
(* Host calls of the active task                                           *)
(***************************************************************************)
\* Thread.start: the new thread waits until its parent yields, returns or has
\* used up its grace.
StartJavaThread(h) ==
  LET started == [rt EXCEPT !.threads = @ \cup {h}]
      place == FreePlace(rt, BackgroundLimit)
      thread == [PlainTask EXCEPT !.thread = h]
      parent == ActiveTask(rt)
  IN /\ InTask /\ h \notin rt.threads
     /\ Continue(
          IF place = 0 THEN Deferred(started, PendingCall(h))
          ELSE IF parent.done THEN Queued(started, BackgroundLimit, thread)
          ELSE Queued(WithActive(started, [parent EXCEPT !.grace = TRUE]), BackgroundLimit,
                      [thread EXCEPT !.blocker = rt.active]))

JoinJavaThread(h) ==
  /\ InTask /\ ThreadAlive(rt, h)
  /\ Yield(WithActive(rt, [ActiveTask(rt) EXCEPT !.join = h]))

\* Thread.sleep; sleep(0) and yield only give the turn away.
SleepThread(delay) ==
  /\ InTask
  /\ Yield(WithActive(rt, [ActiveTask(rt) EXCEPT !.wake = IF delay = 0 THEN @ ELSE rt.tick + delay]))

WaitJavaObject(delay) ==
  /\ InTask
  /\ Yield(WithActive(rt, [ActiveTask(rt) EXCEPT
                             !.waits = TRUE, !.wake = IF delay = 0 THEN 0 ELSE rt.tick + delay]))

NotifyJavaObject(all) ==
  LET waiters == {i \in Living(rt) : rt.tasks[i].waits}
      woken == IF all THEN waiters ELSE {i \in waiters : \A j \in waiters : i <= j}
  IN /\ waiters # {}
     /\ Continue([rt EXCEPT !.tasks = [i \in DOMAIN rt.tasks |->
          IF i \in woken THEN [rt.tasks[i] EXCEPT !.waits = FALSE, !.wake = 0] ELSE rt.tasks[i]]])

Repaint(c) ==
  /\ InTask
  /\ Continue(DeferCardPaint([rt EXCEPT !.dirty = @ \cup {c}], rt.active, c, FALSE))

\* serviceRepaints paints inside the call, unless a paint of the card is under way.
ServiceRepaints(c) ==
  /\ InTask /\ c \in rt.dirty /\ ~PaintIsLive(rt, c)
  /\ \/ Yield([rt EXCEPT !.dirty = @ \ {c}, !.painted = @ \cup {c}, !.presented = TRUE])
     \/ c \notin rt.painted /\ Continue([rt EXCEPT !.dirty = @ \ {c}])

PushCard(c) ==
  /\ InTask
  /\ Continue(DeferCardPaint([rt EXCEPT !.card = c, !.display = TRUE, !.dirty = @ \cup {c}],
                             rt.active, c, TRUE))

\* removeAllCards, popCard and removeCard
RemoveCards == rt.card # Nobody /\ Continue([rt EXCEPT !.card = Nobody])

SetDockedCard(c) == Continue([rt EXCEPT !.card = c, !.display = TRUE, !.dirty = @ \cup {c}])

\* A Runnable does not start before the paint that was under way is over.
CallSerially ==
  LET place == FreePlace(rt, BackgroundLimit)
  IN Continue(
       IF rt.card # Nobody /\ PaintIsLive(rt, rt.card) /\ place # 0
       THEN Queued(rt, BackgroundLimit, [PlainTask EXCEPT !.after = rt.paintOf[rt.card]])
       ELSE QueueJavaVirtual(rt))

Schedule(t, delay, period) ==
  LET deadline == rt.tick + delay
      scheduled == [rt EXCEPT !.status[t] = "scheduled"]
      wake == IF delay = 0 THEN 0 ELSE deadline
  IN /\ ~rt.timerDead /\ rt.status[t] = "new"
     /\ Continue(QueueJavaTimerTask(scheduled, TimerCall(t, period, deadline, wake)))

CancelTimerTask(t) ==
  Continue([WithoutPendingTimers(CancelledCallback(rt, t), {t}) EXCEPT !.status[t] = "cancelled"])

\* Timer.cancel goes through its tasks in the order of a Go map.
CancelTimer(order) ==
  LET waiting == {rt.pending[k].timer : k \in DOMAIN rt.pending} \cap TimerTasks
      cancelled == ToSet(order) \cup waiting
      After[n \in 0 .. Len(order)] ==
        IF n = 0 THEN [rt EXCEPT !.timerDead = TRUE] ELSE CancelledCallback(After[n - 1], order[n])
      ended == After[Len(order)]
  IN /\ order \in SetToSeqs({t \in TimerTasks : rt.timerOf[t] # 0})
     /\ Continue([WithoutPendingTimers(ended, waiting) EXCEPT
          !.status = [t \in TimerTasks |-> IF t \in cancelled THEN "cancelled" ELSE @[t]]])

\* MC_knlSetTimer, MC_knlUnsetTimer, and connecting to a network that is not there
SetTimer(delay) == Continue([rt EXCEPT !.wipicTimer = rt.tick + delay])
UnsetTimer == rt.wipicTimer # Off /\ Continue([rt EXCEPT !.wipicTimer = Off])
ConnectNetwork == rt.carrier < MaxCallbacks /\ Continue([rt EXCEPT !.carrier = @ + 1])

\* A submitted frame is a scheduler boundary.
Present == InTask /\ Yield([rt EXCEPT !.presented = TRUE])

\* notifyDestroyed, MC_knlExit: every task in the table is done, and what
\* releaseTerminatedTask clears of each is cleared.
RequestTermination ==
  LET Cleared(p) == IF p \in DOMAIN rt.tasks THEN 0 ELSE p
      Ended(task) == [task EXCEPT !.done = TRUE, !.blocker = Cleared(@), !.grace = FALSE,
                                  !.cards = <<>>, !.shown = {}]
  IN /\ InTask
     /\ rt' = EndSlice([rt EXCEPT !.tasks = [i \in DOMAIN @ |-> Ended(@[i])],
                                  !.paintOf = [c \in Cards |-> Cleared(@[c])],
                                  !.pending = <<>>, !.ended = TRUE])
     /\ UNCHANGED <<keysHeld, keysOnBus, calls>>

(***************************************************************************)
(* The host                                                                *)
(***************************************************************************)
PressKey ==
  /\ rt.active = 0 /\ keysHeld + Len(keysOnBus) < MaxKeys /\ CountCall
  /\ keysHeld' = keysHeld + 1
  /\ UNCHANGED <<rt, keysOnBus>>

\* A clip ends: its Java listener is called, or its native callback waits.
CompleteMedia ==
  /\ BetweenSlices /\ CountCall
  /\ \/ rt' = QueueJavaVirtual(rt)
     \/ rt.carrier < MaxCallbacks /\ rt' = [rt EXCEPT !.carrier = @ + 1]
  /\ UNCHANGED <<keysHeld, keysOnBus>>

AdvanceTick ==
  /\ BetweenSlices /\ rt.tick < MaxTick
  /\ rt' = [rt EXCEPT !.tick = @ + 1]
  /\ UNCHANGED <<keysHeld, keysOnBus, calls>>

RestartTitle ==
  /\ rt.active = 0
  /\ rt' = StartedTitle /\ keysHeld' = 0 /\ keysOnBus' = <<>> /\ calls' = 0

ThreadCalls ==
  \/ \E h \in JavaThreads : StartJavaThread(h) \/ JoinJavaThread(h)
  \/ \E delay \in {0, 1} : WaitJavaObject(delay)
  \/ \E all \in BOOLEAN : NotifyJavaObject(all)

TimerCalls ==
  \/ \E t \in TimerTasks :
       CancelTimerTask(t) \/ (\E delay \in {0, 1}, period \in Periods : Schedule(t, delay, period))
  \/ \E order \in SetToSeqs({t \in TimerTasks : rt.timerOf[t] # 0}) : CancelTimer(order)

CardCalls ==
  \/ \E c \in Cards : Repaint(c) \/ ServiceRepaints(c) \/ PushCard(c) \/ SetDockedCard(c)
  \/ RemoveCards \/ CallSerially

NativeCalls == (\E delay \in {0, 1} : SetTimer(delay)) \/ UnsetTimer \/ ConnectNetwork \/ Present

TasksNext ==
  /\ UNCHANGED uses
  /\ \/ \E due \in 0..MaxTick + 1 : Slice(due)
     \/ TaskReturns \/ TaskThrows \/ RequestTermination
     \/ \E graceSpent \in BOOLEAN : BudgetEnds(graceSpent)
     \/ \E delay \in {0, 1} : SleepThread(delay)
     \/ "threads" \in uses /\ ThreadCalls
     \/ "timers" \in uses /\ TimerCalls
     \/ "cards" \in uses /\ CardCalls
     \/ "native" \in uses /\ (NativeCalls \/ CompleteMedia)
     \/ "keys" \in uses /\ PressKey
     \/ AdvanceTick \/ RestartTitle

TasksSpec == TasksInit /\ [][TasksNext]_taskVars

(***************************************************************************)
(* Properties                                                              *)
(***************************************************************************)
\* WIPI-C callbacks and key handlers of one card take turns: whatever waits,
\* sleeps or is held back, no two of them are alive at once.
CallbacksTakeTurns ==
  /\ Cardinality(WipicTasks(rt)) <= 1
  /\ \A c \in Cards : Cardinality(KeyTasks(rt, c)) + Cardinality(WipicTasks(rt)) <= 1

\* A Timer never has two started callbacks alive, nor a TimerTask two callbacks,
\* though callbacks sleep, schedule and cancel each other while they run.
OneWorkerPerTimer ==
  LET callbacks == {i \in Living(rt) : rt.tasks[i].timer # Nobody}
  IN /\ Cardinality({i \in callbacks : rt.tasks[i].started}) <= 1
     /\ \A i, j \in callbacks : rt.tasks[i].timer = rt.tasks[j].timer => i = j

\* A thread is held back only by a task that can itself run on: one that is in
\* the table, alive and not parked, so nobody waits for a waiter.
BlockersCanRun ==
  \A i \in Living(rt) :
    LET p == rt.tasks[i].blocker
    IN p # 0 => /\ p # Gone /\ p # i
                /\ p = rt.active \/ Runnable(rt, p)

\* A card has at most one paint under way, and PaintTasks knows it: a second
\* one would draw over the first.
OnePaintPerCard ==
  \A i \in Living(rt) : rt.tasks[i].paint # Nobody => rt.paintOf[rt.tasks[i].paint] = i

\* SaveState takes a save between slices of a machine that has not faulted.
CanBeSaved == rt.active = 0 /\ rt.fault = "none"

\* A save written between slices can be loaded unless a TimerTask is to blame:
\* the pointers it must number lie in the table, but for the cards deferred by a
\* callback that cancelled itself, and every live callback has the status the
\* loader asks for, but for a one-shot that is still running.
OnlyTimerTasksSpoilASave ==
  CanBeSaved =>
    /\ \A i \in DOMAIN rt.tasks : rt.tasks[i].blocker # Gone
    /\ \A c \in Cards : rt.paintOf[c] # Gone
    /\ \A t \in rt.orphans : t # Nobody /\ rt.status[t] = "cancelled"
    /\ \A i \in Living(rt) : rt.tasks[i].timer # Nobody =>
         \/ rt.status[rt.tasks[i].timer] = "scheduled"
         \/ rt.tasks[i].started /\ rt.tasks[i].period = 0

\* What the loader of a save accepts, as the documentation promises it: a
\* callback that sleeps survives the round trip.
SavedTasksLoad ==
  CanBeSaved =>
    \A i \in Living(rt) : rt.tasks[i].timer # Nobody => rt.status[rt.tasks[i].timer] = "scheduled"
=============================================================================
