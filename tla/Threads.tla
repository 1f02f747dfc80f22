------------------------------ MODULE Threads ------------------------------
(* The cooperative threads of the SKVM (skvm/threads.go, the natives that   *)
(* park and wake them, VM.Advance).                                         *)
(*                                                                          *)
(* A thread runs on the Go stack until it parks, so `stack` is what runs    *)
(* now: an activation of a thread, or a loop that runs several threads one  *)
(* after the other (runReadyThreads, releaseClipWaiters).  Where the stack  *)
(* is empty the MIDlet's own callbacks run, and the host saves.             *)
EXTENDS Integers, Sequences

CONSTANTS
  ThreadRefs,     \* the heap references of the threads, compared as numbers
  Monitors,       \* the objects guests wait on
  AudioClips,     \* the AudioClip objects
  MaxSounds,      \* bound on the media clips they create
  Delays,         \* how long a guest sleeps or waits; a quantum that expires yields for 1
  MaxClock        \* bound

ASSUME ThreadsAssumption ==
  /\ ThreadRefs \subseteq Nat \ {0} /\ 0 \notin Monitors
  /\ Delays \subseteq Nat /\ 1 \in Delays
  /\ MaxSounds \in Nat /\ MaxClock \in Nat

VARIABLES
  clock,          \* Clock.Monotonic
  threads,        \* threadState by reference; continuation: has it saved frames
  clipOf,         \* the media clip of each AudioClip; 0: closed
  sounds,         \* the state of each media clip
  stack,          \* what runs now, innermost last
  turn, owed,     \* ghost: threads due when the round began; threads woken and not run since
  silenced        \* ghost: threads parked in play whose clip has stopped since

threadVars == <<clock, threads, clipOf, sounds, stack, turn, owed, silenced>>

Forever == 1000

Unstarted == [started |-> FALSE, active |-> FALSE, continuation |-> FALSE,
              wakeAt |-> 0, waitingOn |-> 0, blockedClip |-> 0]

NoThreads == [t \in ThreadRefs |-> Unstarted]
NoClips == [a \in AudioClips |-> 0]
NoSounds == [s \in 1..MaxSounds |-> "absent"]

ThreadsInit ==
  /\ clock = 0 /\ stack = <<>>
  /\ threads = NoThreads /\ clipOf = NoClips /\ sounds = NoSounds
  /\ turn = {} /\ owed = {} /\ silenced = {}

\* A loop runs the threads of todo by ascending reference.
Activation(t) == [kind |-> "thread", thread |-> t, todo |-> {}, clip |-> 0, opens |-> {}]
Loop(kind, S, clip, opens) ==
  [kind |-> kind, thread |-> 0, todo |-> S, clip |-> clip, opens |-> opens]

Top == stack[Len(stack)]
Popped == SubSeq(stack, 1, Len(stack) - 1)
InLoop(kind) == stack # <<>> /\ Top.kind = kind
InCallback == stack = <<>>
InThread == InLoop("thread")
InGuestCode == InCallback \/ InThread

\* threadBlocked: a waiter by its deadline alone, a thread in play by its clip.
Blocked(t) ==
  IF threads[t].waitingOn # 0 THEN threads[t].wakeAt > clock
  ELSE threads[t].blockedClip # 0 /\ sounds[threads[t].blockedClip] \in {"playing", "paused"}

\* What runThread does to the thread before any of its code runs.
Resumed(t) ==
  [threads EXCEPT ![t].waitingOn = 0, ![t].blockedClip = 0, ![t].continuation = FALSE]

RunThread(t, below) ==
  /\ threads' = Resumed(t)
  /\ stack' = Append(below, Activation(t))
  /\ turn' = turn \ {t} /\ owed' = owed \ {t} /\ silenced' = silenced \ {t}
  /\ UNCHANGED <<clock, clipOf, sounds>>

\* The running thread leaves: it parks, or its run method is over.
LeaveAs(state) ==
  /\ threads' = [threads EXCEPT ![Top.thread] = state]
  /\ stack' = Popped

Parked(wakeAt, waitingOn, blockedClip) ==
  [threads[Top.thread] EXCEPT !.continuation = TRUE, !.wakeAt = wakeAt,
                              !.waitingOn = waitingOn, !.blockedClip = blockedClip]

(***************************************************************************)
(* java.lang.Thread and Object                                             *)
(***************************************************************************)
StartAgain(t) ==
  /\ InGuestCode /\ (threads[t].active \/ ~threads[t].started)
  /\ threads' = [threads EXCEPT ![t] = [Unstarted EXCEPT !.started = TRUE, !.active = TRUE,
                                                         !.wakeAt = clock]]
  /\ stack' = Append(stack, Activation(t))
  /\ UNCHANGED <<clock, clipOf, sounds, turn, owed, silenced>>
\* Thread.start, and the worker the LGT timer starts for a one-shot task.  A
\* second start of an active thread does nothing, of an ended one it throws.
StartThread(t) ==
  /\ InGuestCode /\ ~threads[t].started
  /\ threads' = [threads EXCEPT ![t] = [Unstarted EXCEPT !.started = TRUE, !.active = TRUE,
                                                         !.wakeAt = clock]]
  /\ stack' = Append(stack, Activation(t))
  /\ UNCHANGED <<clock, clipOf, sounds, turn, owed, silenced>>

\* Thread.sleep and yield, join of a living thread, and a spent quantum.
YieldFor(delay) ==
  /\ InThread
  /\ LeaveAs(Parked(clock + delay, 0, 0))
  /\ UNCHANGED <<clock, clipOf, sounds, turn, owed, silenced>>

\* Object.wait; without a timeout, or with one of zero, it has no deadline.
WaitOn(o, delay) ==
  /\ InThread
  /\ LeaveAs(Parked(IF delay = 0 THEN Forever ELSE clock + delay, o, 0))
  /\ UNCHANGED <<clock, clipOf, sounds, turn, owed, silenced>>

EndThread ==
  /\ InThread
  /\ LeaveAs([threads[Top.thread] EXCEPT !.active = FALSE, !.continuation = FALSE])
  /\ UNCHANGED <<clock, clipOf, sounds, turn, owed, silenced>>

NotifiedKeepsDeadline(S) ==
  [t \in ThreadRefs |-> IF t \in S THEN [threads[t] EXCEPT !.waitingOn = 0] ELSE threads[t]]
Notified(S) ==
  [t \in ThreadRefs |-> IF t \in S THEN [threads[t] EXCEPT !.waitingOn = 0, !.wakeAt = clock]
                                   ELSE threads[t]]

\* notifyObject wakes the waiter of lowest reference, or all; they run later.
NotifyObject(o, all) ==
  LET waiters == {t \in ThreadRefs : threads[t].active /\ threads[t].waitingOn = o}
      woken == IF all THEN waiters ELSE {t \in waiters : \A u \in waiters : t <= u}
  IN /\ InGuestCode /\ waiters # {}
     /\ threads' = Notified(woken)
     /\ owed' = owed \cup woken
     /\ UNCHANGED <<clock, clipOf, sounds, stack, turn, silenced>>

\* Thread.interrupt only moves the deadline; a waiter stays in its wait set
\* until it runs.
Interrupt(t) ==
  /\ InGuestCode
  /\ threads' = [threads EXCEPT ![t].wakeAt = clock]
  /\ owed' = IF threads[t].continuation THEN owed \cup {t} ELSE owed
  /\ UNCHANGED <<clock, clipOf, sounds, stack, turn, silenced>>

(***************************************************************************)
(* com.skt.m.AudioClip                                                     *)
(***************************************************************************)
WaitersOf(clip) ==
  {t \in ThreadRefs : threads[t].active /\ threads[t].blockedClip = clip
                      /\ (InThread => t # Top.thread)}

\* A clip that leaves the playing state, and the loop that runs its waiters.
Silence(clip, state) ==
  /\ sounds' = [sounds EXCEPT ![clip] = state]
  /\ silenced' = silenced \cup {t \in ThreadRefs : threads[t].blockedClip = clip}

Release(clip, opens) ==
  stack' = Append(stack, Loop("release", WaitersOf(clip), clip, opens))

\* play and loop: starts the clip unless it plays already; a thread parks.
PlayClip(a) ==
  LET clip == clipOf[a] IN
  /\ InGuestCode /\ clip # 0 /\ sounds[clip] # "paused"
  /\ sounds' = [sounds EXCEPT ![clip] = "playing"]
  /\ IF InThread THEN LeaveAs(Parked(clock, 0, clip)) ELSE UNCHANGED <<threads, stack>>
  /\ UNCHANGED <<clock, clipOf, turn, owed, silenced>>

StopClip(a) ==
  /\ InGuestCode /\ clipOf[a] # 0
  /\ Silence(clipOf[a], "stopped")
  /\ Release(clipOf[a], {})
  /\ UNCHANGED <<clock, threads, clipOf, turn, owed>>

PauseClip(a, from, to) ==
  /\ InGuestCode /\ clipOf[a] # 0 /\ sounds[clipOf[a]] = from
  /\ sounds' = [sounds EXCEPT ![clipOf[a]] = to]
  /\ UNCHANGED <<clock, threads, clipOf, stack, turn, owed, silenced>>

CloseClipQuietly(a) ==
  /\ InGuestCode /\ clipOf[a] # 0
  /\ Silence(clipOf[a], "absent")
  /\ clipOf' = [clipOf EXCEPT ![a] = 0]
  /\ UNCHANGED <<clock, threads, stack, turn, owed>>
\* close destroys the clip first, then runs its waiters.
CloseClip(a) ==
  /\ InGuestCode /\ clipOf[a] # 0
  /\ Silence(clipOf[a], "absent")
  /\ clipOf' = [clipOf EXCEPT ![a] = 0]
  /\ Release(clipOf[a], {})
  /\ UNCHANGED <<clock, threads, turn, owed>>

\* A media clip the AudioClip does not have yet.  The registry never hands an ID
\* out twice; here it may once nothing remembers the ID.
FreeSounds ==
  {c \in DOMAIN sounds : /\ sounds[c] = "absent"
                         /\ \A t \in ThreadRefs : threads[t].blockedClip # c
                         /\ \A i \in 1..Len(stack) : stack[i].clip # c}
CreateClip(a) ==
  \E c \in FreeSounds :
    /\ \A d \in FreeSounds : c <= d
    /\ sounds' = [sounds EXCEPT ![c] = "stopped"]
    /\ clipOf' = [clipOf EXCEPT ![a] = c]

\* open stops the clip it had and runs its waiters before it goes on.
OpenClip(a) ==
  /\ InGuestCode
  /\ IF clipOf[a] = 0
     THEN CreateClip(a) /\ UNCHANGED <<stack, silenced>>
     ELSE /\ Silence(clipOf[a], "stopped")
          /\ Release(clipOf[a], {a})
          /\ UNCHANGED clipOf
  /\ UNCHANGED <<clock, threads, turn, owed>>

\* The rest of open, once the waiters have run.  One of them may have closed
\* the clip: a new one is made.  One may have played it again: a clip that
\* plays takes no new source, the error ends the title, and the host starts
\* another machine.
OpenEnds(a) ==
  IF clipOf[a] = 0
  THEN CreateClip(a)
  ELSE sounds[clipOf[a]] = "stopped" /\ UNCHANGED <<clipOf, sounds>>

TitleFails ==
  /\ InLoop("release") /\ Top.todo = {}
  /\ \E a \in Top.opens : clipOf[a] # 0 /\ sounds[clipOf[a]] # "stopped"
  /\ clock' = 0 /\ stack' = <<>>
  /\ threads' = NoThreads /\ clipOf' = NoClips /\ sounds' = NoSounds
  /\ turn' = {} /\ owed' = {} /\ silenced' = {}

(***************************************************************************)
(* The two loops                                                           *)
(***************************************************************************)
\* Both loops look at each thread again before they run it.
StillReady(t) == threads[t].active /\ threads[t].wakeAt <= clock /\ ~Blocked(t)
StillWaits(t, clip) == threads[t].active /\ threads[t].blockedClip = clip

RunNext ==
  /\ stack # <<>>
  /\ \E t \in Top.todo :
       LET rest == [stack EXCEPT ![Len(stack)].todo = @ \ {t}]
           runs == \/ Top.kind = "ready" /\ StillReady(t)
                   \/ Top.kind = "release" /\ StillWaits(t, Top.clip)
       IN /\ \A u \in Top.todo : t <= u
          /\ \/ runs /\ RunThread(t, rest)
             \/ ~runs /\ stack' = rest
                /\ UNCHANGED <<clock, threads, clipOf, sounds, turn, owed, silenced>>

ReleaseEnds ==
  /\ InLoop("release") /\ Top.todo = {}
  /\ stack' = Popped
  /\ IF Top.opens = {} THEN UNCHANGED <<clipOf, sounds>> ELSE \E a \in Top.opens : OpenEnds(a)
  /\ UNCHANGED <<clock, threads, turn, owed, silenced>>

RoundEnds ==
  /\ InLoop("ready") /\ Top.todo = {}
  /\ stack' = Popped /\ turn' = {}
  /\ UNCHANGED <<clock, threads, clipOf, sounds, owed, silenced>>

\* Services.Advance: time passes, and any clip that plays may run out.
TimePasses(delta) ==
  /\ InCallback /\ clock + delta <= MaxClock
  /\ clock' = clock + delta
  /\ \E over \in SUBSET {c \in DOMAIN sounds : delta > 0 /\ sounds[c] = "playing"} :
       /\ sounds' = [c \in DOMAIN sounds |-> IF c \in over THEN "stopped" ELSE sounds[c]]
       /\ silenced' = silenced \cup {t \in ThreadRefs : threads[t].blockedClip \in over}

Ready == {t \in ThreadRefs : StillReady(t)}

\* VM.Advance: time passes, then every thread that is ready now runs.
Advance(delta) ==
  /\ UNCHANGED <<threads, clipOf, owed>>
  /\ TimePasses(delta)
  /\ stack' = <<Loop("ready", Ready', 0, {})>>
  /\ turn' = {t \in ThreadRefs : threads[t].active /\ (t \in owed \/ threads[t].wakeAt <= clock')}

\* Thread.sleep called by the MIDlet itself moves the clock and runs no thread.
CallbackSleeps(delay) ==
  TimePasses(delay) /\ UNCHANGED <<threads, clipOf, stack, turn, owed>>

ThreadNative ==
  \/ EndThread
  \/ \E t \in ThreadRefs : StartThread(t) \/ Interrupt(t)
  \/ \E d \in Delays : YieldFor(d) \/ CallbackSleeps(d) \/ \E o \in Monitors : WaitOn(o, d)
  \/ \E o \in Monitors, all \in BOOLEAN : NotifyObject(o, all)

ClipNative ==
  \E a \in AudioClips :
    \/ PlayClip(a) \/ StopClip(a) \/ CloseClip(a) \/ OpenClip(a)
    \/ PauseClip(a, "playing", "paused") \/ PauseClip(a, "paused", "playing")

ThreadsNext ==
  \/ ThreadNative \/ ClipNative
  \/ RunNext \/ ReleaseEnds \/ TitleFails \/ RoundEnds
  \/ \E d \in Delays : Advance(d)

ThreadsSpec == ThreadsInit /\ [][ThreadsNext]_threadVars

(***************************************************************************)
(* Properties                                                              *)
(***************************************************************************)
\* No thread is run while it is running: resumed inside itself it would start
\* again at run() and lose the frames on the stack.
NoThreadRunsTwice ==
  \A i, j \in 1..Len(stack) :
    (stack[i].kind = "thread" /\ stack[i].thread = stack[j].thread) => i = j

\* What SaveState writes between two steps of the machine, LoadState accepts:
\* threads are active exactly if they have frames to resume, and the clip that
\* a thread is parked on exists (validateState, state.go).
SavedThreadsLoad ==
  stack = <<>> =>
    \A t \in ThreadRefs :
      /\ threads[t].active <=> threads[t].continuation
      /\ threads[t].blockedClip # 0 => sounds[threads[t].blockedClip] # "absent"

\* A thread that was notified, interrupted or timed out before Advance has run
\* when runReadyThreads is through, unless the clip it plays sounds again.
EveryDueThreadRuns ==
  [][RoundEnds => \A t \in turn : Blocked(t)]_threadVars

\* "play and loop block the calling thread until the clip stops"
\* (natives_skt.go): a thread parked in play runs only after its clip stopped.
PlayLastsUntilTheClipStops ==
  [][\A t \in ThreadRefs :
       (threads[t].blockedClip # 0 /\ threads'[t] # threads[t] /\ threads'[t].active
        /\ ~threads'[t].continuation) => t \in silenced]_threadVars
=============================================================================
