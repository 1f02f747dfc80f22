-------------------------- MODULE SchedulerProofs --------------------------
(* The two cooperative schedulers.  The SKVM's threads, for any number of   *)
(* threads, monitors and clips: none is run inside itself, the threads of   *)
(* every save load, and a round runs whoever was due.  The task table of a  *)
(* KTF title, for any table, title and number of cards, threads and timers: *)
(* who may be alive beside whom, who may hold a thread back, and what can   *)
(* spoil a save.                                                            *)
EXTENDS Threads, KTFTasks, SelectionProofs

-----------------------------------------------------------------------------
(* SKVM threads *)

ThreadStates ==
  [started: BOOLEAN, active: BOOLEAN, continuation: BOOLEAN,
   wakeAt: Nat, waitingOn: Monitors \cup {0}, blockedClip: 0 .. MaxSounds]

Entries ==
  [kind: {"thread", "ready", "release"}, thread: ThreadRefs \cup {0},
   todo: SUBSET ThreadRefs, clip: 0 .. MaxSounds, opens: SUBSET AudioClips]

SoundStates == {"absent", "stopped", "playing", "paused"}

ThreadsTypeOK ==
  /\ clock \in Nat
  /\ threads \in [ThreadRefs -> ThreadStates]
  /\ clipOf \in [AudioClips -> 0 .. MaxSounds]
  /\ sounds \in [1 .. MaxSounds -> SoundStates]
  /\ stack \in Seq(Entries)

\* What is on the stack: a running thread holds no frames and is parked on
\* nothing; the scheduler's loop is outermost.
EntryOK(i) ==
  /\ stack[i].kind = "thread" =>
       /\ stack[i].thread \in ThreadRefs
       /\ threads[stack[i].thread].active
       /\ ~threads[stack[i].thread].continuation
       /\ threads[stack[i].thread].blockedClip = 0
  /\ stack[i].kind # "thread" => stack[i].thread = 0
  /\ stack[i].kind = "ready" => i = 1
  /\ stack[i].kind = "release" => stack[i].clip # 0
StackOK == \A i \in 1 .. Len(stack) : EntryOK(i)

OnStack(t) == \E i \in 1 .. Len(stack) : stack[i].kind = "thread" /\ stack[i].thread = t
ToRelease(t, clip) ==
  \E i \in 1 .. Len(stack) : stack[i].kind = "release" /\ stack[i].clip = clip /\ t \in stack[i].todo

\* A thread off the stack is active exactly if it has frames.  A clip that
\* somebody is parked on exists, or the loop that closed it will run him.
ThreadOK(t) ==
  /\ threads[t].active => threads[t].started /\ (threads[t].continuation \/ OnStack(t))
  /\ threads[t].continuation => threads[t].active
  /\ threads[t].blockedClip # 0 =>
       /\ threads[t].active
       /\ sounds[threads[t].blockedClip] # "absent" \/ ToRelease(t, threads[t].blockedClip)
ThreadsOK == \A t \in ThreadRefs : ThreadOK(t)

\* Every open AudioClip has a media clip of its own.
ClipsOK ==
  /\ \A a \in AudioClips : clipOf[a] # 0 => sounds[clipOf[a]] # "absent"
  /\ \A a, b \in AudioClips : clipOf[a] # 0 /\ clipOf[a] = clipOf[b] => a = b

ThreadsInv == ThreadsTypeOK /\ StackOK /\ NoThreadRunsTwice /\ ThreadsOK /\ ClipsOK

-----------------------------------------------------------------------------
(* What a push, a pop and a step of a loop do to the stack.                 *)

LEMMA Pushing ==
  ASSUME ThreadsTypeOK, NEW e \in Entries, stack' = Append(stack, e)
  PROVE  /\ stack' \in Seq(Entries) /\ Len(stack') = Len(stack) + 1
         /\ stack'[Len(stack) + 1] = e
         /\ \A i \in 1 .. Len(stack) : stack'[i] = stack[i]
         /\ \A t : OnStack(t) => OnStack(t)'
         /\ \A t, c : ToRelease(t, c) => ToRelease(t, c)'
         /\ e.kind = "thread" => OnStack(e.thread)'
         /\ e.kind = "release" => \A t \in e.todo : ToRelease(t, e.clip)'
<1>1. /\ stack' \in Seq(Entries) /\ Len(stack') = Len(stack) + 1
      /\ stack'[Len(stack) + 1] = e
      /\ \A i \in 1 .. Len(stack) : stack'[i] = stack[i]
  BY DEF ThreadsTypeOK
<1>2. Len(stack) \in Nat /\ Len(stack) + 1 \in 1 .. Len(stack')
  BY <1>1 DEF ThreadsTypeOK
<1>3. \A i \in 1 .. Len(stack) : i \in 1 .. Len(stack')
  BY <1>1, <1>2
<1> QED
  BY <1>1, <1>2, <1>3 DEF OnStack, ToRelease

LEMMA PrefixLen ==
  ASSUME NEW S, NEW s, NEW n \in Nat, \A i \in 1 .. n : s[i] \in S
  PROVE  Len(SubSeq(s, 1, n)) = n
BY SubSeqProperties

\* All but the last element of a sequence.
LEMMA AllButLast ==
  ASSUME NEW S, NEW s \in Seq(S), s # <<>>
  PROVE  /\ SubSeq(s, 1, Len(s) - 1) \in Seq(S)
         /\ Len(SubSeq(s, 1, Len(s) - 1)) = Len(s) - 1
         /\ \A i \in 1 .. Len(s) - 1 : SubSeq(s, 1, Len(s) - 1)[i] = s[i]
<1>1. Len(s) - 1 \in Nat /\ \A i \in 1 .. Len(s) - 1 : s[i] \in S
  OBVIOUS
<1>2. Len(SubSeq(s, 1, Len(s) - 1)) = Len(s) - 1
  BY <1>1, PrefixLen
<1> QED
  BY <1>2

LEMMA Popping ==
  ASSUME ThreadsTypeOK, stack # <<>>, stack' = Popped
  PROVE  /\ stack' \in Seq(Entries) /\ Len(stack) \in Nat \ {0} /\ Len(stack') = Len(stack) - 1
         /\ Top \in Entries
         /\ \A i \in 1 .. Len(stack') : i \in 1 .. Len(stack) /\ i # Len(stack) /\ stack'[i] = stack[i]
         /\ \A t : OnStack(t) => OnStack(t)' \/ (Top.kind = "thread" /\ Top.thread = t)
         /\ \A t, c : ToRelease(t, c) =>
              ToRelease(t, c)' \/ (Top.kind = "release" /\ Top.clip = c /\ t \in Top.todo)
<1>1. Len(stack) \in Nat \ {0} /\ Top \in Entries
  BY DEF ThreadsTypeOK, Top
<1>2. /\ stack' \in Seq(Entries) /\ Len(stack') = Len(stack) - 1
      /\ \A i \in 1 .. Len(stack) - 1 : stack'[i] = stack[i]
  BY AllButLast DEF ThreadsTypeOK, Popped
<1>3. \A i \in 1 .. Len(stack) : i = Len(stack) \/ (i \in 1 .. Len(stack') /\ stack'[i] = stack[i])
  BY <1>1, <1>2
<1>4. \A i \in 1 .. Len(stack') : i \in 1 .. Len(stack) /\ i # Len(stack) /\ stack'[i] = stack[i]
  BY <1>1, <1>2
<1>5. \A t : OnStack(t) => OnStack(t)' \/ (Top.kind = "thread" /\ Top.thread = t)
  BY <1>3 DEF OnStack, Top
<1>6. \A t, c : ToRelease(t, c) =>
        ToRelease(t, c)' \/ (Top.kind = "release" /\ Top.clip = c /\ t \in Top.todo)
  BY <1>3 DEF ToRelease, Top
<1> QED
  BY <1>1, <1>2, <1>4, <1>5, <1>6

\* A loop has taken u from its list.
Taken(u) == [stack EXCEPT ![Len(stack)].todo = @ \ {u}]

LEMMA Taking ==
  ASSUME ThreadsTypeOK, stack # <<>>, NEW u \in ThreadRefs
  PROVE  /\ Taken(u) \in Seq(Entries) /\ Len(Taken(u)) = Len(stack) /\ Len(stack) \in Nat \ {0}
         /\ Top \in Entries
         /\ \A i \in 1 .. Len(stack) :
              /\ Taken(u)[i] \in Entries
              /\ Taken(u)[i].kind = stack[i].kind /\ Taken(u)[i].thread = stack[i].thread
              /\ Taken(u)[i].clip = stack[i].clip
              /\ \A t : t \in stack[i].todo =>
                   t \in Taken(u)[i].todo \/ (t = u /\ stack[i] = Top)
<1>1. Len(stack) \in Nat \ {0} /\ Top \in Entries /\ stack \in [1 .. Len(stack) -> Entries]
  BY DEF ThreadsTypeOK, Top
<1>2. [Top EXCEPT !.todo = @ \ {u}] \in Entries
  BY <1>1 DEF Entries
<1>3. Taken(u) = [stack EXCEPT ![Len(stack)] = [Top EXCEPT !.todo = @ \ {u}]]
  BY <1>1 DEF Taken, Top
<1>4. Taken(u) \in Seq(Entries) /\ Len(Taken(u)) = Len(stack)
  BY <1>1, <1>2, <1>3
<1>5. ASSUME NEW i \in 1 .. Len(stack)
      PROVE  /\ Taken(u)[i] \in Entries
             /\ Taken(u)[i].kind = stack[i].kind /\ Taken(u)[i].thread = stack[i].thread
             /\ Taken(u)[i].clip = stack[i].clip
             /\ \A t : t \in stack[i].todo => t \in Taken(u)[i].todo \/ (t = u /\ stack[i] = Top)
  <2>1. CASE i = Len(stack)
    <3>1. Taken(u)[i] = [Top EXCEPT !.todo = @ \ {u}] /\ stack[i] = Top
      BY <1>1, <1>3, <2>1 DEF Top
    <3> QED
      BY <1>1, <1>2, <3>1 DEF Entries
  <2>2. CASE i # Len(stack)
    BY <1>1, <1>3, <2>2
  <2> QED
    BY <2>1, <2>2
<1> QED
  BY <1>1, <1>4, <1>5

-----------------------------------------------------------------------------
(* The invariant, one lemma for each way a step can go.                     *)

\* A step that leaves the stack, the threads' frames and clips, and which
\* media clips exist, as they are.
LEMMA Gentle ==
  ASSUME ThreadsInv, ThreadsTypeOK', stack' = stack, clipOf' = clipOf,
         \A t \in ThreadRefs :
           /\ threads'[t].started = threads[t].started /\ threads'[t].active = threads[t].active
           /\ threads'[t].continuation = threads[t].continuation
           /\ threads'[t].blockedClip = threads[t].blockedClip,
         \A c \in 1 .. MaxSounds : sounds'[c] = "absent" => sounds[c] = "absent"
  PROVE  ThreadsInv'
<1> USE DEF ThreadsInv
<1>1. StackOK'
  BY DEF StackOK, EntryOK
<1>2. NoThreadRunsTwice'
  BY DEF NoThreadRunsTwice
<1>3. ThreadsOK'
  <2> SUFFICES ASSUME NEW t \in ThreadRefs PROVE ThreadOK(t)'
    BY DEF ThreadsOK
  <2>1. ThreadOK(t) /\ threads[t].blockedClip \in 0 .. MaxSounds
    BY DEF ThreadsOK, ThreadsTypeOK, ThreadStates
  <2>2. (OnStack(t)' <=> OnStack(t)) /\ \A c : ToRelease(t, c)' <=> ToRelease(t, c)
    BY DEF OnStack, ToRelease
  <2> QED
    BY <2>1, <2>2 DEF ThreadOK
<1>4. ClipsOK'
  BY DEF ClipsOK, ThreadsTypeOK
<1> QED
  BY <1>1, <1>2, <1>3, <1>4

\* A loop is entered; its list covers whoever is parked on a clip that goes.
LEMMA EnterLoop ==
  ASSUME ThreadsInv, ThreadsTypeOK', threads' = threads,
         NEW e \in Entries, stack' = Append(stack, e),
         e.kind # "thread", e.thread = 0, e.kind = "ready" => stack = <<>>,
         e.kind = "release" => e.clip # 0,
         \A t \in ThreadRefs : threads[t].blockedClip # 0 /\ threads[t].active =>
           \/ sounds'[threads[t].blockedClip] = "absent" => sounds[threads[t].blockedClip] = "absent"
           \/ e.kind = "release" /\ e.clip = threads[t].blockedClip /\ t \in e.todo,
         ClipsOK'
  PROVE  ThreadsInv'
<1> USE DEF ThreadsInv
<1>1. /\ stack' \in Seq(Entries) /\ Len(stack') = Len(stack) + 1 /\ Len(stack) \in Nat
      /\ stack'[Len(stack) + 1] = e
      /\ \A i \in 1 .. Len(stack) : stack'[i] = stack[i]
      /\ \A t : OnStack(t) => OnStack(t)'
      /\ \A t, c : ToRelease(t, c) => ToRelease(t, c)'
      /\ e.kind = "release" => \A t \in e.todo : ToRelease(t, e.clip)'
  BY Pushing DEF ThreadsTypeOK
<1>2. \A i \in 1 .. Len(stack') : i \in 1 .. Len(stack) \/ i = Len(stack) + 1
  BY <1>1
<1>3. StackOK'
  <2> SUFFICES ASSUME NEW i \in 1 .. Len(stack') PROVE EntryOK(i)'
    BY DEF StackOK
  <2>1. CASE i \in 1 .. Len(stack)
    BY <1>1, <2>1 DEF StackOK, EntryOK
  <2>2. CASE i = Len(stack) + 1
    <3>1. e.kind = "ready" => Len(stack) = 0
      OBVIOUS
    <3> QED
      BY <1>1, <2>2, <3>1 DEF EntryOK
  <2> QED
    BY <1>2, <2>1, <2>2
<1>4. NoThreadRunsTwice'
  <2>1. \A i \in 1 .. Len(stack) : stack[i].kind = "thread" => stack[i].thread \in ThreadRefs
    BY DEF StackOK, EntryOK
  <2> QED
    BY <1>1, <1>2, <2>1, ThreadsAssumption DEF NoThreadRunsTwice
<1>5. ThreadsOK'
  <2> SUFFICES ASSUME NEW t \in ThreadRefs PROVE ThreadOK(t)'
    BY DEF ThreadsOK
  <2>1. ThreadOK(t)
    BY DEF ThreadsOK
  <2> QED
    BY <1>1, <2>1 DEF ThreadOK
<1> QED
  BY <1>3, <1>4, <1>5

\* The running thread leaves the stack, parked or ended.
LEMMA Leave ==
  ASSUME ThreadsInv, ThreadsTypeOK', InThread, NEW state \in ThreadStates, LeaveAs(state),
         clipOf' = clipOf,
         state.active <=> state.continuation, state.active => state.started,
         state.blockedClip # 0 => state.active /\ sounds'[state.blockedClip] # "absent",
         \A c \in 1 .. MaxSounds : sounds'[c] = "absent" => sounds[c] = "absent"
  PROVE  ThreadsInv'
<1> USE DEF ThreadsInv
<1>0. stack # <<>> /\ Top.kind = "thread" /\ stack' = Popped
      /\ threads' = [threads EXCEPT ![Top.thread] = state]
  BY DEF InThread, InLoop, LeaveAs
<1>1. /\ Len(stack) \in Nat \ {0} /\ Len(stack') = Len(stack) - 1
      /\ \A i \in 1 .. Len(stack') : i \in 1 .. Len(stack) /\ i # Len(stack) /\ stack'[i] = stack[i]
      /\ \A t : OnStack(t) => OnStack(t)' \/ Top.thread = t
      /\ \A t, c : ToRelease(t, c) => ToRelease(t, c)'
  BY <1>0, Popping
<1>2. \A i \in 1 .. Len(stack') : stack[i].kind = "thread" => stack[i].thread # Top.thread
  BY <1>0, <1>1 DEF NoThreadRunsTwice, Top
<1>3. Top.thread \in ThreadRefs
  BY <1>0, <1>1 DEF StackOK, EntryOK, Top
<1>4. /\ threads'[Top.thread] = state
      /\ \A t \in ThreadRefs : t # Top.thread => threads'[t] = threads[t]
  BY <1>0, <1>3 DEF ThreadsTypeOK
<1>5. StackOK'
  <2> SUFFICES ASSUME NEW i \in 1 .. Len(stack') PROVE EntryOK(i)'
    BY DEF StackOK
  <2>1. /\ EntryOK(i) /\ stack'[i] = stack[i]
        /\ stack[i].kind = "thread" => stack[i].thread # Top.thread
    BY <1>1, <1>2 DEF StackOK
  <2> QED
    BY <1>4, <2>1 DEF EntryOK
<1>6. NoThreadRunsTwice'
  BY <1>1 DEF NoThreadRunsTwice
<1>7. ThreadsOK'
  <2> SUFFICES ASSUME NEW t \in ThreadRefs PROVE ThreadOK(t)'
    BY DEF ThreadsOK
  <2>1. ThreadOK(t) /\ threads[t].blockedClip \in 0 .. MaxSounds
    BY DEF ThreadsOK, ThreadsTypeOK, ThreadStates
  <2>2. CASE t = Top.thread
    BY <1>4, <2>2 DEF ThreadOK
  <2>3. CASE t # Top.thread
    BY <1>1, <1>4, <2>1, <2>3 DEF ThreadOK
  <2> QED
    BY <2>2, <2>3
<1>8. ClipsOK'
  BY DEF ClipsOK, ThreadsTypeOK
<1> QED
  BY <1>5, <1>6, <1>7, <1>8

\* A thread is run: it was not on the stack, and now it is on top of it.
LEMMA RunIt ==
  ASSUME ThreadsInv, ThreadsTypeOK', NEW t \in ThreadRefs, NEW rest \in Seq(Entries),
         NEW state \in ThreadStates,
         stack' = Append(rest, Activation(t)), threads' = [threads EXCEPT ![t] = state],
         clipOf' = clipOf, sounds' = sounds, ~OnStack(t),
         state.started, state.active, ~state.continuation, state.blockedClip = 0,
         Len(rest) = Len(stack),
         \A i \in 1 .. Len(stack) :
           /\ rest[i].kind = stack[i].kind /\ rest[i].thread = stack[i].thread
           /\ rest[i].clip = stack[i].clip
           /\ \A u \in ThreadRefs : u # t /\ u \in stack[i].todo => u \in rest[i].todo
  PROVE  ThreadsInv'
<1> USE DEF ThreadsInv
<1>0. Activation(t).kind = "thread" /\ Activation(t).thread = t
  BY DEF Activation
<1>1. /\ Len(stack) \in Nat /\ Len(stack') = Len(stack) + 1
      /\ stack'[Len(stack) + 1] = Activation(t)
      /\ \A i \in 1 .. Len(stack) : i \in 1 .. Len(stack') /\ stack'[i] = rest[i]
      /\ \A i \in 1 .. Len(stack') : i \in 1 .. Len(stack) \/ i = Len(stack) + 1
      /\ Len(stack) + 1 \in 1 .. Len(stack')
  BY DEF ThreadsTypeOK
<1>2. \A i \in 1 .. Len(stack) : stack[i].kind = "thread" => stack[i].thread # t
  BY DEF OnStack
<1>3. /\ threads'[t] = state
      /\ \A u \in ThreadRefs : u # t => threads'[u] = threads[u]
  BY DEF ThreadsTypeOK
<1>4. StackOK'
  <2> SUFFICES ASSUME NEW i \in 1 .. Len(stack') PROVE EntryOK(i)'
    BY DEF StackOK
  <2>1. CASE i \in 1 .. Len(stack)
    <3>1. /\ EntryOK(i) /\ stack'[i] = rest[i]
          /\ rest[i].kind = stack[i].kind /\ rest[i].thread = stack[i].thread
          /\ rest[i].clip = stack[i].clip
          /\ stack[i].kind = "thread" => stack[i].thread # t
      BY <1>1, <1>2, <2>1 DEF StackOK
    <3> QED
      BY <1>3, <3>1 DEF EntryOK
  <2>2. CASE i = Len(stack) + 1
    BY <1>0, <1>1, <1>3, <2>2 DEF EntryOK
  <2> QED
    BY <1>1, <2>1, <2>2
<1>5. NoThreadRunsTwice'
  <2> SUFFICES ASSUME NEW i \in 1 .. Len(stack'), NEW j \in 1 .. Len(stack'),
                      stack'[i].kind = "thread", stack'[i].thread = stack'[j].thread
               PROVE  i = j
    BY DEF NoThreadRunsTwice
  <2>1. \A k \in 1 .. Len(stack) : stack'[k].kind = stack[k].kind /\ stack'[k].thread = stack[k].thread
    BY <1>1
  <2>2. \A k \in 1 .. Len(stack) : stack[k].thread # t
    <3> SUFFICES ASSUME NEW k \in 1 .. Len(stack) PROVE stack[k].thread # t
      OBVIOUS
    <3>1. EntryOK(k) /\ t # 0
      BY ThreadsAssumption DEF StackOK
    <3> QED
      BY <1>2, <3>1 DEF EntryOK
  <2>3. CASE i \in 1 .. Len(stack) /\ j \in 1 .. Len(stack)
    BY <2>1, <2>3 DEF NoThreadRunsTwice
  <2>4. CASE i \in 1 .. Len(stack) /\ j = Len(stack) + 1
    BY <1>0, <1>1, <2>1, <2>2, <2>4
  <2>5. CASE i = Len(stack) + 1 /\ j \in 1 .. Len(stack)
    BY <1>0, <1>1, <2>1, <2>2, <2>5
  <2> QED
    BY <1>1, <2>3, <2>4, <2>5
<1>6. ThreadsOK'
  <2> SUFFICES ASSUME NEW u \in ThreadRefs PROVE ThreadOK(u)'
    BY DEF ThreadsOK
  <2>1. CASE u = t
    <3>1. OnStack(u)'
      BY <1>0, <1>1, <2>1 DEF OnStack
    <3> QED
      BY <1>3, <2>1, <3>1 DEF ThreadOK
  <2>2. CASE u # t
    <3>1. OnStack(u) => OnStack(u)'
      BY <1>1 DEF OnStack
    <3>2. \A c : ToRelease(u, c) => ToRelease(u, c)'
      BY <1>1, <2>2 DEF ToRelease
    <3>3. ThreadOK(u)
      BY DEF ThreadsOK
    <3> QED
      BY <1>3, <2>2, <3>1, <3>2, <3>3 DEF ThreadOK
  <2> QED
    BY <2>1, <2>2
<1>7. ClipsOK'
  BY DEF ClipsOK
<1> QED
  BY <1>4, <1>5, <1>6, <1>7

\* A loop ends, or goes on without running a thread.
LEMMA LoopMoves ==
  ASSUME ThreadsInv, ThreadsTypeOK', threads' = threads, ClipsOK', Len(stack') <= Len(stack),
         \A i \in 1 .. Len(stack') :
           /\ stack'[i].kind = stack[i].kind /\ stack'[i].thread = stack[i].thread
           /\ stack'[i].clip = stack[i].clip,
         \A t \in ThreadRefs : OnStack(t) => OnStack(t)',
         \A t \in ThreadRefs : threads[t].active /\ threads[t].blockedClip # 0
                               /\ ToRelease(t, threads[t].blockedClip)
                               => ToRelease(t, threads[t].blockedClip)',
         \A c \in 1 .. MaxSounds : sounds'[c] = "absent" => sounds[c] = "absent"
  PROVE  ThreadsInv'
<1> USE DEF ThreadsInv
<1>1. \A i \in 1 .. Len(stack') : i \in 1 .. Len(stack)
  BY DEF ThreadsTypeOK
<1>2. StackOK'
  <2> SUFFICES ASSUME NEW i \in 1 .. Len(stack') PROVE EntryOK(i)'
    BY DEF StackOK
  <2>1. EntryOK(i)
    BY <1>1 DEF StackOK
  <2> QED
    BY <2>1 DEF EntryOK
<1>3. NoThreadRunsTwice'
  BY <1>1 DEF NoThreadRunsTwice
<1>4. ThreadsOK'
  <2> SUFFICES ASSUME NEW t \in ThreadRefs PROVE ThreadOK(t)'
    BY DEF ThreadsOK
  <2>1. ThreadOK(t) /\ threads[t].blockedClip \in 0 .. MaxSounds
    BY DEF ThreadsOK, ThreadsTypeOK, ThreadStates
  <2> QED
    BY <2>1 DEF ThreadOK
<1> QED
  BY <1>2, <1>3, <1>4
-----------------------------------------------------------------------------
(* java.lang.Thread and Object.                                             *)

\* The record a running thread leaves behind when it parks.
LEMMA Parking ==
  ASSUME ThreadsInv, InThread, NEW w \in Nat, NEW o \in Monitors \cup {0}, NEW c \in 0 .. MaxSounds
  PROVE  /\ Top.thread \in ThreadRefs
         /\ Parked(w, o, c) \in ThreadStates
         /\ Parked(w, o, c).active /\ Parked(w, o, c).continuation /\ Parked(w, o, c).started
         /\ Parked(w, o, c).blockedClip = c
<1>1. stack # <<>> /\ Top.kind = "thread" /\ Len(stack) \in 1 .. Len(stack)
  BY DEF InThread, InLoop, ThreadsInv, ThreadsTypeOK
<1>2. Top.thread \in ThreadRefs /\ threads[Top.thread].active
  BY <1>1 DEF ThreadsInv, StackOK, EntryOK, Top
<1>3. threads[Top.thread] \in ThreadStates /\ threads[Top.thread].started
  BY <1>2 DEF ThreadsInv, ThreadsTypeOK, ThreadsOK, ThreadOK
<1> QED
  BY <1>2, <1>3 DEF Parked, ThreadStates

\* Leaving the stack keeps the types.
LEMMA LeavingType ==
  ASSUME ThreadsInv, InThread, NEW state \in ThreadStates, LeaveAs(state)
  PROVE  threads' \in [ThreadRefs -> ThreadStates] /\ stack' \in Seq(Entries)
<1>1. stack # <<>> /\ stack' = Popped /\ threads' = [threads EXCEPT ![Top.thread] = state]
  BY DEF InThread, InLoop, LeaveAs
<1>2. stack' \in Seq(Entries)
  BY <1>1, Popping DEF ThreadsInv
<1> QED
  BY <1>1, <1>2 DEF ThreadsInv, ThreadsTypeOK

LEMMA StartingThread ==
  ASSUME ThreadsInv, NEW t \in ThreadRefs, StartThread(t)
  PROVE  ThreadsInv'
<1> DEFINE state == [Unstarted EXCEPT !.started = TRUE, !.active = TRUE, !.wakeAt = clock]
<1>a. clock \in Nat /\ 0 \in 0 .. MaxSounds
  BY ThreadsAssumption DEF ThreadsInv, ThreadsTypeOK
<1>b. Unstarted \in ThreadStates /\ ~Unstarted.continuation /\ Unstarted.blockedClip = 0
  BY <1>a DEF ThreadStates, Unstarted
<1>1. state \in ThreadStates /\ state.started /\ state.active /\ ~state.continuation
      /\ state.blockedClip = 0
  BY <1>a, <1>b DEF ThreadStates
<1>2. /\ ~threads[t].started /\ threads' = [threads EXCEPT ![t] = state]
      /\ stack' = Append(stack, Activation(t))
      /\ clipOf' = clipOf /\ sounds' = sounds /\ clock' = clock
  BY DEF StartThread
<1> HIDE DEF state
<1>3. Activation(t) \in Entries
  BY ThreadsAssumption DEF Activation, Entries
<1>4. ThreadsTypeOK'
  BY <1>1, <1>2, <1>3 DEF ThreadsInv, ThreadsTypeOK
<1>5. ~OnStack(t)
  BY <1>2 DEF ThreadsInv, StackOK, EntryOK, ThreadsOK, ThreadOK, OnStack
<1>6. stack \in Seq(Entries)
  BY DEF ThreadsInv, ThreadsTypeOK
<1> QED
  BY <1>1, <1>2, <1>4, <1>5, <1>6, RunIt

LEMMA Yielding ==
  ASSUME ThreadsInv, NEW d \in Delays, YieldFor(d)
  PROVE  ThreadsInv'
<1>1. InThread /\ LeaveAs(Parked(clock + d, 0, 0)) /\ clipOf' = clipOf /\ sounds' = sounds
      /\ clock' = clock
  BY DEF YieldFor
<1>2. clock + d \in Nat /\ 0 \in 0 .. MaxSounds
  BY ThreadsAssumption DEF ThreadsInv, ThreadsTypeOK
<1>3. /\ Parked(clock + d, 0, 0) \in ThreadStates /\ Parked(clock + d, 0, 0).active
      /\ Parked(clock + d, 0, 0).continuation /\ Parked(clock + d, 0, 0).started
      /\ Parked(clock + d, 0, 0).blockedClip = 0
  BY <1>1, <1>2, Parking
<1>4. ThreadsTypeOK'
  BY <1>1, <1>3, LeavingType DEF ThreadsInv, ThreadsTypeOK
<1> QED
  BY <1>1, <1>3, <1>4, Leave

LEMMA Waiting ==
  ASSUME ThreadsInv, NEW d \in Delays, NEW o \in Monitors, WaitOn(o, d)
  PROVE  ThreadsInv'
<1> DEFINE w == IF d = 0 THEN Forever ELSE clock + d
<1>1. InThread /\ LeaveAs(Parked(w, o, 0)) /\ clipOf' = clipOf /\ sounds' = sounds
      /\ clock' = clock
  BY DEF WaitOn
<1>2. w \in Nat /\ 0 \in 0 .. MaxSounds
  BY ThreadsAssumption DEF ThreadsInv, ThreadsTypeOK, Forever
<1> HIDE DEF w
<1>3. /\ Parked(w, o, 0) \in ThreadStates /\ Parked(w, o, 0).active
      /\ Parked(w, o, 0).continuation /\ Parked(w, o, 0).started
      /\ Parked(w, o, 0).blockedClip = 0
  BY <1>1, <1>2, Parking
<1>4. ThreadsTypeOK'
  BY <1>1, <1>3, LeavingType DEF ThreadsInv, ThreadsTypeOK
<1> QED
  BY <1>1, <1>3, <1>4, Leave

LEMMA Ending ==
  ASSUME ThreadsInv, EndThread
  PROVE  ThreadsInv'
<1> DEFINE state == [threads[Top.thread] EXCEPT !.active = FALSE, !.continuation = FALSE]
<1>1. InThread /\ LeaveAs(state) /\ clipOf' = clipOf /\ sounds' = sounds /\ clock' = clock
  BY DEF EndThread
<1>2. stack # <<>> /\ Top.kind = "thread" /\ Len(stack) \in 1 .. Len(stack)
  BY <1>1 DEF InThread, InLoop, ThreadsInv, ThreadsTypeOK
<1>3. Top.thread \in ThreadRefs /\ threads[Top.thread].blockedClip = 0
  BY <1>2 DEF ThreadsInv, StackOK, EntryOK, Top
<1>4. threads[Top.thread] \in ThreadStates
  BY <1>3 DEF ThreadsInv, ThreadsTypeOK
<1>5. state \in ThreadStates /\ ~state.active /\ ~state.continuation /\ state.blockedClip = 0
  BY <1>3, <1>4 DEF ThreadStates
<1> HIDE DEF state
<1>6. ThreadsTypeOK'
  BY <1>1, <1>5, LeavingType DEF ThreadsInv, ThreadsTypeOK
<1> QED
  BY <1>1, <1>5, <1>6, Leave

LEMMA Notifying ==
  ASSUME ThreadsInv, NEW o \in Monitors, NEW all \in BOOLEAN, NotifyObject(o, all)
  PROVE  ThreadsInv'
<1>1. PICK S : threads' = Notified(S)
  BY DEF NotifyObject
<1>2. clock' = clock /\ clipOf' = clipOf /\ sounds' = sounds /\ stack' = stack
  BY DEF NotifyObject
<1>3. ASSUME NEW t \in ThreadRefs
      PROVE  /\ threads'[t] \in ThreadStates
             /\ threads'[t].started = threads[t].started /\ threads'[t].active = threads[t].active
             /\ threads'[t].continuation = threads[t].continuation
             /\ threads'[t].blockedClip = threads[t].blockedClip
  <2>1. threads[t] \in ThreadStates /\ clock \in Nat
    BY DEF ThreadsInv, ThreadsTypeOK
  <2>2. threads'[t] = threads[t] \/ threads'[t] = [threads[t] EXCEPT !.waitingOn = 0, !.wakeAt = clock]
    BY <1>1 DEF Notified
  <2> QED
    BY <2>1, <2>2 DEF ThreadStates
<1>4. threads' \in [ThreadRefs -> ThreadStates]
  BY <1>1, <1>3 DEF Notified
<1>5. ThreadsTypeOK'
  BY <1>2, <1>4 DEF ThreadsInv, ThreadsTypeOK
<1> QED
  BY <1>2, <1>3, <1>5, Gentle

LEMMA Interrupting ==
  ASSUME ThreadsInv, NEW u \in ThreadRefs, Interrupt(u)
  PROVE  ThreadsInv'
<1>1. /\ threads' = [threads EXCEPT ![u].wakeAt = clock]
      /\ clock' = clock /\ clipOf' = clipOf /\ sounds' = sounds /\ stack' = stack
  BY DEF Interrupt
<1>2. ASSUME NEW t \in ThreadRefs
      PROVE  /\ threads'[t] \in ThreadStates
             /\ threads'[t].started = threads[t].started /\ threads'[t].active = threads[t].active
             /\ threads'[t].continuation = threads[t].continuation
             /\ threads'[t].blockedClip = threads[t].blockedClip
  <2>1. threads[t] \in ThreadStates /\ clock \in Nat
    BY DEF ThreadsInv, ThreadsTypeOK
  <2>2. threads'[t] = threads[t] \/ threads'[t] = [threads[t] EXCEPT !.wakeAt = clock]
    BY <1>1 DEF ThreadsInv, ThreadsTypeOK
  <2> QED
    BY <2>1, <2>2 DEF ThreadStates
<1>3. threads' \in [ThreadRefs -> ThreadStates]
  BY <1>1, <1>2 DEF ThreadsInv, ThreadsTypeOK
<1>4. ThreadsTypeOK'
  BY <1>1, <1>3 DEF ThreadsInv, ThreadsTypeOK
<1> QED
  BY <1>1, <1>2, <1>4, Gentle
-----------------------------------------------------------------------------
(* com.skt.m.AudioClip.                                                     *)

\* The loop that runs a clip's waiters lists every thread parked on the clip.
LEMMA Releasing ==
  ASSUME ThreadsInv, NEW clip \in 1 .. MaxSounds, NEW opens \in SUBSET AudioClips
  PROVE  /\ Loop("release", WaitersOf(clip), clip, opens) \in Entries
         /\ Loop("release", WaitersOf(clip), clip, opens).kind = "release"
         /\ Loop("release", WaitersOf(clip), clip, opens).thread = 0
         /\ Loop("release", WaitersOf(clip), clip, opens).clip = clip
         /\ \A t \in ThreadRefs : threads[t].active /\ threads[t].blockedClip = clip =>
              t \in Loop("release", WaitersOf(clip), clip, opens).todo
<1>1. WaitersOf(clip) \subseteq ThreadRefs /\ clip \in 0 .. MaxSounds /\ clip # 0
  BY ThreadsAssumption DEF WaitersOf
<1>2. InThread => threads[Top.thread].blockedClip = 0
  <2>1. InThread => stack # <<>> /\ Top.kind = "thread" /\ Len(stack) \in 1 .. Len(stack)
    BY DEF InThread, InLoop, ThreadsInv, ThreadsTypeOK
  <2> QED
    BY <2>1 DEF ThreadsInv, StackOK, EntryOK, Top
<1>3. \A t \in ThreadRefs : threads[t].active /\ threads[t].blockedClip = clip => t \in WaitersOf(clip)
  BY <1>1, <1>2 DEF WaitersOf
<1> QED
  BY <1>1, <1>3 DEF Loop, Entries

LEMMA Playing ==
  ASSUME ThreadsInv, NEW a \in AudioClips, PlayClip(a)
  PROVE  ThreadsInv'
<1>1. /\ clipOf[a] # 0 /\ sounds' = [sounds EXCEPT ![clipOf[a]] = "playing"]
      /\ clock' = clock /\ clipOf' = clipOf
  BY DEF PlayClip
<1>2. clipOf[a] \in 1 .. MaxSounds /\ clipOf[a] \in 0 .. MaxSounds
  BY <1>1, ThreadsAssumption DEF ThreadsInv, ThreadsTypeOK
<1>3. /\ sounds' \in [1 .. MaxSounds -> SoundStates] /\ sounds'[clipOf[a]] = "playing"
      /\ \A c \in 1 .. MaxSounds : sounds'[c] = "absent" => sounds[c] = "absent"
  BY <1>1, <1>2 DEF ThreadsInv, ThreadsTypeOK, SoundStates
<1>4. CASE InThread
  <2> DEFINE state == Parked(clock, 0, clipOf[a])
  <2>1. LeaveAs(state) /\ clock \in Nat
    BY <1>4 DEF PlayClip, ThreadsInv, ThreadsTypeOK
  <2>2. /\ state \in ThreadStates /\ state.active /\ state.continuation /\ state.started
        /\ state.blockedClip = clipOf[a]
    BY <1>2, <1>4, <2>1, Parking
  <2> HIDE DEF state
  <2>3. ThreadsTypeOK'
    BY <1>1, <1>3, <1>4, <2>1, <2>2, LeavingType DEF ThreadsInv, ThreadsTypeOK
  <2> QED
    BY <1>1, <1>3, <1>4, <2>1, <2>2, <2>3, Leave
<1>5. CASE ~InThread
  <2>1. threads' = threads /\ stack' = stack
    BY <1>5 DEF PlayClip
  <2>2. ThreadsTypeOK'
    BY <1>1, <1>3, <2>1 DEF ThreadsInv, ThreadsTypeOK
  <2> QED
    BY <1>1, <1>3, <2>1, <2>2, Gentle
<1> QED
  BY <1>4, <1>5

\* stop, and open of an open clip: the waiters are run.
LEMMA Stopping ==
  ASSUME ThreadsInv, NEW a \in AudioClips, NEW opens \in SUBSET AudioClips,
         clipOf[a] # 0, Silence(clipOf[a], "stopped"), Release(clipOf[a], opens),
         clock' = clock, threads' = threads, clipOf' = clipOf
  PROVE  ThreadsInv'
<1> DEFINE e == Loop("release", WaitersOf(clipOf[a]), clipOf[a], opens)
<1>1. sounds' = [sounds EXCEPT ![clipOf[a]] = "stopped"] /\ stack' = Append(stack, e)
  BY DEF Silence, Release
<1>2. clipOf[a] \in 1 .. MaxSounds
  BY ThreadsAssumption DEF ThreadsInv, ThreadsTypeOK
<1>3. e \in Entries /\ e.kind = "release" /\ e.thread = 0 /\ e.clip = clipOf[a]
  BY <1>2, Releasing
<1> HIDE DEF e
<1>4. /\ sounds' \in [1 .. MaxSounds -> SoundStates]
      /\ \A c \in 1 .. MaxSounds : sounds'[c] = "absent" => sounds[c] = "absent"
  BY <1>1, <1>2 DEF ThreadsInv, ThreadsTypeOK, SoundStates
<1>5. ThreadsTypeOK'
  BY <1>1, <1>3, <1>4 DEF ThreadsInv, ThreadsTypeOK
<1>6. ClipsOK'
  BY <1>4 DEF ThreadsInv, ClipsOK, ThreadsTypeOK
<1>7. \A t \in ThreadRefs : threads[t].blockedClip # 0 => threads[t].blockedClip \in 1 .. MaxSounds
  BY ThreadsAssumption DEF ThreadsInv, ThreadsTypeOK, ThreadStates
<1> QED
  BY <1>1, <1>3, <1>4, <1>5, <1>6, <1>7, EnterLoop

LEMMA Closing ==
  ASSUME ThreadsInv, NEW a \in AudioClips, CloseClip(a)
  PROVE  ThreadsInv'
<1> DEFINE e == Loop("release", WaitersOf(clipOf[a]), clipOf[a], {})
<1>1. /\ clipOf[a] # 0 /\ clock' = clock /\ threads' = threads
      /\ sounds' = [sounds EXCEPT ![clipOf[a]] = "absent"] /\ stack' = Append(stack, e)
      /\ clipOf' = [clipOf EXCEPT ![a] = 0]
  BY DEF CloseClip, Silence, Release
<1>2. clipOf[a] \in 1 .. MaxSounds /\ 0 \in 0 .. MaxSounds
  BY <1>1, ThreadsAssumption DEF ThreadsInv, ThreadsTypeOK
<1>3. /\ e \in Entries /\ e.kind = "release" /\ e.thread = 0 /\ e.clip = clipOf[a]
      /\ \A t \in ThreadRefs : threads[t].active /\ threads[t].blockedClip = clipOf[a] => t \in e.todo
  BY <1>2, Releasing
<1> HIDE DEF e
<1>4. /\ sounds' \in [1 .. MaxSounds -> SoundStates]
      /\ \A c \in 1 .. MaxSounds : c # clipOf[a] => sounds'[c] = sounds[c]
  BY <1>1, <1>2 DEF ThreadsInv, ThreadsTypeOK, SoundStates
<1>5. ThreadsTypeOK'
  BY <1>1, <1>2, <1>3, <1>4 DEF ThreadsInv, ThreadsTypeOK
<1>6. ClipsOK'
  BY <1>1, <1>4 DEF ThreadsInv, ClipsOK, ThreadsTypeOK
<1>7. \A t \in ThreadRefs : threads[t].blockedClip # 0 => threads[t].blockedClip \in 1 .. MaxSounds
  BY ThreadsAssumption DEF ThreadsInv, ThreadsTypeOK, ThreadStates
<1> QED
  BY <1>1, <1>3, <1>4, <1>5, <1>6, <1>7, EnterLoop

\* A media clip for a closed AudioClip is one nobody has.
LEMMA Creating ==
  ASSUME ThreadsInv, NEW a \in AudioClips, CreateClip(a)
  PROVE  /\ clipOf' \in [AudioClips -> 0 .. MaxSounds] /\ sounds' \in [1 .. MaxSounds -> SoundStates]
         /\ ClipsOK'
         /\ \A c \in 1 .. MaxSounds : sounds'[c] = "absent" => sounds[c] = "absent"
<1>1. PICK c \in FreeSounds : /\ sounds' = [sounds EXCEPT ![c] = "stopped"]
                              /\ clipOf' = [clipOf EXCEPT ![a] = c]
  BY DEF CreateClip
<1>2. c \in 1 .. MaxSounds /\ sounds[c] = "absent"
  BY DEF FreeSounds, ThreadsInv, ThreadsTypeOK
<1>3. /\ sounds' \in [1 .. MaxSounds -> SoundStates] /\ sounds'[c] = "stopped"
      /\ \A d \in 1 .. MaxSounds : d # c => sounds'[d] = sounds[d]
  BY <1>1, <1>2 DEF ThreadsInv, ThreadsTypeOK, SoundStates
<1>4. /\ clipOf' \in [AudioClips -> 0 .. MaxSounds] /\ clipOf'[a] = c
      /\ \A b \in AudioClips : b # a => clipOf'[b] = clipOf[b]
  BY <1>1, <1>2 DEF ThreadsInv, ThreadsTypeOK
<1>5. \A b \in AudioClips : clipOf[b] # 0 => clipOf[b] \in 1 .. MaxSounds /\ clipOf[b] # c
  BY <1>2, ThreadsAssumption DEF ThreadsInv, ClipsOK, ThreadsTypeOK
<1>6. ClipsOK'
  BY <1>3, <1>4, <1>5 DEF ThreadsInv, ClipsOK
<1> QED
  BY <1>2, <1>3, <1>4, <1>6

LEMMA Opening ==
  ASSUME ThreadsInv, NEW a \in AudioClips, OpenClip(a)
  PROVE  ThreadsInv'
<1>1. clock' = clock /\ threads' = threads
  BY DEF OpenClip
<1>2. CASE clipOf[a] = 0
  <2>1. CreateClip(a) /\ stack' = stack
    BY <1>2 DEF OpenClip
  <2>2. /\ clipOf' \in [AudioClips -> 0 .. MaxSounds] /\ sounds' \in [1 .. MaxSounds -> SoundStates]
        /\ ClipsOK'
        /\ \A c \in 1 .. MaxSounds : sounds'[c] = "absent" => sounds[c] = "absent"
    BY <2>1, Creating
  <2>3. ThreadsTypeOK' /\ Len(stack) \in Nat
    BY <1>1, <2>1, <2>2 DEF ThreadsInv, ThreadsTypeOK
  <2>4. \A t \in ThreadRefs : OnStack(t) => OnStack(t)'
    BY <2>1 DEF OnStack
  <2>5. \A t \in ThreadRefs : ToRelease(t, threads[t].blockedClip) => ToRelease(t, threads[t].blockedClip)'
    BY <1>1, <2>1 DEF ToRelease
  <2> QED
    BY <1>1, <2>1, <2>2, <2>3, <2>4, <2>5, LoopMoves
<1>3. CASE clipOf[a] # 0
  <2>1. Silence(clipOf[a], "stopped") /\ Release(clipOf[a], {a}) /\ clipOf' = clipOf
    BY <1>3 DEF OpenClip
  <2> QED
    BY <1>1, <1>3, <2>1, Stopping
<1> QED
  BY <1>2, <1>3

LEMMA Pausing ==
  ASSUME ThreadsInv, NEW a \in AudioClips, NEW from, NEW to \in {"playing", "paused"},
         PauseClip(a, from, to)
  PROVE  ThreadsInv'
<1>1. /\ clipOf[a] # 0 /\ sounds' = [sounds EXCEPT ![clipOf[a]] = to]
      /\ clock' = clock /\ threads' = threads /\ clipOf' = clipOf /\ stack' = stack
  BY DEF PauseClip
<1>2. clipOf[a] \in 1 .. MaxSounds
  BY <1>1, ThreadsAssumption DEF ThreadsInv, ThreadsTypeOK
<1>3. /\ sounds' \in [1 .. MaxSounds -> SoundStates]
      /\ \A c \in 1 .. MaxSounds : sounds'[c] = "absent" => sounds[c] = "absent"
  BY <1>1, <1>2 DEF ThreadsInv, ThreadsTypeOK, SoundStates
<1>4. ThreadsTypeOK'
  BY <1>1, <1>3 DEF ThreadsInv, ThreadsTypeOK
<1> QED
  BY <1>1, <1>3, <1>4, Gentle
-----------------------------------------------------------------------------
(* Time, and the two loops.                                                 *)

\* Time passes: a clip that runs out stops, and stays.
LEMMA Elapsing ==
  ASSUME ThreadsInv, NEW d \in Delays, TimePasses(d)
  PROVE  /\ clock' \in Nat /\ stack = <<>>
         /\ sounds' \in [1 .. MaxSounds -> SoundStates]
         /\ \A c \in 1 .. MaxSounds : sounds'[c] = "absent" => sounds[c] = "absent"
<1>1. clock' \in Nat /\ stack = <<>>
  BY ThreadsAssumption DEF TimePasses, InCallback, ThreadsInv, ThreadsTypeOK
<1>2. PICK over : sounds' = [c \in DOMAIN sounds |-> IF c \in over THEN "stopped" ELSE sounds[c]]
  BY DEF TimePasses
<1>3. DOMAIN sounds = 1 .. MaxSounds /\ sounds \in [1 .. MaxSounds -> SoundStates]
  BY DEF ThreadsInv, ThreadsTypeOK
<1> QED
  BY <1>1, <1>2, <1>3 DEF SoundStates

LEMMA Sleeping ==
  ASSUME ThreadsInv, NEW d \in Delays, CallbackSleeps(d)
  PROVE  ThreadsInv'
<1>1. TimePasses(d) /\ threads' = threads /\ clipOf' = clipOf /\ stack' = stack
  BY DEF CallbackSleeps
<1>2. ThreadsTypeOK'
  BY <1>1, Elapsing DEF ThreadsInv, ThreadsTypeOK
<1> QED
  BY <1>1, <1>2, Elapsing, Gentle

LEMMA Advancing ==
  ASSUME ThreadsInv, NEW d \in Delays, Advance(d)
  PROVE  ThreadsInv'
<1> DEFINE e == Loop("ready", Ready', 0, {})
<1>1. TimePasses(d) /\ threads' = threads /\ clipOf' = clipOf /\ stack' = <<e>>
  BY DEF Advance
<1>2. /\ clock' \in Nat /\ stack = <<>>
      /\ sounds' \in [1 .. MaxSounds -> SoundStates]
      /\ \A c \in 1 .. MaxSounds : sounds'[c] = "absent" => sounds[c] = "absent"
  BY <1>1, Elapsing
<1>3. Ready' \subseteq ThreadRefs /\ 0 \in 0 .. MaxSounds
  BY ThreadsAssumption DEF Ready
<1>4. e \in Entries /\ e.kind = "ready" /\ e.thread = 0
  BY <1>3 DEF Loop, Entries
<1> HIDE DEF e
<1>5. stack' = Append(stack, e)
  BY <1>1, <1>2, <1>4
<1>6. ThreadsTypeOK'
  BY <1>1, <1>2, <1>4, <1>5 DEF ThreadsInv, ThreadsTypeOK
<1>7. ClipsOK'
  BY <1>1, <1>2 DEF ThreadsInv, ClipsOK, ThreadsTypeOK
<1>8. \A t \in ThreadRefs : threads[t].blockedClip # 0 => threads[t].blockedClip \in 1 .. MaxSounds
  BY ThreadsAssumption DEF ThreadsInv, ThreadsTypeOK, ThreadStates
<1> QED
  BY <1>1, <1>2, <1>4, <1>5, <1>6, <1>7, <1>8, EnterLoop

\* A loop takes the next thread of its list, and runs it or passes over it.
LEMMA RunningNext ==
  ASSUME ThreadsInv, RunNext
  PROVE  ThreadsInv'
<1>1. stack # <<>>
  BY DEF RunNext
<1>2. PICK t \in Top.todo :
        \/ /\ \/ Top.kind = "ready" /\ StillReady(t)
              \/ Top.kind = "release" /\ StillWaits(t, Top.clip)
           /\ RunThread(t, Taken(t))
        \/ /\ ~(Top.kind = "ready" /\ StillReady(t))
           /\ ~(Top.kind = "release" /\ StillWaits(t, Top.clip))
           /\ stack' = Taken(t)
           /\ clock' = clock /\ threads' = threads /\ clipOf' = clipOf /\ sounds' = sounds
  BY DEF RunNext, Taken
<1>3. Top \in Entries /\ Len(stack) \in 1 .. Len(stack)
  BY <1>1 DEF ThreadsInv, ThreadsTypeOK, Top
<1>4. t \in ThreadRefs
  BY <1>3 DEF Entries
<1>5. /\ Taken(t) \in Seq(Entries) /\ Len(Taken(t)) = Len(stack) /\ Len(stack) \in Nat \ {0}
      /\ \A i \in 1 .. Len(stack) :
           /\ Taken(t)[i].kind = stack[i].kind /\ Taken(t)[i].thread = stack[i].thread
           /\ Taken(t)[i].clip = stack[i].clip
           /\ \A u : u \in stack[i].todo => u \in Taken(t)[i].todo \/ (u = t /\ stack[i] = Top)
  BY <1>1, <1>4, Taking DEF ThreadsInv
<1>6. CASE /\ \/ Top.kind = "ready" /\ StillReady(t)
              \/ Top.kind = "release" /\ StillWaits(t, Top.clip)
           /\ RunThread(t, Taken(t))
  <2> DEFINE state == [threads[t] EXCEPT !.waitingOn = 0, !.blockedClip = 0, !.continuation = FALSE]
  <2>1. /\ threads' = Resumed(t) /\ stack' = Append(Taken(t), Activation(t))
        /\ clock' = clock /\ clipOf' = clipOf /\ sounds' = sounds
    BY <1>6 DEF RunThread
  <2>2. threads[t] \in ThreadStates /\ threads[t].active /\ threads[t].started
    BY <1>4, <1>6 DEF StillReady, StillWaits, ThreadsInv, ThreadsTypeOK, ThreadsOK, ThreadOK
  <2>3. threads' = [threads EXCEPT ![t] = state]
    BY <1>4, <2>1 DEF Resumed, ThreadsInv, ThreadsTypeOK
  <2>4. 0 \in 0 .. MaxSounds
    BY ThreadsAssumption
  <2>5. /\ state \in ThreadStates /\ state.started /\ state.active /\ ~state.continuation
        /\ state.blockedClip = 0
    BY <2>2, <2>4 DEF ThreadStates
  <2> HIDE DEF state
  <2>6. Activation(t) \in Entries
    BY <1>4, <2>4 DEF Activation, Entries
  <2>7. ThreadsTypeOK'
    BY <1>4, <1>5, <2>1, <2>3, <2>5, <2>6 DEF ThreadsInv, ThreadsTypeOK
  <2>8. ~OnStack(t)
    <3>1. CASE Top.kind = "ready"
      <4>1. Len(stack) = 1
        BY <1>3, <3>1 DEF ThreadsInv, StackOK, EntryOK, Top
      <4> QED
        BY <3>1, <4>1 DEF OnStack, Top
    <3>2. CASE Top.kind = "release" /\ StillWaits(t, Top.clip)
      <4>1. Top.clip # 0
        BY <1>3, <3>2 DEF ThreadsInv, StackOK, EntryOK, Top
      <4>2. threads[t].blockedClip # 0
        BY <3>2, <4>1 DEF StillWaits
      <4> QED
        BY <4>2 DEF OnStack, ThreadsInv, StackOK, EntryOK
    <3> QED
      BY <1>6, <3>1, <3>2
  <2> QED
    BY <1>4, <1>5, <2>1, <2>3, <2>5, <2>7, <2>8, RunIt
<1>7. CASE /\ ~(Top.kind = "ready" /\ StillReady(t))
           /\ ~(Top.kind = "release" /\ StillWaits(t, Top.clip))
           /\ stack' = Taken(t)
           /\ clock' = clock /\ threads' = threads /\ clipOf' = clipOf /\ sounds' = sounds
  <2>1. ThreadsTypeOK' /\ ClipsOK'
    BY <1>5, <1>7 DEF ThreadsInv, ThreadsTypeOK, ClipsOK
  <2>2. \A u \in ThreadRefs : OnStack(u) => OnStack(u)'
    BY <1>5, <1>7 DEF OnStack
  <2>3. ASSUME NEW u \in ThreadRefs, threads[u].active, threads[u].blockedClip # 0,
               ToRelease(u, threads[u].blockedClip)
        PROVE  ToRelease(u, threads[u].blockedClip)'
    <3>1. PICK i \in 1 .. Len(stack) :
            stack[i].kind = "release" /\ stack[i].clip = threads[u].blockedClip /\ u \in stack[i].todo
      BY <2>3 DEF ToRelease
    <3>2. u \in Taken(t)[i].todo
      BY <1>5, <1>7, <2>3, <3>1 DEF StillWaits
    <3> QED
      BY <1>5, <1>7, <3>1, <3>2 DEF ToRelease
  <2> QED
    BY <1>5, <1>7, <2>1, <2>2, <2>3, LoopMoves
<1> QED
  BY <1>2, <1>6, <1>7

\* A loop through with its list leaves the stack; nobody waits for it.
LEMMA LoopEnds ==
  ASSUME ThreadsInv, stack # <<>>, Top.kind # "thread", Top.todo = {}, stack' = Popped,
         threads' = threads, clock' = clock, ClipsOK',
         clipOf' \in [AudioClips -> 0 .. MaxSounds], sounds' \in [1 .. MaxSounds -> SoundStates],
         \A c \in 1 .. MaxSounds : sounds'[c] = "absent" => sounds[c] = "absent"
  PROVE  ThreadsInv'
<1>1. /\ stack' \in Seq(Entries) /\ Len(stack) \in Nat \ {0} /\ Len(stack') = Len(stack) - 1
      /\ \A i \in 1 .. Len(stack') : stack'[i] = stack[i]
      /\ \A t : OnStack(t) => OnStack(t)'
      /\ \A t, c : ToRelease(t, c) => ToRelease(t, c)'
  BY Popping DEF ThreadsInv
<1>2. ThreadsTypeOK' /\ Len(stack') <= Len(stack)
  BY <1>1 DEF ThreadsInv, ThreadsTypeOK
<1>3. \A t \in ThreadRefs : ToRelease(t, threads[t].blockedClip) => ToRelease(t, threads[t].blockedClip)'
  <2>1. ASSUME NEW t \in ThreadRefs, ToRelease(t, threads[t].blockedClip)
        PROVE  ToRelease(t, threads[t].blockedClip)'
    <3>1. PICK i \in 1 .. Len(stack) :
            stack[i].kind = "release" /\ stack[i].clip = threads[t].blockedClip /\ t \in stack[i].todo
      BY <2>1 DEF ToRelease
    <3>2. i # Len(stack)
      BY <3>1 DEF Top
    <3>3. i \in 1 .. Len(stack')
      BY <1>1, <3>2
    <3> QED
      BY <1>1, <3>1, <3>3 DEF ToRelease
  <2> QED
    BY <2>1
<1> QED
  BY <1>1, <1>2, <1>3, LoopMoves

LEMMA ReleaseEnding ==
  ASSUME ThreadsInv, ReleaseEnds
  PROVE  ThreadsInv'
<1>1. /\ stack # <<>> /\ Top.kind = "release" /\ Top.todo = {} /\ stack' = Popped
      /\ threads' = threads /\ clock' = clock
      /\ IF Top.opens = {} THEN UNCHANGED <<clipOf, sounds>> ELSE \E a \in Top.opens : OpenEnds(a)
  BY DEF ReleaseEnds, InLoop
<1>2. Top \in Entries
  BY <1>1 DEF ThreadsInv, ThreadsTypeOK, Top
<1>3. \/ clipOf' = clipOf /\ sounds' = sounds
      \/ \E a \in AudioClips : CreateClip(a)
  BY <1>1, <1>2 DEF OpenEnds, Entries
<1>4. CASE clipOf' = clipOf /\ sounds' = sounds
  <2>1. ClipsOK' /\ clipOf' \in [AudioClips -> 0 .. MaxSounds] /\ sounds' \in [1 .. MaxSounds -> SoundStates]
    BY <1>4 DEF ThreadsInv, ClipsOK, ThreadsTypeOK
  <2> QED
    BY <1>1, <1>4, <2>1, LoopEnds
<1>5. CASE \E a \in AudioClips : CreateClip(a)
  BY <1>1, <1>5, Creating, LoopEnds
<1> QED
  BY <1>3, <1>4, <1>5

LEMMA RoundEnding ==
  ASSUME ThreadsInv, RoundEnds
  PROVE  ThreadsInv'
<1>1. /\ stack # <<>> /\ Top.kind = "ready" /\ Top.todo = {} /\ stack' = Popped
      /\ threads' = threads /\ clock' = clock /\ clipOf' = clipOf /\ sounds' = sounds
  BY DEF RoundEnds, InLoop
<1>2. ClipsOK' /\ clipOf' \in [AudioClips -> 0 .. MaxSounds] /\ sounds' \in [1 .. MaxSounds -> SoundStates]
  BY <1>1 DEF ThreadsInv, ClipsOK, ThreadsTypeOK
<1> QED
  BY <1>1, <1>2, LoopEnds

\* A new machine: no thread, no clip, nothing runs.
LEMMA NewMachine ==
  ASSUME clock = 0, stack = <<>>, threads = NoThreads, clipOf = NoClips, sounds = NoSounds
  PROVE  ThreadsInv
<1>1. 0 \in 0 .. MaxSounds /\ 0 \in Nat
  BY ThreadsAssumption
<1>2. Unstarted \in ThreadStates /\ ~Unstarted.active /\ ~Unstarted.continuation
      /\ Unstarted.blockedClip = 0
  BY <1>1 DEF Unstarted, ThreadStates
<1>3. \A t \in ThreadRefs : threads[t] = Unstarted
  BY DEF NoThreads
<1>4. ThreadsTypeOK
  BY <1>1, <1>2 DEF ThreadsTypeOK, NoThreads, NoClips, NoSounds, SoundStates
<1>5. StackOK /\ NoThreadRunsTwice
  BY DEF StackOK, NoThreadRunsTwice
<1>6. ThreadsOK
  BY <1>2, <1>3 DEF ThreadsOK, ThreadOK
<1>7. ClipsOK
  BY DEF ClipsOK, NoClips
<1> QED
  BY <1>4, <1>5, <1>6, <1>7 DEF ThreadsInv

-----------------------------------------------------------------------------
(* The theorems.                                                            *)

\* One case for each native, each step of a loop and each Advance.
LEMMA ThreadsStep ==
  ASSUME ThreadsInv, [ThreadsNext]_threadVars
  PROVE  ThreadsInv'
<1>1. CASE ThreadNative
  <2>1. CASE EndThread
    BY <2>1, Ending
  <2>2. ASSUME NEW t \in ThreadRefs, StartThread(t) \/ Interrupt(t) PROVE ThreadsInv'
    BY <2>2, StartingThread, Interrupting
  <2>3. ASSUME NEW d \in Delays, YieldFor(d) \/ CallbackSleeps(d) \/ \E o \in Monitors : WaitOn(o, d)
        PROVE  ThreadsInv'
    BY <2>3, Yielding, Sleeping, Waiting
  <2>4. ASSUME NEW o \in Monitors, NEW all \in BOOLEAN, NotifyObject(o, all) PROVE ThreadsInv'
    BY <2>4, Notifying
  <2> QED
    BY <1>1, <2>1, <2>2, <2>3, <2>4 DEF ThreadNative
<1>2. CASE ClipNative
  <2>1. PICK a \in AudioClips :
          \/ PlayClip(a) \/ StopClip(a) \/ CloseClip(a) \/ OpenClip(a)
          \/ PauseClip(a, "playing", "paused") \/ PauseClip(a, "paused", "playing")
    BY <1>2 DEF ClipNative
  <2>2. CASE StopClip(a)
    <3>1. /\ clipOf[a] # 0 /\ Silence(clipOf[a], "stopped") /\ Release(clipOf[a], {})
          /\ clock' = clock /\ threads' = threads /\ clipOf' = clipOf
      BY <2>2 DEF StopClip
    <3> QED
      BY <3>1, Stopping
  <2>3. CASE PlayClip(a) \/ CloseClip(a) \/ OpenClip(a)
    BY <2>3, Playing, Closing, Opening
  <2>4. CASE PauseClip(a, "playing", "paused") \/ PauseClip(a, "paused", "playing")
    BY <2>4, Pausing
  <2> QED
    BY <2>1, <2>2, <2>3, <2>4
<1>3. CASE RunNext \/ ReleaseEnds \/ RoundEnds
  BY <1>3, RunningNext, ReleaseEnding, RoundEnding
<1>4. CASE TitleFails
  <2>1. (clock = 0 /\ stack = <<>> /\ threads = NoThreads /\ clipOf = NoClips /\ sounds = NoSounds)'
    BY <1>4 DEF TitleFails, NoThreads, NoClips, NoSounds
  <2> QED
    BY <2>1, NewMachine, PTL
<1>5. CASE \E d \in Delays : Advance(d)
  BY <1>5, Advancing
<1>6. CASE UNCHANGED threadVars
  <2>1. clock' = clock /\ threads' = threads /\ clipOf' = clipOf /\ sounds' = sounds /\ stack' = stack
    BY <1>6 DEF threadVars
  <2>2. ThreadsTypeOK'
    BY <2>1 DEF ThreadsInv, ThreadsTypeOK
  <2> QED
    BY <2>1, <2>2, Gentle
<1> QED
  BY <1>1, <1>2, <1>3, <1>4, <1>5, <1>6 DEF ThreadsNext

\* Everything the threads, the clips and the stack keep true of each other.
THEOREM ThreadsInvariant == ThreadsSpec => []ThreadsInv
<1>1. ThreadsInit => ThreadsInv
  BY NewMachine DEF ThreadsInit
<1> QED
  BY <1>1, ThreadsStep, PTL DEF ThreadsSpec

\* No thread is ever run inside itself, however threads start, wake, stop and
\* close each other's clips from within each other (runThread, threads.go).
THEOREM OneActivation == ThreadsSpec => []NoThreadRunsTwice
<1>1. ThreadsInv => NoThreadRunsTwice
  BY DEF ThreadsInv
<1> QED
  BY <1>1, ThreadsInvariant, PTL

\* What SaveState writes of the threads between two steps of the machine,
\* LoadState accepts (validateState, state.go).
THEOREM SavedThreads == ThreadsSpec => []SavedThreadsLoad
<1>1. ThreadsInv => SavedThreadsLoad
  <2> SUFFICES ASSUME ThreadsInv, stack = <<>>, NEW t \in ThreadRefs
               PROVE  /\ threads[t].active <=> threads[t].continuation
                      /\ threads[t].blockedClip # 0 => sounds[threads[t].blockedClip] # "absent"
    BY DEF SavedThreadsLoad
  <2>1. ThreadOK(t)
    BY DEF ThreadsInv, ThreadsOK
  <2>2. ~OnStack(t) /\ \A c : ~ToRelease(t, c)
    BY DEF OnStack, ToRelease
  <2>3. threads[t].active \in BOOLEAN /\ threads[t].continuation \in BOOLEAN
    BY DEF ThreadsInv, ThreadsTypeOK, ThreadStates
  <2> QED
    BY <2>1, <2>2, <2>3 DEF ThreadOK
<1> QED
  BY <1>1, ThreadsInvariant, PTL

-----------------------------------------------------------------------------
(* A round of runReadyThreads.                                              *)

\* What will become of a thread that was due: the round has it on its list, the
\* clip it plays sounds, or the loop that stopped the clip will run it.
Comes(t) == t \in stack[1].todo \/ Blocked(t) \/ ToRelease(t, threads[t].blockedClip)

RunningWaitOnNothing ==
  \A i \in 1 .. Len(stack) : stack[i].kind = "thread" => threads[stack[i].thread].waitingOn = 0
DueStayDue == \A t \in owed \cup turn : threads[t].continuation /\ threads[t].wakeAt <= clock

RoundInv ==
  /\ owed \in SUBSET ThreadRefs /\ turn \in SUBSET ThreadRefs
  /\ RunningWaitOnNothing /\ DueStayDue
  /\ turn # {} => stack # <<>> /\ stack[1].kind = "ready"
  /\ \A t \in turn : Comes(t)

Sounding(c) == sounds[c] \in {"playing", "paused"}

\* A thread that is due is not running, and only the clip it plays can block it.
LEMMA DueThread ==
  ASSUME ThreadsInv, RoundInv, NEW t \in owed \cup turn
  PROVE  /\ t \in ThreadRefs /\ threads[t] \in ThreadStates /\ threads[t].active /\ ~OnStack(t)
         /\ threads[t].wakeAt <= clock /\ clock \in Nat
         /\ Blocked(t) <=> /\ threads[t].waitingOn = 0 /\ threads[t].blockedClip # 0
                           /\ Sounding(threads[t].blockedClip)
<1>1. t \in ThreadRefs /\ threads[t].continuation /\ threads[t].wakeAt <= clock
  BY DEF RoundInv, DueStayDue
<1>2. threads[t] \in ThreadStates /\ clock \in Nat /\ threads[t].active
  BY <1>1 DEF ThreadsInv, ThreadsTypeOK, ThreadsOK, ThreadOK
<1>3. ~OnStack(t)
  BY <1>1 DEF ThreadsInv, StackOK, EntryOK, OnStack
<1>4. ~(threads[t].wakeAt > clock)
  BY <1>1, <1>2 DEF ThreadStates
<1> QED
  BY <1>1, <1>2, <1>3, <1>4 DEF Blocked, Sounding

\* A step that leaves the stack as it is: threads are notified or interrupted,
\* clips begin to sound.
LEMMA RoundStays ==
  ASSUME ThreadsInv, RoundInv, stack' = stack, clock' = clock, turn' = turn,
         owed' \in SUBSET ThreadRefs,
         \A t \in ThreadRefs :
           /\ threads'[t].continuation = threads[t].continuation
           /\ threads'[t].blockedClip = threads[t].blockedClip
           /\ threads'[t].waitingOn \in {0, threads[t].waitingOn}
           /\ threads'[t].wakeAt \in {threads[t].wakeAt, clock},
         \A t \in owed' \ owed : threads[t].continuation /\ threads'[t].wakeAt = clock,
         \A t \in ThreadRefs : threads[t].blockedClip # 0 /\ Sounding(threads[t].blockedClip) =>
           Sounding(threads[t].blockedClip)'
  PROVE  RoundInv'
<1>1. clock \in Nat /\ turn \in SUBSET ThreadRefs
  BY DEF RoundInv, ThreadsInv, ThreadsTypeOK
<1>2. RunningWaitOnNothing'
  <2> SUFFICES ASSUME NEW i \in 1 .. Len(stack), stack[i].kind = "thread"
               PROVE  threads'[stack[i].thread].waitingOn = 0
    BY DEF RunningWaitOnNothing
  <2>1. stack[i].thread \in ThreadRefs /\ threads[stack[i].thread].waitingOn = 0
    BY DEF ThreadsInv, StackOK, EntryOK, RoundInv, RunningWaitOnNothing
  <2> QED
    BY <2>1
<1>3. DueStayDue'
  <2> SUFFICES ASSUME NEW t \in owed' \cup turn
               PROVE  threads'[t].continuation /\ threads'[t].wakeAt <= clock
    BY DEF DueStayDue
  <2>1. t \in ThreadRefs
    BY <1>1
  <2>2. CASE t \in owed \cup turn
    BY <1>1, <2>1, <2>2, DueThread DEF RoundInv, DueStayDue
  <2>3. CASE t \in owed' \ owed
    BY <1>1, <2>1, <2>3
  <2> QED
    BY <2>2, <2>3
<1>4. ASSUME NEW t \in turn PROVE Comes(t)'
  <2>1. t \in ThreadRefs /\ Comes(t)
    BY DEF RoundInv
  <2>2. CASE Blocked(t)
    <3>1. /\ threads[t].waitingOn = 0 /\ threads[t].blockedClip # 0
          /\ Sounding(threads[t].blockedClip)
      BY <2>2, DueThread
    <3>2. Blocked(t)'
      BY <2>1, <3>1 DEF Blocked, Sounding
    <3> QED
      BY <3>2 DEF Comes
  <2>3. CASE ~Blocked(t)
    BY <2>1, <2>3 DEF Comes, ToRelease
  <2> QED
    BY <2>2, <2>3
<1> QED
  BY <1>1, <1>2, <1>3, <1>4 DEF RoundInv

\* The running thread leaves the stack; nobody who is due was running.
LEMMA RoundLeft ==
  ASSUME ThreadsInv, RoundInv, InThread, NEW state, LeaveAs(state),
         UNCHANGED <<clock, turn, owed>>,
         \A c \in 1 .. MaxSounds : Sounding(c) => Sounding(c)'
  PROVE  RoundInv'
<1>1. stack # <<>> /\ Top.kind = "thread" /\ stack' = Popped
      /\ threads' = [threads EXCEPT ![Top.thread] = state]
  BY DEF InThread, InLoop, LeaveAs
<1>2. /\ Len(stack) \in Nat \ {0} /\ Len(stack') = Len(stack) - 1
      /\ \A i \in 1 .. Len(stack') : i \in 1 .. Len(stack) /\ i # Len(stack) /\ stack'[i] = stack[i]
      /\ \A t, c : ToRelease(t, c) => ToRelease(t, c)'
  BY <1>1, Popping DEF ThreadsInv
<1>3. /\ \A i \in 1 .. Len(stack') : stack[i].kind = "thread" => stack[i].thread # Top.thread
      /\ \A i \in 1 .. Len(stack) : stack[i].kind = "thread" => stack[i].thread \in ThreadRefs
  BY <1>1, <1>2 DEF ThreadsInv, NoThreadRunsTwice, StackOK, EntryOK, Top
<1>4. \A t \in ThreadRefs : t # Top.thread => threads'[t] = threads[t]
  BY <1>1 DEF ThreadsInv, ThreadsTypeOK
<1>5. OnStack(Top.thread)
  BY <1>1, <1>2 DEF OnStack, Top
<1>6. \A t \in owed \cup turn : t \in ThreadRefs /\ threads'[t] = threads[t]
  BY <1>4, <1>5, DueThread
<1>7. RunningWaitOnNothing'
  BY <1>2, <1>3, <1>4 DEF RunningWaitOnNothing, RoundInv
<1>8. ASSUME turn # {} PROVE stack' # <<>> /\ stack'[1] = stack[1] /\ stack[1].kind = "ready"
  <2>1. stack[1].kind = "ready"
    BY <1>8 DEF RoundInv
  <2>2. Len(stack) # 1
    BY <1>1, <2>1 DEF Top
  <2>3. 1 \in 1 .. Len(stack')
    BY <1>2, <2>2
  <2> QED
    BY <1>2, <2>1, <2>3
<1>9. ASSUME NEW t \in turn PROVE Comes(t)'
  <2>1. Comes(t) /\ threads'[t] = threads[t] /\ t \in ThreadRefs
    BY <1>6 DEF RoundInv
  <2>2. threads[t].blockedClip \in 0 .. MaxSounds
    BY <2>1 DEF ThreadsInv, ThreadsTypeOK, ThreadStates
  <2>3. CASE Blocked(t)
    <3>1. /\ threads[t].waitingOn = 0 /\ threads[t].blockedClip \in 1 .. MaxSounds
          /\ Sounding(threads[t].blockedClip)
      BY <2>2, <2>3, DueThread, ThreadsAssumption
    <3>2. Sounding(threads[t].blockedClip)'
      BY <2>1, <3>1 DEF Sounding
    <3> QED
      BY <2>1, <2>2, <3>1, <3>2 DEF Blocked, Sounding, Comes
  <2>4. CASE ~Blocked(t)
    BY <1>2, <1>8, <2>1, <2>4 DEF Comes
  <2> QED
    BY <2>3, <2>4
<1> QED
  BY <1>6, <1>7, <1>8, <1>9 DEF RoundInv, DueStayDue

\* A clip falls silent: whoever plays it and is due is on the new loop's list.
LEMMA RoundReleases ==
  ASSUME ThreadsInv, RoundInv, NEW clip \in 1 .. MaxSounds, NEW state,
         NEW opens \in SUBSET AudioClips,
         Silence(clip, state), Release(clip, opens), UNCHANGED <<clock, threads, turn, owed>>
  PROVE  RoundInv'
<1>0. PICK e : e = Loop("release", WaitersOf(clip), clip, opens)
  OBVIOUS
<1>1. sounds' = [sounds EXCEPT ![clip] = state] /\ stack' = Append(stack, e)
  BY <1>0 DEF Silence, Release
<1>2. /\ e \in Entries /\ e.kind = "release" /\ e.clip = clip
      /\ \A t \in ThreadRefs : threads[t].active /\ threads[t].blockedClip = clip => t \in e.todo
  BY <1>0, Releasing
<1>3. /\ Len(stack') = Len(stack) + 1 /\ Len(stack) \in Nat /\ stack'[Len(stack) + 1] = e
      /\ \A i \in 1 .. Len(stack) : stack'[i] = stack[i]
      /\ \A t, c : ToRelease(t, c) => ToRelease(t, c)'
      /\ \A t \in e.todo : ToRelease(t, clip)'
  <2>1. ThreadsTypeOK
    BY DEF ThreadsInv
  <2>2. Len(stack) \in Nat
    BY <2>1 DEF ThreadsTypeOK
  <2> QED
    BY <1>1, <1>2, <2>1, <2>2, Pushing
<1>4. \A i \in 1 .. Len(stack') : i \in 1 .. Len(stack) \/ i = Len(stack) + 1
  BY <1>3
<1>5. RunningWaitOnNothing'
  BY <1>2, <1>3, <1>4 DEF RunningWaitOnNothing, RoundInv
<1>6. ASSUME turn # {} PROVE stack' # <<>> /\ stack'[1] = stack[1] /\ stack[1].kind = "ready"
  <2>1. stack # <<>> /\ stack[1].kind = "ready"
    BY <1>6 DEF RoundInv
  <2>2. 1 \in 1 .. Len(stack)
    BY <1>3, <2>1 DEF ThreadsInv, ThreadsTypeOK
  <2> QED
    BY <1>3, <2>1, <2>2
<1>7. ASSUME NEW t \in turn PROVE Comes(t)'
  <2>1. t \in ThreadRefs /\ Comes(t) /\ threads[t].active
    BY DueThread DEF RoundInv
  <2>2. CASE threads[t].blockedClip = clip
    BY <1>2, <1>3, <2>1, <2>2 DEF Comes
  <2>3. CASE threads[t].blockedClip # clip
    <3>1. Sounding(threads[t].blockedClip) /\ threads[t].blockedClip # 0 =>
            Sounding(threads[t].blockedClip)'
      BY <1>1, <2>3 DEF Sounding, ThreadsInv, ThreadsTypeOK
    <3>2. Blocked(t) => Blocked(t)'
      BY <2>1, <3>1, DueThread DEF Blocked, Sounding
    <3> QED
      BY <1>3, <1>6, <2>1, <3>2 DEF Comes
  <2> QED
    BY <2>2, <2>3
<1> QED
  BY <1>5, <1>6, <1>7 DEF RoundInv, DueStayDue

\* A loop that is through leaves the stack.
LEMMA RoundReturns ==
  ASSUME ThreadsInv, RoundInv, stack # <<>>, Top.kind = "release", Top.todo = {}, stack' = Popped,
         UNCHANGED <<clock, threads, turn, owed>>,
         \A t \in ThreadRefs : threads[t].blockedClip # 0 /\ Sounding(threads[t].blockedClip) =>
           Sounding(threads[t].blockedClip)'
  PROVE  RoundInv'
<1>1. /\ Len(stack) \in Nat \ {0} /\ Len(stack') = Len(stack) - 1
      /\ \A i \in 1 .. Len(stack') : i \in 1 .. Len(stack) /\ stack'[i] = stack[i]
      /\ \A t, c : ToRelease(t, c) => ToRelease(t, c)'
  BY Popping DEF ThreadsInv
<1>2. RunningWaitOnNothing'
  BY <1>1 DEF RunningWaitOnNothing, RoundInv
<1>3. ASSUME turn # {} PROVE stack' # <<>> /\ stack'[1] = stack[1] /\ stack[1].kind = "ready"
  <2>1. stack[1].kind = "ready"
    BY <1>3 DEF RoundInv
  <2>2. Len(stack) # 1
    BY <2>1 DEF Top
  <2>3. 1 \in 1 .. Len(stack')
    BY <1>1, <2>2
  <2> QED
    BY <1>1, <2>1, <2>3
<1>4. ASSUME NEW t \in turn PROVE Comes(t)'
  <2>1. t \in ThreadRefs /\ Comes(t)
    BY DEF RoundInv
  <2>2. Blocked(t) => Blocked(t)'
    BY <2>1, DueThread DEF Blocked, Sounding
  <2> QED
    BY <1>1, <1>3, <2>1, <2>2 DEF Comes
<1> QED
  BY <1>2, <1>3, <1>4 DEF RoundInv, DueStayDue

\* A new media clip is one that nobody plays.
LEMMA NobodyPlaysIt ==
  ASSUME ThreadsInv, NEW a \in AudioClips, CreateClip(a)
  PROVE  \A t \in ThreadRefs : threads[t].blockedClip # 0 /\ Sounding(threads[t].blockedClip) =>
           sounds'[threads[t].blockedClip] \in {"playing", "paused"}
<1>1. PICK c \in FreeSounds : sounds' = [sounds EXCEPT ![c] = "stopped"]
  BY DEF CreateClip
<1>2. \A t \in ThreadRefs : threads[t].blockedClip # c
  BY DEF FreeSounds
<1>3. \A t \in ThreadRefs : sounds'[threads[t].blockedClip] = sounds[threads[t].blockedClip]
  BY <1>1, <1>2 DEF ThreadsInv, ThreadsTypeOK
<1> QED
  BY <1>3 DEF Sounding

\* runThread: what is on no list any more has been run, or its clip sounds.
LEMMA RoundGoesOn ==
  ASSUME ThreadsInv, RoundInv, RunNext
  PROVE  RoundInv'
<1>1. PICK t \in Top.todo :
        \/ /\ \/ Top.kind = "ready" /\ StillReady(t)
              \/ Top.kind = "release" /\ StillWaits(t, Top.clip)
           /\ RunThread(t, Taken(t))
        \/ /\ ~(Top.kind = "ready" /\ StillReady(t))
           /\ ~(Top.kind = "release" /\ StillWaits(t, Top.clip))
           /\ stack' = Taken(t)
           /\ UNCHANGED <<clock, threads, clipOf, sounds, turn, owed, silenced>>
  BY DEF RunNext, Taken
<1>2. stack # <<>> /\ ThreadsTypeOK
  BY DEF RunNext, ThreadsInv
<1>3. Len(stack) \in Nat \ {0} /\ Top \in Entries /\ Top = stack[Len(stack)] /\ Len(stack) \in 1 .. Len(stack)
  BY <1>2 DEF ThreadsTypeOK, Top
<1>4. t \in ThreadRefs /\ threads[t] \in ThreadStates
  BY <1>3, <1>2 DEF Entries, ThreadsTypeOK
<1>5. /\ Taken(t) \in Seq(Entries) /\ Len(Taken(t)) = Len(stack)
      /\ \A i \in 1 .. Len(stack) :
           /\ Taken(t)[i].kind = stack[i].kind /\ Taken(t)[i].thread = stack[i].thread
           /\ Taken(t)[i].clip = stack[i].clip
           /\ \A u : u \in stack[i].todo => u \in Taken(t)[i].todo \/ (u = t /\ stack[i] = Top)
  BY <1>2, <1>4, Taking
<1>6. \A i \in 1 .. Len(stack) : stack[i].kind = "thread" => stack[i].thread \in ThreadRefs
  BY DEF ThreadsInv, StackOK, EntryOK
<1>7. ASSUME RunThread(t, Taken(t)) PROVE RoundInv'
  <2>1. /\ threads' = Resumed(t) /\ stack' = Append(Taken(t), Activation(t))
        /\ turn' = turn \ {t} /\ owed' = owed \ {t} /\ clock' = clock /\ sounds' = sounds
    BY <1>7 DEF RunThread
  <2>2. threads'[t].waitingOn = 0 /\ \A u \in ThreadRefs : u # t => threads'[u] = threads[u]
    BY <1>2, <1>4, <2>1 DEF Resumed, ThreadsTypeOK, ThreadStates
  <2>3. /\ Len(stack') = Len(stack) + 1 /\ stack'[Len(stack) + 1] = Activation(t)
        /\ \A i \in 1 .. Len(stack) : i \in 1 .. Len(stack') /\ stack'[i] = Taken(t)[i]
        /\ \A i \in 1 .. Len(stack') : i \in 1 .. Len(stack) \/ i = Len(stack) + 1
    BY <1>3, <1>5, <2>1
  <2>4. RunningWaitOnNothing'
    <3> SUFFICES ASSUME NEW i \in 1 .. Len(stack'), stack'[i].kind = "thread"
                 PROVE  threads'[stack'[i].thread].waitingOn = 0
      BY DEF RunningWaitOnNothing
    <3>1. CASE i = Len(stack) + 1
      BY <2>2, <2>3, <3>1 DEF Activation
    <3>2. CASE i \in 1 .. Len(stack)
      <4>1. stack[i].kind = "thread" /\ stack'[i].thread = stack[i].thread /\ stack[i].thread \in ThreadRefs
        BY <1>5, <1>6, <2>3, <3>2
      <4> QED
        BY <2>2, <3>2, <4>1 DEF RunningWaitOnNothing, RoundInv
    <3> QED
      BY <2>3, <3>1, <3>2
  <2>5. DueStayDue'
    BY <2>1, <2>2 DEF DueStayDue, RoundInv
  <2>6. ASSUME NEW u \in turn' PROVE Comes(u)' /\ stack' # <<>> /\ stack'[1].kind = "ready"
    <3>1. u \in turn /\ u # t /\ u \in ThreadRefs /\ Comes(u) /\ threads'[u] = threads[u]
          /\ stack[1].kind = "ready" /\ 1 \in 1 .. Len(stack)
      BY <1>3, <2>1, <2>2, <2>6 DEF RoundInv
    <3>2. \A c : ToRelease(u, c) => ToRelease(u, c)'
      BY <1>5, <2>3, <3>1 DEF ToRelease
    <3>3. Blocked(u) => Blocked(u)'
      BY <2>1, <3>1 DEF Blocked
    <3>4. stack'[1].kind = "ready" /\ (u \in stack[1].todo => u \in stack'[1].todo)
      BY <1>5, <2>3, <3>1
    <3> QED
      BY <2>3, <3>1, <3>2, <3>3, <3>4 DEF Comes
  <2>7. owed' \in SUBSET ThreadRefs /\ turn' \in SUBSET ThreadRefs
    BY <2>1 DEF RoundInv
  <2> QED
    BY <2>4, <2>5, <2>6, <2>7 DEF RoundInv
<1>8. ASSUME ~(Top.kind = "ready" /\ StillReady(t)), ~(Top.kind = "release" /\ StillWaits(t, Top.clip)),
             stack' = Taken(t), UNCHANGED <<clock, threads, clipOf, sounds, turn, owed, silenced>>
      PROVE  RoundInv'
  <2>1. Len(stack') = Len(stack) /\ \A i \in 1 .. Len(stack) : stack'[i] = Taken(t)[i]
    BY <1>5, <1>8
  <2>2. RunningWaitOnNothing'
    BY <1>5, <1>8, <2>1 DEF RunningWaitOnNothing, RoundInv
  <2>3. ASSUME NEW u \in turn PROVE Comes(u)' /\ stack' # <<>> /\ stack'[1].kind = "ready"
    <3>1. u \in ThreadRefs /\ Comes(u) /\ stack[1].kind = "ready" /\ 1 \in 1 .. Len(stack)
      BY <1>3 DEF RoundInv
    <3>2. stack'[1].kind = "ready" /\ stack' # <<>>
      BY <1>3, <1>5, <2>1, <3>1
    <3>3. Blocked(u) => Blocked(u)'
      BY <1>8 DEF Blocked
    <3>4. ASSUME ToRelease(u, threads[u].blockedClip) PROVE ToRelease(u, threads[u].blockedClip)'
      <4>1. PICK i \in 1 .. Len(stack) :
              stack[i].kind = "release" /\ stack[i].clip = threads[u].blockedClip /\ u \in stack[i].todo
        BY <3>4 DEF ToRelease
      <4>2. threads[u].active
        BY DueThread
      <4>3. ~(u = t /\ stack[i] = Top)
        BY <1>8, <4>1, <4>2 DEF StillWaits
      <4> QED
        BY <1>5, <1>8, <2>1, <4>1, <4>3 DEF ToRelease
    <3>5. ASSUME u \in stack[1].todo PROVE u \in stack'[1].todo \/ Blocked(u)
      <4>1. CASE u = t /\ stack[1] = Top
        <5>1. threads[u].active /\ threads[u].wakeAt <= clock
          BY DueThread
        <5> QED
          BY <1>8, <3>1, <4>1, <5>1 DEF StillReady
      <4>2. CASE ~(u = t /\ stack[1] = Top)
        BY <1>5, <2>1, <3>1, <3>5, <4>2
      <4> QED
        BY <4>1, <4>2
    <3> QED
      BY <1>8, <3>1, <3>2, <3>3, <3>4, <3>5 DEF Comes
  <2> QED
    BY <1>8, <2>2, <2>3 DEF RoundInv, DueStayDue
<1> QED
  BY <1>1, <1>7, <1>8

LEMMA RoundMeetsThread ==
  ASSUME ThreadsInv, RoundInv, NEW t \in ThreadRefs, StartThread(t)
  PROVE  RoundInv'
<1> DEFINE state == [Unstarted EXCEPT !.started = TRUE, !.active = TRUE, !.wakeAt = clock]
<1>1. /\ ~threads[t].started /\ threads' = [threads EXCEPT ![t] = state]
      /\ stack' = Append(stack, Activation(t)) /\ clock' = clock /\ sounds' = sounds
      /\ turn' = turn /\ owed' = owed
  BY DEF StartThread
<1>2. state.waitingOn = 0
  BY DEF Unstarted
<1> HIDE DEF state
<1>3. /\ threads'[t].waitingOn = 0
      /\ \A u \in ThreadRefs : u # t => threads'[u] = threads[u]
  BY <1>1, <1>2 DEF ThreadsInv, ThreadsTypeOK
<1>4. \A u \in owed \cup turn : u \in ThreadRefs /\ u # t
  BY <1>1, DueThread DEF ThreadsInv, ThreadsOK, ThreadOK
<1>5. /\ Len(stack') = Len(stack) + 1 /\ Len(stack) \in Nat /\ stack'[Len(stack) + 1] = Activation(t)
      /\ \A i \in 1 .. Len(stack) : i \in 1 .. Len(stack') /\ stack'[i] = stack[i]
      /\ \A i \in 1 .. Len(stack') : i \in 1 .. Len(stack) \/ i = Len(stack) + 1
  BY <1>1 DEF ThreadsInv, ThreadsTypeOK
<1>6. RunningWaitOnNothing'
  <2> SUFFICES ASSUME NEW i \in 1 .. Len(stack'), stack'[i].kind = "thread"
               PROVE  threads'[stack'[i].thread].waitingOn = 0
    BY DEF RunningWaitOnNothing
  <2>1. CASE i = Len(stack) + 1
    BY <1>3, <1>5, <2>1 DEF Activation
  <2>2. CASE i \in 1 .. Len(stack)
    <3>1. stack'[i] = stack[i] /\ stack[i].kind = "thread" /\ stack[i].thread \in ThreadRefs
      BY <1>5, <2>2 DEF ThreadsInv, StackOK, EntryOK
    <3>2. threads[stack[i].thread].waitingOn = 0
      BY <2>2, <3>1 DEF RunningWaitOnNothing, RoundInv
    <3> QED
      BY <1>3, <3>1, <3>2
  <2> QED
    BY <1>5, <2>1, <2>2
<1>7. ASSUME NEW u \in turn PROVE Comes(u)' /\ stack' # <<>> /\ stack'[1].kind = "ready"
  <2>1. stack # <<>> /\ stack[1].kind = "ready" /\ Comes(u) /\ threads'[u] = threads[u]
    BY <1>3, <1>4 DEF RoundInv
  <2>2. 1 \in 1 .. Len(stack)
    BY <1>5, <2>1 DEF ThreadsInv, ThreadsTypeOK
  <2>3. stack' # <<>> /\ stack'[1] = stack[1]
    BY <1>5, <2>2
  <2>4. \A c : ToRelease(u, c) => ToRelease(u, c)'
    BY <1>5 DEF ToRelease
  <2>5. Blocked(u) => Blocked(u)'
    BY <1>1, <2>1 DEF Blocked
  <2> QED
    BY <2>1, <2>3, <2>4, <2>5 DEF Comes
<1> QED
  BY <1>1, <1>3, <1>4, <1>6, <1>7 DEF RoundInv, DueStayDue

\* The round begins with whoever is due, on the list or playing a clip.
LEMMA RoundBegins ==
  ASSUME ThreadsInv, RoundInv, NEW d \in Delays, Advance(d)
  PROVE  RoundInv'
<1>1. PICK e : e = Loop("ready", Ready', 0, {})
  OBVIOUS
<1>2. /\ TimePasses(d) /\ threads' = threads /\ clipOf' = clipOf /\ owed' = owed /\ stack' = <<e>>
      /\ turn' = {t \in ThreadRefs : threads[t].active /\ (t \in owed \/ threads[t].wakeAt <= clock')}
  BY <1>1 DEF Advance
<1>3. clock' = clock + d /\ d \in Nat /\ clock \in Nat /\ clock' \in Nat /\ stack = <<>>
  BY <1>2, ThreadsAssumption, Elapsing DEF TimePasses, ThreadsInv, ThreadsTypeOK
<1>4. e.kind = "ready" /\ e.todo = Ready'
  BY <1>1 DEF Loop
<1>5. stack' # <<>> /\ stack'[1] = e /\ Len(stack') = 1
  BY <1>2
<1>6. \A t \in ThreadRefs : ~OnStack(t)
  BY <1>3 DEF OnStack
<1>7. \A t \in ThreadRefs : threads[t] \in ThreadStates /\ (threads[t].active => threads[t].continuation)
  BY <1>6 DEF ThreadsInv, ThreadsTypeOK, ThreadsOK, ThreadOK
<1>8. \A t \in owed : threads[t].continuation /\ threads[t].wakeAt <= clock'
  <2> SUFFICES ASSUME NEW t \in owed PROVE threads[t].continuation /\ threads[t].wakeAt <= clock'
    OBVIOUS
  <2>1. threads[t].continuation /\ threads[t].wakeAt <= clock /\ threads[t] \in ThreadStates
    BY <1>7 DEF RoundInv, DueStayDue
  <2> QED
    BY <1>3, <2>1 DEF ThreadStates
<1>9. \A t \in turn' : t \in ThreadRefs /\ threads[t].active /\ threads[t].wakeAt <= clock'
  BY <1>2, <1>8
<1>10. ASSUME NEW t \in turn' PROVE Comes(t)'
  <2>1. t \in ThreadRefs /\ threads'[t].active /\ threads'[t].wakeAt <= clock'
    BY <1>2, <1>9
  <2>2. CASE Blocked(t)'
    BY <2>2 DEF Comes
  <2>3. CASE ~Blocked(t)'
    <3>1. StillReady(t)'
      BY <2>1, <2>3 DEF StillReady
    <3>2. t \in Ready'
      BY <2>1, <3>1 DEF Ready
    <3> QED
      BY <1>4, <1>5, <3>2 DEF Comes
  <2> QED
    BY <2>2, <2>3
<1>11. DueStayDue'
  BY <1>2, <1>7, <1>8, <1>9 DEF DueStayDue
<1>12. RunningWaitOnNothing'
  BY <1>4, <1>5 DEF RunningWaitOnNothing
<1>13. owed' \in SUBSET ThreadRefs /\ turn' \in SUBSET ThreadRefs
  BY <1>2 DEF RoundInv
<1> QED
  BY <1>4, <1>5, <1>10, <1>11, <1>12, <1>13 DEF RoundInv

\* Where the stack is empty there is no round.
LEMMA NoRound ==
  ASSUME ThreadsInv, RoundInv, stack' = <<>>, turn' = {}, owed' = owed, threads' = threads,
         clock' \in Nat, clock' >= clock
  PROVE  RoundInv'
<1>1. RunningWaitOnNothing'
  BY DEF RunningWaitOnNothing
<1>2. DueStayDue'
  <2> SUFFICES ASSUME NEW t \in owed' PROVE threads'[t].continuation /\ threads'[t].wakeAt <= clock'
    BY DEF DueStayDue
  <2>1. t \in ThreadRefs /\ threads[t].continuation /\ threads[t].wakeAt <= clock
    BY DEF RoundInv, DueStayDue
  <2>2. threads[t].wakeAt \in Nat /\ clock \in Nat
    BY <2>1 DEF ThreadsInv, ThreadsTypeOK, ThreadStates
  <2> QED
    BY <2>1, <2>2
<1> QED
  BY <1>1, <1>2 DEF RoundInv

\* Time passes outside of every round.
LEMMA RoundAwaits ==
  ASSUME ThreadsInv, RoundInv, NEW d \in Delays, CallbackSleeps(d)
  PROVE  RoundInv'
<1>1. TimePasses(d) /\ threads' = threads /\ stack' = stack /\ turn' = turn /\ owed' = owed
  BY DEF CallbackSleeps
<1>2. stack = <<>> /\ clock' = clock + d /\ d \in Nat /\ clock \in Nat
  BY <1>1, ThreadsAssumption, Elapsing DEF TimePasses, ThreadsInv, ThreadsTypeOK
<1>3. turn = {}
  BY <1>2 DEF RoundInv
<1> QED
  BY <1>1, <1>2, <1>3, NoRound

LEMMA RoundNotifies ==
  ASSUME ThreadsInv, RoundInv, NEW o \in Monitors, NEW all \in BOOLEAN, NotifyObject(o, all)
  PROVE  RoundInv'
<1>1. PICK S \in SUBSET {t \in ThreadRefs : threads[t].active /\ threads[t].waitingOn = o} :
        threads' = Notified(S) /\ owed' = owed \cup S
  BY DEF NotifyObject
<1>2. clock' = clock /\ sounds' = sounds /\ stack' = stack /\ turn' = turn
  BY DEF NotifyObject
<1>3. ASSUME NEW t \in ThreadRefs
      PROVE  /\ threads'[t].continuation = threads[t].continuation
             /\ threads'[t].blockedClip = threads[t].blockedClip
             /\ threads'[t].waitingOn \in {0, threads[t].waitingOn}
             /\ threads'[t].wakeAt \in {threads[t].wakeAt, clock}
             /\ t \in S => threads'[t].wakeAt = clock
  <2>1. threads[t] \in ThreadStates
    BY DEF ThreadsInv, ThreadsTypeOK
  <2>2. threads'[t] = IF t \in S THEN [threads[t] EXCEPT !.waitingOn = 0, !.wakeAt = clock]
                                 ELSE threads[t]
    BY <1>1 DEF Notified
  <2> QED
    BY <2>1, <2>2 DEF ThreadStates
<1>4. ASSUME NEW t \in S PROVE threads[t].continuation
  <2>1. t \in ThreadRefs /\ threads[t].active /\ threads[t].waitingOn # 0
    BY ThreadsAssumption
  <2>2. ~OnStack(t)
    BY <2>1 DEF OnStack, RoundInv, RunningWaitOnNothing
  <2> QED
    BY <2>1, <2>2 DEF ThreadsInv, ThreadsOK, ThreadOK
<1>5. owed' \in SUBSET ThreadRefs
  BY <1>1 DEF RoundInv
<1>6. \A t \in owed' \ owed : t \in ThreadRefs /\ threads[t].continuation /\ threads'[t].wakeAt = clock
  BY <1>1, <1>3, <1>4
<1>7. \A t \in ThreadRefs : threads[t].blockedClip # 0 /\ Sounding(threads[t].blockedClip) =>
        Sounding(threads[t].blockedClip)'
  BY <1>2, <1>3 DEF Sounding
<1> QED
  BY <1>2, <1>3, <1>5, <1>6, <1>7, RoundStays

LEMMA RoundInterrupted ==
  ASSUME ThreadsInv, RoundInv, NEW u \in ThreadRefs, Interrupt(u)
  PROVE  RoundInv'
<1>1. /\ threads' = [threads EXCEPT ![u].wakeAt = clock]
      /\ owed' = IF threads[u].continuation THEN owed \cup {u} ELSE owed
      /\ clock' = clock /\ sounds' = sounds /\ stack' = stack /\ turn' = turn
  BY DEF Interrupt
<1>2. ASSUME NEW t \in ThreadRefs
      PROVE  /\ threads'[t].continuation = threads[t].continuation
             /\ threads'[t].blockedClip = threads[t].blockedClip
             /\ threads'[t].waitingOn \in {0, threads[t].waitingOn}
             /\ threads'[t].wakeAt \in {threads[t].wakeAt, clock}
             /\ t = u => threads'[t].wakeAt = clock
  <2>1. threads[t] \in ThreadStates
    BY DEF ThreadsInv, ThreadsTypeOK
  <2>2. threads'[t] = IF t = u THEN [threads[t] EXCEPT !.wakeAt = clock] ELSE threads[t]
    BY <1>1 DEF ThreadsInv, ThreadsTypeOK
  <2> QED
    BY <2>1, <2>2 DEF ThreadStates
<1>3. owed' \in SUBSET ThreadRefs
  BY <1>1 DEF RoundInv
<1>4. \A t \in owed' \ owed : t \in ThreadRefs /\ threads[t].continuation /\ threads'[t].wakeAt = clock
  BY <1>1, <1>2
<1>5. \A t \in ThreadRefs : threads[t].blockedClip # 0 /\ Sounding(threads[t].blockedClip) =>
        Sounding(threads[t].blockedClip)'
  BY <1>1, <1>2 DEF Sounding
<1> QED
  BY <1>1, <1>2, <1>3, <1>4, <1>5, RoundStays

\* The clips: one that begins to sound keeps its threads, one that stops has
\* them on the list of the loop it starts.
LEMMA RoundSounds ==
  ASSUME ThreadsInv, RoundInv, UNCHANGED <<clock, threads, stack, turn, owed>>,
         \A t \in ThreadRefs : threads[t].blockedClip # 0 /\ Sounding(threads[t].blockedClip) =>
           sounds'[threads[t].blockedClip] \in {"playing", "paused"}
  PROVE  RoundInv'
<1>1. owed' \in SUBSET ThreadRefs /\ owed' \ owed = {}
  BY DEF RoundInv
<1>2. \A t \in ThreadRefs : threads[t].blockedClip # 0 /\ Sounding(threads[t].blockedClip) =>
        Sounding(threads[t].blockedClip)'
  BY DEF Sounding
<1> QED
  BY <1>1, <1>2, RoundStays

LEMMA RoundHears ==
  ASSUME ThreadsInv, RoundInv, NEW a \in AudioClips,
         PlayClip(a) \/ PauseClip(a, "playing", "paused") \/ PauseClip(a, "paused", "playing")
  PROVE  RoundInv'
<1>1. clipOf[a] \in 1 .. MaxSounds
  BY ThreadsAssumption DEF PlayClip, PauseClip, ThreadsInv, ThreadsTypeOK
<1>2. PICK to \in {"playing", "paused"} : sounds' = [sounds EXCEPT ![clipOf[a]] = to]
  BY DEF PlayClip, PauseClip
<1>3. \A c \in 1 .. MaxSounds : Sounding(c) => sounds'[c] \in {"playing", "paused"}
  BY <1>2 DEF Sounding, ThreadsInv, ThreadsTypeOK
<1>4. \A c \in 1 .. MaxSounds : Sounding(c) => Sounding(c)'
  BY <1>3 DEF Sounding
<1>5. \A t \in ThreadRefs : threads[t].blockedClip # 0 => threads[t].blockedClip \in 1 .. MaxSounds
  BY ThreadsAssumption DEF ThreadsInv, ThreadsTypeOK, ThreadStates
<1>6. CASE PlayClip(a) /\ InThread
  <2>1. LeaveAs(Parked(clock, 0, clipOf[a])) /\ UNCHANGED <<clock, turn, owed>>
    BY <1>6 DEF PlayClip
  <2> QED
    BY <1>4, <1>6, <2>1, RoundLeft
<1>7. CASE ~(PlayClip(a) /\ InThread)
  <2>1. UNCHANGED <<clock, threads, stack, turn, owed>>
    BY <1>7 DEF PlayClip, PauseClip
  <2> QED
    BY <1>3, <1>5, <2>1, RoundSounds
<1> QED
  BY <1>6, <1>7

LEMMA RoundSilences ==
  ASSUME ThreadsInv, RoundInv, NEW a \in AudioClips, StopClip(a) \/ CloseClip(a) \/ OpenClip(a)
  PROVE  RoundInv'
<1>1. CASE clipOf[a] = 0
  <2>1. CreateClip(a) /\ UNCHANGED <<clock, threads, stack, turn, owed>>
    BY <1>1 DEF StopClip, CloseClip, OpenClip
  <2> QED
    BY <2>1, NobodyPlaysIt, RoundSounds
<1>2. CASE clipOf[a] # 0
  <2>1. clipOf[a] \in 1 .. MaxSounds
    BY <1>2, ThreadsAssumption DEF ThreadsInv, ThreadsTypeOK
  <2>2. {} \in SUBSET AudioClips /\ {a} \in SUBSET AudioClips
    OBVIOUS
  <2>3. UNCHANGED <<clock, threads, turn, owed>>
    BY DEF StopClip, CloseClip, OpenClip
  <2>4. CASE StopClip(a)
    <3>1. Silence(clipOf[a], "stopped") /\ Release(clipOf[a], {})
      BY <2>4 DEF StopClip
    <3> QED
      BY <2>1, <2>2, <2>3, <3>1, RoundReleases
  <2>5. CASE CloseClip(a)
    <3>1. Silence(clipOf[a], "absent") /\ Release(clipOf[a], {})
      BY <2>5 DEF CloseClip
    <3> QED
      BY <2>1, <2>2, <2>3, <3>1, RoundReleases
  <2>6. CASE OpenClip(a)
    <3>1. Silence(clipOf[a], "stopped") /\ Release(clipOf[a], {a})
      BY <1>2, <2>6 DEF OpenClip
    <3> QED
      BY <2>1, <2>2, <2>3, <3>1, RoundReleases
  <2> QED
    BY <2>4, <2>5, <2>6
<1> QED
  BY <1>1, <1>2

LEMMA RoundResumes ==
  ASSUME ThreadsInv, RoundInv, ReleaseEnds
  PROVE  RoundInv'
<1>1. /\ stack # <<>> /\ Top.kind = "release" /\ Top.todo = {} /\ stack' = Popped
      /\ UNCHANGED <<clock, threads, turn, owed>>
  BY DEF ReleaseEnds, InLoop
<1>2. Top \in Entries
  BY <1>1 DEF Top, ThreadsInv, ThreadsTypeOK
<1>3. sounds' = sounds \/ \E a \in AudioClips : CreateClip(a)
  BY <1>2 DEF ReleaseEnds, OpenEnds, Entries
<1>4. \A t \in ThreadRefs : threads[t].blockedClip # 0 /\ Sounding(threads[t].blockedClip) =>
        sounds'[threads[t].blockedClip] \in {"playing", "paused"}
  BY <1>3, NobodyPlaysIt DEF Sounding
<1>5. \A t \in ThreadRefs : threads[t].blockedClip # 0 /\ Sounding(threads[t].blockedClip) =>
        Sounding(threads[t].blockedClip)'
  BY <1>1, <1>4 DEF Sounding
<1> QED
  BY <1>1, <1>5, RoundReturns

\* The scheduler's loop is outermost: with it the round ends.
LEMMA OutermostLoop ==
  ASSUME ThreadsInv, RoundEnds
  PROVE  Len(stack) = 1 /\ stack[1] = Top /\ stack[1].kind = "ready" /\ stack[1].todo = {}
<1>1. stack # <<>> /\ Top.kind = "ready" /\ Top.todo = {} /\ Top = stack[Len(stack)]
  BY DEF RoundEnds, InLoop, Top
<1>2. Len(stack) \in 1 .. Len(stack)
  BY <1>1 DEF ThreadsInv, ThreadsTypeOK
<1>3. Len(stack) = 1
  BY <1>1, <1>2 DEF ThreadsInv, StackOK, EntryOK
<1> QED
  BY <1>1, <1>3

LEMMA RoundOver ==
  ASSUME ThreadsInv, RoundInv, RoundEnds \/ TitleFails
  PROVE  RoundInv'
<1>1. CASE RoundEnds
  <2>1. stack' = Popped /\ turn' = {} /\ UNCHANGED <<clock, threads, owed>>
    BY <1>1 DEF RoundEnds
  <2>2. stack' = <<>>
    BY <1>1, <2>1, OutermostLoop DEF Popped, ThreadsInv, ThreadsTypeOK
  <2>3. clock \in Nat
    BY DEF ThreadsInv, ThreadsTypeOK
  <2> QED
    BY <2>1, <2>2, <2>3, NoRound
<1>2. CASE TitleFails
  <2>1. stack' = <<>> /\ Len(stack') = 0 /\ turn' = {} /\ owed' = {}
    BY <1>2 DEF TitleFails
  <2> QED
    BY <2>1 DEF RoundInv, RunningWaitOnNothing, DueStayDue
<1> QED
  BY <1>1, <1>2

\* One case for each native, each step of a loop and each Advance.
LEMMA RoundStep ==
  ASSUME ThreadsInv, RoundInv, [ThreadsNext]_threadVars
  PROVE  RoundInv'
<1>1. ASSUME NEW state, InThread, LeaveAs(state), UNCHANGED <<clock, sounds, turn, owed>>
      PROVE  RoundInv'
  <2>1. \A c \in 1 .. MaxSounds : Sounding(c) => Sounding(c)'
    BY <1>1 DEF Sounding
  <2> QED
    BY <1>1, <2>1, RoundLeft
<1>2. CASE ThreadNative
  <2>1. CASE EndThread
    BY <1>1, <2>1 DEF EndThread
  <2>2. ASSUME NEW t \in ThreadRefs, StartThread(t) \/ Interrupt(t) PROVE RoundInv'
    BY <2>2, RoundMeetsThread, RoundInterrupted
  <2>3. ASSUME NEW d \in Delays, CallbackSleeps(d) PROVE RoundInv'
    BY <2>3, RoundAwaits
  <2>4. ASSUME NEW d \in Delays, YieldFor(d) \/ \E o \in Monitors : WaitOn(o, d) PROVE RoundInv'
    BY <1>1, <2>4 DEF YieldFor, WaitOn
  <2>5. ASSUME NEW o \in Monitors, NEW all \in BOOLEAN, NotifyObject(o, all) PROVE RoundInv'
    BY <2>5, RoundNotifies
  <2> QED
    BY <1>2, <2>1, <2>2, <2>3, <2>4, <2>5 DEF ThreadNative
<1>3. CASE ClipNative
  BY <1>3, RoundHears, RoundSilences DEF ClipNative
<1>4. CASE RunNext \/ ReleaseEnds \/ RoundEnds \/ TitleFails
  BY <1>4, RoundGoesOn, RoundResumes, RoundOver
<1>5. CASE \E d \in Delays : Advance(d)
  BY <1>5, RoundBegins
<1>6. CASE UNCHANGED threadVars
  <2>1. UNCHANGED <<clock, threads, stack, turn, owed>> /\ sounds' = sounds
    BY <1>6 DEF threadVars
  <2> QED
    BY <2>1, RoundSounds DEF Sounding
<1> QED
  BY <1>2, <1>3, <1>4, <1>5, <1>6 DEF ThreadsNext

\* A thread that Advance found due stays due until it has run, and until then
\* the round has it on a list or the clip it plays sounds.
THEOREM RoundInvariant == ThreadsSpec => []RoundInv
<1>1. ThreadsInit => RoundInv
  <2> SUFFICES ASSUME ThreadsInit PROVE RoundInv
    OBVIOUS
  <2>1. stack = <<>> /\ Len(stack) = 0 /\ turn = {} /\ owed = {}
    BY DEF ThreadsInit
  <2> QED
    BY <2>1 DEF RoundInv, RunningWaitOnNothing, DueStayDue
<1> QED
  BY <1>1, RoundStep, ThreadsInvariant, PTL DEF ThreadsSpec

\* When runReadyThreads is through, every thread that was notified, interrupted
\* or timed out before Advance has run, unless the clip it plays sounds again,
\* whatever the threads of the round do to each other and to their clips
\* (VM.Advance, runReadyThreads and releaseClipWaiters, threads.go).
THEOREM DueThreadsRun == ThreadsSpec => EveryDueThreadRuns
<1>1. ThreadsInv /\ RoundInv => [RoundEnds => \A t \in turn : Blocked(t)]_threadVars
  <2> SUFFICES ASSUME ThreadsInv, RoundInv, RoundEnds, NEW t \in turn PROVE Blocked(t)
    OBVIOUS
  <2>1. Len(stack) = 1 /\ stack[1].kind = "ready" /\ stack[1].todo = {}
    BY OutermostLoop
  <2>2. Comes(t)
    BY DEF RoundInv
  <2>3. ~ToRelease(t, threads[t].blockedClip)
    BY <2>1 DEF ToRelease
  <2> QED
    BY <2>1, <2>2, <2>3 DEF Comes
<1> QED
  BY <1>1, ThreadsInvariant, RoundInvariant, PTL DEF EveryDueThreadRuns

-----------------------------------------------------------------------------
(* KTF: what a Runtime is made of. *)

Refs == {Gone} \cup Nat
CardOrNobody == Cards \cup {Nobody}
TimerOrNobody == TimerTasks \cup {Nobody}
ThreadOrNobody == JavaThreads \cup {Nobody}

TaskRecords ==
  [done : BOOLEAN, wake : Nat, waits : BOOLEAN, join : ThreadOrNobody, thread : ThreadOrNobody,
   timer : TimerOrNobody, period : Nat, deadline : Nat, started : BOOLEAN,
   paint : CardOrNobody, bestEffort : BOOLEAN, wipic : BOOLEAN, key : CardOrNobody,
   layout : BOOLEAN, blocker : Refs, grace : BOOLEAN, after : Refs,
   cards : Seq(Cards), shown : SUBSET Cards]

CallRecords ==
  [thread : ThreadOrNobody, timer : TimerOrNobody, period : Nat, deadline : Nat, wake : Nat]

Runtimes ==
  [tasks : Seq(TaskRecords), cursor : Nat,
   active : Refs, detached : TaskRecords, orphans : SUBSET TimerOrNobody,
   pending : Seq(CallRecords),
   card : CardOrNobody, display : BOOLEAN, dirty : SUBSET Cards, painted : SUBSET Cards,
   paintOf : [Cards -> Refs],
   timerOf : [TimerTasks -> Refs], status : [TimerTasks -> {"new", "scheduled", "executed", "cancelled"}],
   timerDead : BOOLEAN, threads : SUBSET JavaThreads,
   wipicTimer : Int, carrier : Nat,
   presented : BOOLEAN, inputWaiting : BOOLEAN, tick : Nat,
   ended : BOOLEAN, fault : {"none", "pending", "showNotify", "layout", "exception"}]

\* Nothing keeps the task from running but the order of the Timer's callbacks,
\* and a callback that began comes first.
Free(task) ==
  /\ task.blocker = 0 /\ task.join = Nobody /\ ~task.waits /\ task.wake = 0 /\ task.after = 0
  /\ task.timer # Nobody => task.started

\* No callback of a timer paints a card.
Kinds(r) ==
  /\ \A i \in DOMAIN r.tasks : r.tasks[i].timer # Nobody => r.tasks[i].paint = Nobody
  /\ r.detached.timer # Nobody => r.detached.paint = Nobody
  /\ r.active \in {Gone, 0} \cup DOMAIN r.tasks

Turns(r) ==
  \A i, j \in Living(r) :
    /\ r.tasks[i].wipic /\ r.tasks[j].wipic => i = j
    /\ r.tasks[i].key # Nobody /\ r.tasks[i].key = r.tasks[j].key => i = j
    /\ r.tasks[i].wipic => r.tasks[j].key = Nobody

Paints(r) == \A i \in Living(r) : r.tasks[i].paint # Nobody => r.paintOf[r.tasks[i].paint] = i

\* A timer points into the table, and at a callback of its own.
Pointers(r) ==
  \A t \in TimerTasks : r.timerOf[t] \notin {Gone, 0} =>
    r.timerOf[t] \in DOMAIN r.tasks /\ r.tasks[r.timerOf[t]].timer = t

\* The callback of a timer is the one its timer knows, or a one-shot that began.
Known(r, i) ==
  LET t == r.tasks[i].timer
  IN  \/ r.timerOf[t] = i /\ r.status[t] = "scheduled"
      \/ /\ r.timerOf[t] = 0 /\ r.status[t] \in {"executed", "cancelled"}
         /\ r.tasks[i].started /\ r.tasks[i].period = 0
Callbacks(r) ==
  /\ \A i \in Living(r) : r.tasks[i].timer # Nobody => Known(r, i)
  /\ \A i, j \in Living(r) : r.tasks[i].timer # Nobody /\ r.tasks[j].timer # Nobody =>
       /\ r.tasks[i].timer = r.tasks[j].timer => i = j
       /\ r.tasks[i].started /\ r.tasks[j].started => i = j

\* A timer whose callback waits for a place has no callback in the table.
WaitingTimers(r) ==
  /\ \A k \in DOMAIN r.pending : r.pending[k].timer # Nobody =>
       /\ r.status[r.pending[k].timer] = "scheduled"
       /\ \A i \in Living(r) : r.tasks[i].timer # r.pending[k].timer
  /\ \A k, l \in DOMAIN r.pending :
       r.pending[k].timer # Nobody /\ r.pending[k].timer = r.pending[l].timer => k = l

\* A task is held back by the task that runs or by one that can run.
Blocks(r) ==
  \A i \in DOMAIN r.tasks : r.tasks[i].blocker # 0 =>
    \/ r.tasks[i].blocker = r.active
    \/ r.tasks[i].blocker \in Living(r) /\ Free(r.tasks[r.tasks[i].blocker])

\* What is left of a finished task is the running task's, or was left by a
\* callback that cancelled itself.
PaintPlaces(r) ==
  \A c \in Cards : r.paintOf[c] # 0 =>
    /\ r.paintOf[c] = r.active \/ r.paintOf[c] \in Living(r)
    /\ TaskAt(r, r.paintOf[c]).paint = c
Cancelled(r, t) == t \in TimerTasks /\ r.status[t] = "cancelled"
Leftovers(r) ==
  /\ \A i \in DOMAIN r.tasks :
       i # r.active /\ r.tasks[i].done /\ r.tasks[i].cards # <<>> => Cancelled(r, r.tasks[i].timer)
  /\ \A t \in r.orphans : Cancelled(r, t)

Core(r) ==
  /\ Kinds(r) /\ Turns(r) /\ Paints(r) /\ Pointers(r) /\ Callbacks(r) /\ WaitingTimers(r) /\ Blocks(r)
Marks(r) == PaintPlaces(r) /\ Leftovers(r)
Sound(r) == r \in Runtimes /\ Core(r) /\ Marks(r)

\* Nobody is held back by the running task.
Quiet(r) == \A i \in DOMAIN r.tasks : r.tasks[i].blocker # r.active
\* No card takes the running task for its paint.
Unmarked(r) == \A c \in Cards : r.paintOf[c] # r.active

\* The running task is alive, or its callback was cancelled from inside it: by
\* now, or as one of the timers C that are being cancelled.
ActiveFits(r, C) ==
  \/ r.active \in Living(r)
  \/ /\ ActiveTask(r).done /\ ActiveTask(r).timer \in TimerTasks
     /\ r.timerOf[ActiveTask(r).timer] = 0
     /\ ActiveTask(r).timer \in C \/ r.status[ActiveTask(r).timer] = "cancelled"
     /\ Quiet(r)
ActiveFree(r) == r.active \in Living(r) => Free(r.tasks[r.active])

Running(r, C) == Sound(r) /\ r.active # 0 /\ ActiveFits(r, C) /\ ActiveFree(r)

\* A machine that faulted may leave marks of the task that failed.
RuntimeInv(r) ==
  /\ r \in Runtimes /\ Core(r)
  /\ r.fault = "none" => Marks(r)
  /\ r.active # 0 => r.fault = "none" /\ ActiveFits(r, {}) /\ ActiveFree(r)

TasksInv == RuntimeInv(rt) /\ keysHeld \in Nat /\ keysOnBus \in Seq(Nat) /\ calls \in Nat /\ uses \in Titles

-----------------------------------------------------------------------------
(* KTF: what a call leaves as it was, and calls that touch no task. *)

\* What every call keeps of the running task: its place, unless it is done; and
\* as long as it does not yield, whether it can run and whom it holds back.
Keeps(r, s) ==
  /\ (s.active = 0) <=> (r.active = 0)
  /\ r.active # 0 =>
       /\ ActiveTask(s).done = ActiveTask(r).done
       /\ ActiveTask(s).timer = ActiveTask(r).timer
       /\ ActiveTask(s).paint = ActiveTask(r).paint
       /\ r.active \in Living(r) => s.active = r.active /\ s.active \in Living(s)
       /\ r.active \in Living(r) /\ Free(ActiveTask(r)) => Free(ActiveTask(s))
       /\ ActiveTask(r).done /\ ActiveTask(r).cards = <<>> => ActiveTask(s).cards = <<>>
       /\ Quiet(r) => Quiet(s)
       /\ Unmarked(r) => Unmarked(s)

\* What a call that schedules nothing keeps of the timers.
Steady(r, s) ==
  /\ s.status = r.status /\ s.pending = r.pending
  /\ \A t \in TimerTasks : r.timerOf[t] = 0 => s.timerOf[t] = 0

Good(r, s) == Sound(s) /\ Keeps(r, s) /\ Steady(r, s)

\* A change of fields the invariant does not read.
IsAside(r, s) ==
  /\ s \in Runtimes
  /\ s.tasks = r.tasks /\ s.active = r.active /\ s.detached = r.detached /\ s.orphans = r.orphans
  /\ s.pending = r.pending /\ s.paintOf = r.paintOf /\ s.timerOf = r.timerOf /\ s.status = r.status

LEMMA RuntimeFields ==
  ASSUME NEW r \in Runtimes
  PROVE  /\ r.tasks \in Seq(TaskRecords) /\ r.pending \in Seq(CallRecords)
         /\ r.active \in Refs /\ r.detached \in TaskRecords /\ r.orphans \in SUBSET TimerOrNobody
         /\ r.paintOf \in [Cards -> Refs] /\ r.timerOf \in [TimerTasks -> Refs]
         /\ r.status \in [TimerTasks -> {"new", "scheduled", "executed", "cancelled"}]
  BY DEF Runtimes

LEMMA TableFields ==
  ASSUME NEW r \in Runtimes
  PROVE  /\ Len(r.tasks) \in Nat /\ DOMAIN r.tasks = 1 .. Len(r.tasks)
         /\ \A i \in DOMAIN r.tasks : i \in Nat \ {0} /\ r.tasks[i] \in TaskRecords
         /\ r.detached \in TaskRecords
         /\ Gone \notin DOMAIN r.tasks /\ 0 \notin DOMAIN r.tasks /\ Gone # 0
         /\ Living(r) \subseteq DOMAIN r.tasks
  BY DEF Runtimes, Living, Gone

LEMMA TaskFields ==
  ASSUME NEW task \in TaskRecords
  PROVE  /\ task.done \in BOOLEAN /\ task.timer \in TimerOrNobody /\ task.paint \in CardOrNobody
         /\ task.key \in CardOrNobody /\ task.wipic \in BOOLEAN /\ task.started \in BOOLEAN
         /\ task.blocker \in Refs /\ task.after \in Refs /\ task.period \in Nat
         /\ task.cards \in Seq(Cards)
  BY DEF TaskRecords

LEMMA GoodSelf == ASSUME NEW r, Sound(r) PROVE Good(r, r)
  BY DEF Good, Keeps, Steady, ActiveTask, TaskAt, Sound, Core, Kinds

LEMMA GoodChain ==
  ASSUME NEW r, NEW s, NEW u, Good(r, s), Good(s, u) PROVE Good(r, u)
  BY DEF Good, Keeps, Steady, ActiveTask, TaskAt

LEMMA Aside ==
  ASSUME NEW r, NEW s, Sound(r), IsAside(r, s) PROVE Good(r, s)
<1>1. Sound(s)
  BY DEF Sound, IsAside, Core, Kinds, Turns, Paints, Pointers, Callbacks, Known, WaitingTimers, Blocks, Marks,
         PaintPlaces, Leftovers, Cancelled, Living, TaskAt
<1>2. Keeps(r, s) /\ Steady(r, s)
  BY DEF IsAside, Keeps, Steady, ActiveTask, TaskAt, Living, Quiet, Unmarked
<1> QED
  BY <1>1, <1>2 DEF Good

LEMMA GoodRunning ==
  ASSUME NEW r, NEW s, NEW C, Running(r, C), Good(r, s) PROVE Running(s, C)
<1>1. Sound(s) /\ s.active # 0
  BY DEF Running, Good, Keeps
<1>2. ActiveFits(s, C)
  BY DEF Running, Good, Keeps, Steady, ActiveFits
<1>3. ActiveFree(s)
  <2> SUFFICES ASSUME s.active \in Living(s) PROVE Free(s.tasks[s.active])
    BY DEF ActiveFree
  <2>1. s.active # Gone /\ s \in Runtimes /\ r \in Runtimes
    BY <1>1, TableFields DEF Sound, Running
  <2>2. ~ActiveTask(s).done
    BY <2>1 DEF ActiveTask, TaskAt, Living
  <2>3. r.active \in Living(r) /\ r.active # Gone
    BY <2>1, <2>2, TableFields DEF Running, ActiveFits, Good, Keeps
  <2> QED
    BY <2>1, <2>3 DEF Running, ActiveFree, Good, Keeps, ActiveTask, TaskAt
<1> QED
  BY <1>1, <1>2, <1>3 DEF Running

-----------------------------------------------------------------------------
(* KTF: tasks that are let go or wait, and whose deferred cards change. *)

SameWork(a, b) ==
  /\ a.done = b.done /\ a.timer = b.timer /\ a.period = b.period /\ a.started = b.started
  /\ a.paint = b.paint /\ a.wipic = b.wipic /\ a.key = b.key

IsEased(r, s) ==
  /\ s \in Runtimes /\ DOMAIN s.tasks = DOMAIN r.tasks
  /\ s.active = r.active /\ s.orphans = r.orphans
  /\ s.pending = r.pending /\ s.paintOf = r.paintOf /\ s.timerOf = r.timerOf /\ s.status = r.status
  /\ SameWork(s.detached, r.detached)
  /\ \A i \in DOMAIN r.tasks :
       /\ SameWork(s.tasks[i], r.tasks[i])
       /\ s.tasks[i].blocker \in {0, r.tasks[i].blocker}
       /\ i # r.active /\ Free(r.tasks[i]) => Free(s.tasks[i])
       /\ i # r.active /\ r.tasks[i].done => s.tasks[i].cards \in {<<>>, r.tasks[i].cards}

LEMMA EasedParts ==
  ASSUME NEW r, NEW s, Sound(r), IsEased(r, s)
  PROVE  /\ Living(s) = Living(r)
         /\ \A p \in {Gone} \cup DOMAIN r.tasks : SameWork(TaskAt(s, p), TaskAt(r, p))
         /\ \A i \in DOMAIN r.tasks : SameWork(s.tasks[i], r.tasks[i])
  BY DEF IsEased, SameWork, Living, TaskAt

LEMMA Eased ==
  ASSUME NEW r, NEW s, Sound(r), IsEased(r, s)
  PROVE  Sound(s) /\ Steady(r, s)
<1>1. /\ Living(s) = Living(r) /\ r \in Runtimes /\ Core(r) /\ Marks(r)
      /\ \A p \in {Gone} \cup DOMAIN r.tasks : SameWork(TaskAt(s, p), TaskAt(r, p))
      /\ \A i \in DOMAIN r.tasks : SameWork(s.tasks[i], r.tasks[i])
  BY EasedParts DEF Sound
<1>2. \A i \in Living(r) : i \in DOMAIN r.tasks /\ ~r.tasks[i].done
  BY DEF Living
<1>3. Kinds(s)
  BY <1>1 DEF Core, Kinds, IsEased, SameWork
<1>4. Turns(s)
  BY <1>1, <1>2 DEF Core, Turns, IsEased, SameWork
<1>5. Paints(s) /\ Pointers(s)
  BY <1>1, <1>2 DEF Core, Paints, Pointers, IsEased, SameWork
<1>6. Callbacks(s)
  BY <1>1, <1>2 DEF Core, Callbacks, Known, IsEased, SameWork
<1>7. WaitingTimers(s)
  BY <1>1, <1>2 DEF Core, WaitingTimers, IsEased, SameWork
<1>8. Blocks(s)
  <2> SUFFICES ASSUME NEW i \in DOMAIN s.tasks, s.tasks[i].blocker # 0, s.tasks[i].blocker # s.active
               PROVE  s.tasks[i].blocker \in Living(s) /\ Free(s.tasks[s.tasks[i].blocker])
    BY DEF Blocks
  <2>1. i \in DOMAIN r.tasks /\ s.tasks[i].blocker = r.tasks[i].blocker /\ s.active = r.active
    BY DEF IsEased
  <2>2. r.tasks[i].blocker \in Living(r) /\ Free(r.tasks[r.tasks[i].blocker])
    BY <1>1, <2>1 DEF Core, Blocks
  <2> QED
    BY <1>1, <1>2, <2>1, <2>2 DEF IsEased
<1>9. PaintPlaces(s)
  BY <1>1, <1>2 DEF Marks, PaintPlaces, IsEased, SameWork, Core, Kinds
<1>10. Leftovers(s)
  BY <1>1 DEF Marks, Leftovers, Cancelled, IsEased, SameWork
<1> QED
  BY <1>3, <1>4, <1>5, <1>6, <1>7, <1>8, <1>9, <1>10 DEF Sound, Core, Marks, Steady, IsEased

\* As long as the running task does not wait and a finished one gets no cards.
LEMMA EasedKeeps ==
  ASSUME NEW r, NEW s, Sound(r), IsEased(r, s),
         r.active # 0 =>
           /\ Free(ActiveTask(r)) => Free(ActiveTask(s))
           /\ ActiveTask(r).done /\ ActiveTask(r).cards = <<>> => ActiveTask(s).cards = <<>>
  PROVE  Good(r, s)
<1>1. Sound(s) /\ Steady(r, s) /\ Living(s) = Living(r)
  BY Eased, EasedParts
<1>2. s.active = r.active /\ (r.active # 0 => r.active \in {Gone} \cup DOMAIN r.tasks)
  BY DEF IsEased, Sound, Core, Kinds
<1>3. r.active # 0 => SameWork(ActiveTask(s), ActiveTask(r))
  BY <1>2, EasedParts DEF ActiveTask
<1>4. Quiet(r) /\ r.active # 0 => Quiet(s)
  BY <1>2 DEF Quiet, IsEased
<1>5. Unmarked(r) => Unmarked(s)
  BY DEF Unmarked, IsEased
<1> QED
  BY <1>1, <1>2, <1>3, <1>4, <1>5 DEF Good, Keeps, SameWork

LEMMA EasedRunning ==
  ASSUME NEW r, NEW s, NEW C, Running(r, C), IsEased(r, s), ActiveFree(s)
  PROVE  Running(s, C)
<1>1. Sound(s) /\ Steady(r, s) /\ Living(s) = Living(r)
  BY Eased, EasedParts DEF Running
<1>2. s.active = r.active /\ (r.active # 0 => r.active \in {Gone} \cup DOMAIN r.tasks)
  BY DEF IsEased, Running, Sound, Core, Kinds
<1>3. r.active # 0 => SameWork(ActiveTask(s), ActiveTask(r))
  BY <1>2, EasedParts DEF ActiveTask, Running
<1>4. Quiet(r) /\ r.active # 0 => Quiet(s)
  BY <1>2 DEF Quiet, IsEased
<1> QED
  BY <1>1, <1>2, <1>3, <1>4 DEF Running, ActiveFits, SameWork, Steady

-----------------------------------------------------------------------------
(* KTF: a new task. *)

Away(p, i) == IF p = i THEN Gone ELSE p

\* What a new task must not meet in the table.
Fits(r, task) ==
  /\ task \in TaskRecords /\ ~task.done /\ ~task.started /\ task.cards = <<>>
  /\ task.blocker = 0 \/ (task.blocker = r.active /\ r.active \in Living(r))
  /\ task.timer = Nobody \/ task.paint = Nobody
  /\ task.paint # Nobody => \A j \in Living(r) : r.tasks[j].paint # task.paint
  /\ task.timer # Nobody =>
       /\ r.status[task.timer] = "scheduled"
       /\ \A j \in Living(r) : r.tasks[j].timer # task.timer
       /\ \A k \in DOMAIN r.pending : r.pending[k].timer # task.timer
  /\ task.wipic => task.key = Nobody /\ \A j \in Living(r) : ~r.tasks[j].wipic /\ r.tasks[j].key = Nobody
  /\ task.key # Nobody => \A j \in Living(r) : ~r.tasks[j].wipic /\ r.tasks[j].key # task.key

\* s is r with the task at place i, a new place or one of a finished task.
IsGrown(r, s, i, task) ==
  /\ s \in Runtimes
  /\ i \in Nat \ {0} /\ (i \in DOMAIN r.tasks => r.tasks[i].done)
  /\ DOMAIN s.tasks = DOMAIN r.tasks \cup {i} /\ s.tasks[i] = task
  /\ \A k \in DOMAIN r.tasks : k # i =>
       /\ SameWork(s.tasks[k], r.tasks[k])
       /\ s.tasks[k].blocker = Away(r.tasks[k].blocker, i)
       /\ s.tasks[k].cards = r.tasks[k].cards
       /\ Free(r.tasks[k]) => Free(s.tasks[k])
  /\ s.active = Away(r.active, i)
  /\ r.active = i => s.detached = r.tasks[i]
  /\ r.active # i => s.detached = r.detached
  /\ \A t \in s.orphans : \/ t \in r.orphans
                          \/ /\ r.active # i /\ i \in DOMAIN r.tasks
                             /\ r.tasks[i].cards # <<>> /\ t = r.tasks[i].timer
  /\ s.pending = r.pending /\ s.status = r.status
  /\ \A c \in Cards : s.paintOf[c] = IF c = task.paint THEN i ELSE Away(r.paintOf[c], i)
  /\ \A t \in TimerTasks : s.timerOf[t] = IF t = task.timer THEN i ELSE Away(r.timerOf[t], i)

LEMMA Grown ==
  ASSUME NEW r, NEW s, NEW i, NEW task, Sound(r), IsGrown(r, s, i, task), Fits(r, task)
  PROVE  /\ Sound(s)
         /\ task.blocker = 0 => Keeps(r, s)
         /\ task.blocker # 0 /\ Running(r, {}) => Running(s, {})
         /\ \A t \in TimerTasks : r.timerOf[t] = 0 /\ t # task.timer => s.timerOf[t] = 0
<1>1. /\ r \in Runtimes /\ s \in Runtimes /\ i \in Nat \ {0} /\ i # Gone /\ Gone # 0
      /\ Gone \notin DOMAIN r.tasks /\ 0 \notin DOMAIN r.tasks
      /\ i \in DOMAIN r.tasks => r.tasks[i].done
  BY TableFields DEF Sound, IsGrown, Gone
<1>2. /\ Living(s) = Living(r) \cup {i} /\ i \notin Living(r)
      /\ \A k \in Living(r) : k \in DOMAIN r.tasks /\ ~r.tasks[k].done /\ k # i /\ k # 0 /\ k # Gone
  BY <1>1 DEF Living, IsGrown, Fits, SameWork
<1>3. \A k \in DOMAIN r.tasks : k # i => SameWork(s.tasks[k], r.tasks[k])
  BY DEF IsGrown
<1>4. \A k \in Living(r) : SameWork(s.tasks[k], r.tasks[k])
  BY <1>2, <1>3
<1>5. Core(r) /\ Marks(r) /\ s.tasks[i] = task /\ task \in TaskRecords
  BY DEF Sound, IsGrown, Fits
<1>6. Kinds(s)
  <2>1. r.active \in {Gone, 0} \cup DOMAIN r.tasks
    BY <1>5 DEF Core, Kinds
  <2> QED
    BY <1>1, <1>3, <1>5, <2>1 DEF Core, Kinds, IsGrown, Fits, SameWork, Away
<1>7. Turns(s)
  BY <1>2, <1>4, <1>5 DEF Core, Turns, Fits, SameWork
<1>8. \A k \in Living(r) : r.tasks[k].paint # Nobody =>
        /\ r.tasks[k].paint \in Cards
        /\ r.paintOf[r.tasks[k].paint] = k
  BY <1>1, <1>2, <1>5, TableFields, TaskFields DEF Core, Paints, CardOrNobody
<1>9. Paints(s)
  <2> SUFFICES ASSUME NEW k \in Living(s), s.tasks[k].paint # Nobody PROVE s.paintOf[s.tasks[k].paint] = k
    BY DEF Paints
  <2>1. CASE k = i
    BY <1>5, <2>1, TaskFields DEF IsGrown, CardOrNobody
  <2>2. CASE k # i
    <3>1. k \in Living(r) /\ s.tasks[k].paint = r.tasks[k].paint
      BY <1>2, <1>4, <2>2 DEF SameWork
    <3> QED
      BY <1>2, <1>5, <1>8, <3>1, <2>2 DEF IsGrown, Fits, Away
  <2> QED
    BY <2>1, <2>2
<1>10. Pointers(s)
  <2> SUFFICES ASSUME NEW t \in TimerTasks, s.timerOf[t] \notin {Gone, 0}
               PROVE  s.timerOf[t] \in DOMAIN s.tasks /\ s.tasks[s.timerOf[t]].timer = t
    BY DEF Pointers
  <2>1. CASE t = task.timer
    BY <1>5, <2>1 DEF IsGrown
  <2>2. CASE t # task.timer
    <3>1. s.timerOf[t] = r.timerOf[t] /\ s.timerOf[t] # i
      BY <2>2 DEF IsGrown, Away
    <3>2. r.timerOf[t] \in DOMAIN r.tasks /\ r.tasks[r.timerOf[t]].timer = t
      BY <1>5, <3>1 DEF Core, Pointers
    <3> QED
      BY <1>3, <3>1, <3>2 DEF IsGrown, SameWork
  <2> QED
    BY <2>1, <2>2
<1>11. \A k \in Living(r) : r.tasks[k].timer # Nobody =>
         /\ r.tasks[k].timer \in TimerTasks /\ r.tasks[k].timer # task.timer
         /\ Known(r, k)
  BY <1>1, <1>2, <1>5, TableFields, TaskFields DEF Core, Callbacks, TimerOrNobody, Fits
<1>12. Callbacks(s)
  <2>1. ASSUME NEW k \in Living(s), s.tasks[k].timer # Nobody PROVE Known(s, k)
    <3>1. CASE k = i
      BY <1>5, <2>1, <3>1, TaskFields DEF IsGrown, Fits, Known, TimerOrNobody
    <3>2. CASE k # i
      <4>1. k \in Living(r) /\ SameWork(s.tasks[k], r.tasks[k]) /\ r.tasks[k].timer # Nobody
        BY <1>2, <1>4, <2>1, <3>2 DEF SameWork
      <4>2. s.timerOf[r.tasks[k].timer] = Away(r.timerOf[r.tasks[k].timer], i) /\ s.status = r.status
        BY <1>11, <4>1 DEF IsGrown
      <4> QED
        BY <1>1, <1>11, <3>2, <4>1, <4>2 DEF Known, SameWork, Away
    <3> QED
      BY <3>1, <3>2
  <2>2. \A k, l \in Living(s) : s.tasks[k].timer # Nobody /\ s.tasks[l].timer # Nobody =>
          /\ s.tasks[k].timer = s.tasks[l].timer => k = l
          /\ s.tasks[k].started /\ s.tasks[l].started => k = l
    BY <1>2, <1>4, <1>5, <1>11 DEF Core, Callbacks, SameWork, Fits
  <2> QED
    BY <2>1, <2>2 DEF Callbacks
<1>13. WaitingTimers(s)
  BY <1>2, <1>4, <1>5 DEF Core, WaitingTimers, Fits, SameWork, IsGrown
<1>14. Blocks(s)
  <2> SUFFICES ASSUME NEW k \in DOMAIN s.tasks, s.tasks[k].blocker # 0, s.tasks[k].blocker # s.active
               PROVE  s.tasks[k].blocker \in Living(s) /\ Free(s.tasks[s.tasks[k].blocker])
    BY DEF Blocks
  <2>1. k # i
    BY <1>2, <1>5 DEF Fits, IsGrown, Away
  <2>2. k \in DOMAIN r.tasks /\ s.tasks[k].blocker = Away(r.tasks[k].blocker, i) /\ s.active = Away(r.active, i)
    BY <2>1 DEF IsGrown
  <2>3. r.tasks[k].blocker # 0 /\ r.tasks[k].blocker # r.active
    BY <1>1, <2>2 DEF Away
  <2>4. r.tasks[k].blocker \in Living(r) /\ Free(r.tasks[r.tasks[k].blocker])
    BY <1>5, <2>2, <2>3 DEF Core, Blocks
  <2> QED
    BY <1>2, <2>2, <2>4 DEF Away, IsGrown
<1>15. \A p : p # 0 /\ (p = r.active \/ p \in Living(r)) =>
         /\ Away(p, i) = s.active \/ Away(p, i) \in Living(s)
         /\ TaskAt(s, Away(p, i)).paint = TaskAt(r, p).paint
         /\ TaskAt(s, Away(p, i)).timer = TaskAt(r, p).timer
         /\ TaskAt(s, Away(p, i)).done = TaskAt(r, p).done
         /\ TaskAt(s, Away(p, i)).cards = TaskAt(r, p).cards
         /\ Free(TaskAt(r, p)) => Free(TaskAt(s, Away(p, i)))
         /\ Away(p, i) # 0
  <2> SUFFICES ASSUME NEW p, p # 0, p = r.active \/ p \in Living(r)
               PROVE  /\ Away(p, i) = s.active \/ Away(p, i) \in Living(s)
                      /\ TaskAt(s, Away(p, i)).paint = TaskAt(r, p).paint
                      /\ TaskAt(s, Away(p, i)).timer = TaskAt(r, p).timer
                      /\ TaskAt(s, Away(p, i)).done = TaskAt(r, p).done
                      /\ TaskAt(s, Away(p, i)).cards = TaskAt(r, p).cards
                      /\ Free(TaskAt(r, p)) => Free(TaskAt(s, Away(p, i)))
                      /\ Away(p, i) # 0
    OBVIOUS
  <2>1. p \in {Gone} \cup DOMAIN r.tasks
    BY <1>2, <1>5 DEF Core, Kinds
  <2>2. CASE p = i
    <3>1. p = r.active /\ Away(p, i) = Gone /\ s.active = Gone /\ s.detached = r.tasks[i]
      BY <1>2, <2>2 DEF IsGrown, Away
    <3> QED
      BY <1>1, <2>2, <3>1 DEF TaskAt
  <2>3. CASE p # i
    <3>1. Away(p, i) = p /\ (p = r.active => s.active = p)
      BY <2>3 DEF Away, IsGrown
    <3>2. CASE p = Gone
      <4>1. r.active = Gone /\ s.detached = r.detached
        BY <1>1, <1>2, <3>2 DEF IsGrown
      <4> QED
        BY <1>1, <3>1, <3>2, <4>1 DEF TaskAt
    <3>3. CASE p # Gone
      <4>1. p \in DOMAIN r.tasks /\ TaskAt(r, p) = r.tasks[p] /\ TaskAt(s, p) = s.tasks[p]
        BY <2>1, <3>3 DEF TaskAt
      <4> QED
        BY <1>2, <2>3, <3>1, <4>1 DEF IsGrown, SameWork
    <3> QED
      BY <3>2, <3>3
  <2> QED
    BY <2>2, <2>3
<1>16. PaintPlaces(s)
  <2> SUFFICES ASSUME NEW c \in Cards, s.paintOf[c] # 0
               PROVE  /\ s.paintOf[c] = s.active \/ s.paintOf[c] \in Living(s)
                      /\ TaskAt(s, s.paintOf[c]).paint = c
    BY DEF PaintPlaces
  <2>1. CASE c = task.paint
    BY <1>1, <1>2, <1>5, <2>1 DEF IsGrown, TaskAt
  <2>2. CASE c # task.paint
    <3>1. s.paintOf[c] = Away(r.paintOf[c], i)
      BY <2>2 DEF IsGrown
    <3>2. r.paintOf[c] # 0
      BY <1>1, <3>1 DEF Away
    <3>3. (r.paintOf[c] = r.active \/ r.paintOf[c] \in Living(r)) /\ TaskAt(r, r.paintOf[c]).paint = c
      BY <1>5, <3>2 DEF Marks, PaintPlaces
    <3> QED
      BY <1>15, <3>1, <3>2, <3>3
  <2> QED
    BY <2>1, <2>2
<1>17. Leftovers(s)
  <2>1. ASSUME NEW k \in DOMAIN s.tasks, k # s.active, s.tasks[k].done, s.tasks[k].cards # <<>>
        PROVE  Cancelled(s, s.tasks[k].timer)
    <3>1. k # i /\ k \in DOMAIN r.tasks
      BY <1>5, <2>1 DEF IsGrown, Fits
    <3>2. k # r.active /\ r.tasks[k].done /\ r.tasks[k].cards # <<>> /\ s.tasks[k].timer = r.tasks[k].timer
      BY <2>1, <3>1 DEF IsGrown, SameWork, Away
    <3> QED
      BY <1>5, <3>1, <3>2 DEF Marks, Leftovers, Cancelled, IsGrown
  <2>2. ASSUME NEW t \in s.orphans PROVE Cancelled(s, t)
    BY <1>1, <1>5, <2>2 DEF Marks, Leftovers, Cancelled, IsGrown
  <2> QED
    BY <2>1, <2>2 DEF Leftovers
<1>18. Sound(s)
  BY <1>1, <1>6, <1>7, <1>9, <1>10, <1>12, <1>13, <1>14, <1>16, <1>17 DEF Sound, Core, Marks
<1>19. /\ (s.active = 0) <=> (r.active = 0)
       /\ r.active \in Living(r) => s.active = r.active /\ s.active \in Living(s)
  BY <1>1, <1>2 DEF IsGrown, Away
<1>20. ASSUME task.blocker = 0 PROVE Keeps(r, s)
  <2>1. s.active = Away(r.active, i)
    BY DEF IsGrown
  <2>2. ASSUME r.active # 0, Quiet(r) PROVE Quiet(s)
    <3> SUFFICES ASSUME NEW k \in DOMAIN s.tasks, s.tasks[k].blocker = s.active PROVE FALSE
      BY DEF Quiet
    <3>1. k # i
      BY <1>5, <1>19, <1>20, <2>2
    <3>2. k \in DOMAIN r.tasks /\ Away(r.tasks[k].blocker, i) = Away(r.active, i)
      BY <2>1, <3>1 DEF IsGrown
    <3>3. r.tasks[k].blocker # r.active
      BY <2>2, <3>2 DEF Quiet
    <3>4. r.tasks[k].blocker = 0 \/ r.tasks[k].blocker \in Living(r)
      BY <1>5, <3>2, <3>3 DEF Core, Blocks
    <3> QED
      BY <1>1, <1>2, <2>2, <3>2, <3>3, <3>4 DEF Away
  <2>3. ASSUME r.active # 0, Unmarked(r) PROVE Unmarked(s)
    <3> SUFFICES ASSUME NEW c \in Cards, s.paintOf[c] = s.active PROVE FALSE
      BY DEF Unmarked
    <3>1. r.paintOf[c] # r.active /\ s.active # i
      BY <1>1, <2>1, <2>3 DEF Unmarked, Away
    <3>2. s.paintOf[c] = Away(r.paintOf[c], i) /\ s.active # 0
      BY <1>19, <2>3, <3>1 DEF IsGrown
    <3>3. r.paintOf[c] # 0
      BY <1>1, <3>2 DEF Away
    <3>4. r.paintOf[c] \in Living(r)
      BY <1>5, <3>1, <3>3 DEF Marks, PaintPlaces
    <3> QED
      BY <1>2, <2>1, <3>1, <3>2, <3>4 DEF Away
  <2> QED
    BY <1>15, <1>19, <2>1, <2>2, <2>3 DEF Keeps, ActiveTask
<1>21. ASSUME task.blocker # 0, Running(r, {}) PROVE Running(s, {})
  <2>1. r.active \in Living(r) /\ s.active = r.active /\ s.active \in Living(s) /\ r.active # i
    BY <1>2, <1>19, <1>21 DEF Fits
  <2>2. Free(r.tasks[r.active])
    BY <1>21, <2>1 DEF Running, ActiveFree
  <2>3. Free(s.tasks[s.active])
    BY <1>2, <2>1, <2>2 DEF IsGrown
  <2> QED
    BY <1>18, <1>19, <1>21, <2>1, <2>3 DEF Running, ActiveFits, ActiveFree
<1>22. ASSUME NEW t \in TimerTasks, r.timerOf[t] = 0, t # task.timer PROVE s.timerOf[t] = 0
  BY <1>1, <1>22 DEF IsGrown, Away
<1> QED
  BY <1>18, <1>20, <1>21, <1>22

-----------------------------------------------------------------------------
(* KTF: the places of the table. *)

LEMMA FreePlaceIs ==
  ASSUME NEW r \in Runtimes, NEW limit \in Nat, FreePlace(r, limit) # 0
  PROVE  /\ FreePlace(r, limit) \in Nat \ {0}
         /\ \/ FreePlace(r, limit) \in DOMAIN r.tasks /\ r.tasks[FreePlace(r, limit)].done
            \/ FreePlace(r, limit) = Len(r.tasks) + 1
<1> DEFINE finished == {i \in DOMAIN r.tasks : r.tasks[i].done /\ i <= limit}
<1>1. /\ Len(r.tasks) \in Nat /\ finished \in SUBSET Nat
      /\ \A i \in finished : i \in DOMAIN r.tasks /\ i \in Nat \ {0} /\ r.tasks[i].done
  BY TableFields
<1>2. FreePlace(r, limit) = IF finished # {} THEN Min(finished)
                            ELSE IF Len(r.tasks) < limit THEN Len(r.tasks) + 1 ELSE 0
  BY DEF FreePlace
<1>3. CASE finished # {}
  <2>1. PICK m \in finished : \A k \in finished : m <= k
    <3> HIDE DEF finished
    <3> QED
      BY <1>1, <1>3, LeastNumber
  <2>2. Min(finished) \in finished
    <3> HIDE DEF finished
    <3> QED
      BY <2>1 DEF Min
  <2> HIDE DEF finished
  <2> QED
    BY <1>1, <1>2, <1>3, <2>2
<1>4. CASE finished = {}
  <2> HIDE DEF finished
  <2> QED
    BY <1>1, <1>2, <1>4
<1> QED
  BY <1>3, <1>4

LEMMA TableType ==
  ASSUME NEW S, NEW n \in Nat, NEW f \in [1 .. n -> S]
  PROVE  f \in Seq(S) /\ Len(f) = n /\ DOMAIN f = 1 .. n
  OBVIOUS

\* What Placed does, before the new task is entered as the paint of its card or
\* as the callback of its timer.
IsPlaced(r, s, i, task) ==
  /\ s \in Runtimes
  /\ DOMAIN s.tasks = DOMAIN r.tasks \cup {i} /\ s.tasks[i] = task
  /\ \A k \in DOMAIN r.tasks : k # i =>
       /\ SameWork(s.tasks[k], r.tasks[k])
       /\ s.tasks[k].blocker = Away(r.tasks[k].blocker, i)
       /\ s.tasks[k].cards = r.tasks[k].cards
       /\ Free(r.tasks[k]) => Free(s.tasks[k])
  /\ s.active = Away(r.active, i)
  /\ r.active = i => s.detached = r.tasks[i]
  /\ r.active # i => s.detached = r.detached
  /\ \A t \in s.orphans : \/ t \in r.orphans
                          \/ /\ r.active # i /\ i \in DOMAIN r.tasks
                             /\ r.tasks[i].cards # <<>> /\ t = r.tasks[i].timer
  /\ s.pending = r.pending /\ s.status = r.status
  /\ s.paintOf = [c \in Cards |-> Away(r.paintOf[c], i)]
  /\ s.timerOf = [t \in TimerTasks |-> Away(r.timerOf[t], i)]

LEMMA PlacedIs ==
  ASSUME NEW r, NEW i, NEW task \in TaskRecords, Sound(r), i \in Nat \ {0},
         (i \in DOMAIN r.tasks /\ r.tasks[i].done) \/ i = Len(r.tasks) + 1
  PROVE  IsPlaced(r, Placed(r, i, task), i, task)
<1> DEFINE s == Placed(r, i, task)
<1>1. /\ r \in Runtimes /\ Len(r.tasks) \in Nat /\ DOMAIN r.tasks = 1 .. Len(r.tasks)
      /\ \A k \in DOMAIN r.tasks : k \in Nat \ {0} /\ r.tasks[k] \in TaskRecords
      /\ r.tasks \in Seq(TaskRecords) /\ Gone \in Refs /\ Nat \subseteq Refs /\ Gone \notin Nat
      /\ r.paintOf \in [Cards -> Refs] /\ r.timerOf \in [TimerTasks -> Refs] /\ r.active \in Refs
      /\ r.orphans \in SUBSET TimerOrNobody
  BY TableFields, RuntimeFields DEF Sound, Refs, Gone
<1>2. CASE i = Len(r.tasks) + 1
  <2>1. i > Len(r.tasks) /\ i \notin DOMAIN r.tasks
    BY <1>1, <1>2
  <2>2. s = [r EXCEPT !.tasks = Append(r.tasks, task)]
    BY <2>1 DEF Placed
  <2>3. /\ Append(r.tasks, task) \in Seq(TaskRecords)
        /\ DOMAIN Append(r.tasks, task) = DOMAIN r.tasks \cup {i}
        /\ Append(r.tasks, task)[i] = task
        /\ \A k \in DOMAIN r.tasks : Append(r.tasks, task)[k] = r.tasks[k]
    BY <1>1, <1>2
  <2>4. s \in Runtimes
    BY <1>1, <2>2, <2>3 DEF Runtimes
  <2>5. /\ s.tasks = Append(r.tasks, task) /\ s.active = r.active /\ s.detached = r.detached
        /\ s.orphans = r.orphans /\ s.pending = r.pending /\ s.status = r.status
        /\ s.paintOf = r.paintOf /\ s.timerOf = r.timerOf
    BY <1>1, <2>2 DEF Runtimes
  <2>6. \A k \in Living(r) : k # i
    BY <2>1 DEF Living
  <2>7. r.active # i
    BY <1>1, <2>1 DEF Sound, Core, Kinds
  <2>8. \A k \in DOMAIN r.tasks : Away(r.tasks[k].blocker, i) = r.tasks[k].blocker
    BY <1>1, <2>6, <2>7 DEF Away, Sound, Core, Blocks
  <2>9. \A c \in Cards : Away(r.paintOf[c], i) = r.paintOf[c]
    BY <1>1, <2>6, <2>7 DEF Away, Sound, Marks, PaintPlaces
  <2>10. \A t \in TimerTasks : Away(r.timerOf[t], i) = r.timerOf[t]
    BY <1>1, <2>1 DEF Away, Sound, Core, Pointers
  <2> HIDE DEF s
  <2>11. s.paintOf = [c \in Cards |-> Away(r.paintOf[c], i)]
    BY <1>1, <2>5, <2>9
  <2>12. s.timerOf = [t \in TimerTasks |-> Away(r.timerOf[t], i)]
    BY <1>1, <2>5, <2>10
  <2>13. \A k \in DOMAIN r.tasks : s.tasks[k] = r.tasks[k] /\ s.tasks[k].blocker = Away(r.tasks[k].blocker, i)
    BY <2>3, <2>5, <2>8
  <2>14. s.active = Away(r.active, i)
    BY <2>5, <2>7 DEF Away
  <2>15. /\ r.active = i => s.detached = r.tasks[i]
         /\ r.active # i => s.detached = r.detached
         /\ DOMAIN s.tasks = DOMAIN r.tasks \cup {i} /\ s.tasks[i] = task
         /\ \A t \in s.orphans : t \in r.orphans
    BY <2>3, <2>5, <2>7
  <2>16. \A k \in DOMAIN r.tasks : k # i =>
           /\ SameWork(s.tasks[k], r.tasks[k])
           /\ s.tasks[k].blocker = Away(r.tasks[k].blocker, i)
           /\ s.tasks[k].cards = r.tasks[k].cards
           /\ Free(r.tasks[k]) => Free(s.tasks[k])
    BY <2>13 DEF SameWork
  <2> QED
    BY <2>4, <2>5, <2>11, <2>12, <2>14, <2>15, <2>16 DEF IsPlaced, s
<1>3. CASE i # Len(r.tasks) + 1
  <2>1. i \in DOMAIN r.tasks /\ ~(i > Len(r.tasks))
    BY <1>1, <1>3
  <2> DEFINE Kept(k) == IF k = i THEN task
                        ELSE [r.tasks[k] EXCEPT !.blocker = Away(r.tasks[k].blocker, i),
                                                !.after = Away(r.tasks[k].after, i)]
             table == [k \in DOMAIN r.tasks |-> Kept(k)]
  <2>2. s = [r EXCEPT
       !.tasks = table,
       !.paintOf = [c \in Cards |-> Away(r.paintOf[c], i)],
       !.timerOf = [t \in TimerTasks |-> Away(r.timerOf[t], i)],
       !.active = Away(r.active, i),
       !.detached = IF r.active = i THEN r.tasks[i] ELSE r.detached,
       !.orphans = IF r.active # i /\ r.tasks[i].cards # <<>> THEN r.orphans \cup {r.tasks[i].timer}
                   ELSE r.orphans]
    BY <2>1, Zenon DEF Placed, Away
  <2>3. ASSUME NEW k \in DOMAIN r.tasks, k # i
        PROVE  /\ Kept(k) \in TaskRecords /\ SameWork(Kept(k), r.tasks[k])
               /\ Kept(k).blocker = Away(r.tasks[k].blocker, i)
               /\ Kept(k).cards = r.tasks[k].cards
               /\ Free(r.tasks[k]) => Free(Kept(k))
    BY <1>1, <2>3 DEF TaskRecords, SameWork, Free, Away
  <2>4. /\ table \in [DOMAIN r.tasks -> TaskRecords] /\ table[i] = task
        /\ \A k \in DOMAIN r.tasks : table[k] = Kept(k)
    <3>1. \A k \in DOMAIN r.tasks : Kept(k) \in TaskRecords
      BY <2>3
    <3> HIDE DEF Kept
    <3>2. Kept(i) = task
      BY DEF Kept
    <3> QED
      BY <2>1, <3>1, <3>2
  <2> HIDE DEF Kept
  <2>5. table \in Seq(TaskRecords) /\ DOMAIN table = DOMAIN r.tasks
    BY <1>1, <2>4, TableType
  <2> HIDE DEF table
  <2>6. r.tasks[i].timer \in TimerOrNobody /\ r.tasks[i] \in TaskRecords
    BY <1>1, <2>1, TaskFields
  <2>7. s \in Runtimes
    <3> DEFINE paintOf == [c \in Cards |-> Away(r.paintOf[c], i)]
               timerOf == [t \in TimerTasks |-> Away(r.timerOf[t], i)]
               detached == IF r.active = i THEN r.tasks[i] ELSE r.detached
               orphans == IF r.active # i /\ r.tasks[i].cards # <<>> THEN r.orphans \cup {r.tasks[i].timer}
                          ELSE r.orphans
    <3>1. paintOf \in [Cards -> Refs] /\ timerOf \in [TimerTasks -> Refs] /\ Away(r.active, i) \in Refs
      BY <1>1 DEF Away
    <3>2. detached \in TaskRecords
      BY <2>6, RuntimeFields, <1>1
    <3>3. orphans \in SUBSET TimerOrNobody
      BY <2>6, <1>1
    <3> HIDE DEF paintOf, timerOf, detached, orphans
    <3>4. s = [r EXCEPT !.tasks = table, !.paintOf = paintOf, !.timerOf = timerOf,
                        !.active = Away(r.active, i), !.detached = detached, !.orphans = orphans]
      BY <2>2 DEF paintOf, timerOf, detached, orphans
    <3> HIDE DEF s
    <3> QED
      BY <1>1, <2>5, <3>1, <3>2, <3>3, <3>4 DEF Runtimes
  <2>8. /\ s.tasks = table /\ s.active = Away(r.active, i)
        /\ s.detached = IF r.active = i THEN r.tasks[i] ELSE r.detached
        /\ s.orphans = IF r.active # i /\ r.tasks[i].cards # <<>> THEN r.orphans \cup {r.tasks[i].timer}
                       ELSE r.orphans
        /\ s.pending = r.pending /\ s.status = r.status
        /\ s.paintOf = [c \in Cards |-> Away(r.paintOf[c], i)]
        /\ s.timerOf = [t \in TimerTasks |-> Away(r.timerOf[t], i)]
    BY <1>1, <2>2 DEF Runtimes
  <2> HIDE DEF s
  <2>9. \A k \in DOMAIN r.tasks : k # i =>
          /\ SameWork(s.tasks[k], r.tasks[k])
          /\ s.tasks[k].blocker = Away(r.tasks[k].blocker, i)
          /\ s.tasks[k].cards = r.tasks[k].cards
          /\ Free(r.tasks[k]) => Free(s.tasks[k])
    BY <2>3, <2>4, <2>8
  <2>10. /\ DOMAIN s.tasks = DOMAIN r.tasks \cup {i} /\ s.tasks[i] = task
         /\ r.active = i => s.detached = r.tasks[i]
         /\ r.active # i => s.detached = r.detached
         /\ \A t \in s.orphans : \/ t \in r.orphans
                                 \/ /\ r.active # i /\ i \in DOMAIN r.tasks
                                    /\ r.tasks[i].cards # <<>> /\ t = r.tasks[i].timer
    BY <2>1, <2>4, <2>5, <2>8
  <2> QED
    BY <2>7, <2>8, <2>9, <2>10 DEF IsPlaced, s
<1> QED
  BY <1>2, <1>3

-----------------------------------------------------------------------------
(* KTF: what queues a task or a call. *)

\* What a call that may schedule keeps: a timer that was cancelled.
Follows(r, s) ==
  /\ Sound(s) /\ Keeps(r, s)
  /\ \A t \in TimerTasks : r.timerOf[t] = 0 /\ r.status[t] = "cancelled" =>
       s.timerOf[t] = 0 /\ s.status[t] = "cancelled"

LEMMA GoodFollows == ASSUME NEW r, NEW s, Good(r, s) PROVE Follows(r, s)
  BY DEF Good, Steady, Follows

LEMMA FollowsSelf == ASSUME NEW r, Sound(r) PROVE Follows(r, r)
  BY GoodSelf, GoodFollows

LEMMA FollowsChain ==
  ASSUME NEW r, NEW s, NEW u, Follows(r, s), Follows(s, u) PROVE Follows(r, u)
  BY DEF Follows, Keeps, ActiveTask, TaskAt

LEMMA FollowsRunning ==
  ASSUME NEW r, NEW s, Running(r, {}), Follows(r, s) PROVE Running(s, {})
<1>1. Sound(s) /\ s.active # 0
  BY DEF Running, Follows, Keeps
<1>2. ActiveFits(s, {})
  BY DEF Running, Follows, Keeps, ActiveFits
<1>3. ActiveFree(s)
  <2> SUFFICES ASSUME s.active \in Living(s) PROVE Free(s.tasks[s.active])
    BY DEF ActiveFree
  <2>1. s.active # Gone /\ s \in Runtimes /\ r \in Runtimes
    BY <1>1, TableFields DEF Sound, Running
  <2>2. ~ActiveTask(s).done
    BY <2>1 DEF ActiveTask, TaskAt, Living
  <2>3. r.active \in Living(r) /\ r.active # Gone
    BY <2>1, <2>2, TableFields DEF Running, ActiveFits, Follows, Keeps
  <2> QED
    BY <2>1, <2>3 DEF Running, ActiveFree, Follows, Keeps, ActiveTask, TaskAt
<1> QED
  BY <1>1, <1>2, <1>3 DEF Running

LEMMA Limits == BackgroundLimit \in Nat /\ MaxTasks \in Nat /\ MaxPendingCalls \in Nat
  BY TasksAssumption DEF BackgroundLimit

LEMMA PlainFields ==
  /\ PlainTask \in TaskRecords /\ FinishedTask \in TaskRecords
  /\ ~PlainTask.done /\ ~PlainTask.started /\ PlainTask.cards = <<>> /\ PlainTask.blocker = 0
  /\ PlainTask.timer = Nobody /\ PlainTask.paint = Nobody /\ ~PlainTask.wipic /\ PlainTask.key = Nobody
<1>1. <<>> \in Seq(Cards)
  OBVIOUS
<1>2. PlainTask \in TaskRecords
  BY <1>1 DEF PlainTask, TaskRecords, CardOrNobody, TimerOrNobody, ThreadOrNobody, Refs
<1>3. FinishedTask \in TaskRecords
  BY <1>2 DEF FinishedTask, TaskRecords
<1> QED
  BY <1>2, <1>3 DEF PlainTask

LEMMA QueuedIsGrown ==
  ASSUME NEW r, NEW limit \in Nat, NEW task, Sound(r), Fits(r, task),
         FreePlace(r, limit) # 0, task.paint = Nobody, task.timer = Nobody
  PROVE  IsGrown(r, Queued(r, limit, task), FreePlace(r, limit), task)
<1> DEFINE i == FreePlace(r, limit)
           s == Queued(r, limit, task)
<1>1. /\ i \in Nat \ {0} /\ ((i \in DOMAIN r.tasks /\ r.tasks[i].done) \/ i = Len(r.tasks) + 1)
      /\ task \in TaskRecords /\ r \in Runtimes /\ Len(r.tasks) \in Nat /\ DOMAIN r.tasks = 1 .. Len(r.tasks)
  BY FreePlaceIs, TableFields DEF Sound, Fits
<1> HIDE DEF i
<1>2. IsPlaced(r, s, i, task)
  BY <1>1, PlacedIs DEF Queued, i
<1>3. Nobody \notin Cards /\ Nobody \notin TimerTasks
  BY TasksAssumption
<1> HIDE DEF s
<1>4. IsGrown(r, s, i, task)
  BY <1>1, <1>2, <1>3 DEF IsPlaced, IsGrown
<1> QED
  BY <1>4 DEF s, i

LEMMA QueuedGood ==
  ASSUME NEW r, NEW limit \in Nat, NEW task, Sound(r), Fits(r, task),
         FreePlace(r, limit) # 0, task.paint = Nobody, task.timer = Nobody, task.blocker = 0
  PROVE  Good(r, Queued(r, limit, task))
<1> DEFINE i == FreePlace(r, limit)
           s == Queued(r, limit, task)
<1>1. IsGrown(r, s, i, task)
  BY QueuedIsGrown
<1> HIDE DEF i, s
<1>2. Sound(s) /\ Keeps(r, s) /\ \A t \in TimerTasks : r.timerOf[t] = 0 /\ t # task.timer => s.timerOf[t] = 0
  BY <1>1, Grown
<1>3. Steady(r, s)
  BY <1>1, <1>2, TasksAssumption DEF IsGrown, Steady
<1> QED
  BY <1>2, <1>3 DEF Good, s

LEMMA ThreadFits ==
  ASSUME NEW r, NEW h \in ThreadOrNobody
  PROVE  /\ Fits(r, PlainTask)
         /\ Fits(r, [PlainTask EXCEPT !.thread = h])
         /\ [PlainTask EXCEPT !.thread = h].paint = Nobody
         /\ [PlainTask EXCEPT !.thread = h].timer = Nobody
         /\ [PlainTask EXCEPT !.thread = h].blocker = 0
  BY PlainFields DEF Fits, PlainTask, TaskRecords

LEMMA FailGood ==
  ASSUME NEW r, Sound(r), NEW why \in {"pending", "showNotify", "layout", "exception"}
  PROVE  Good(r, Fail(r, why)) /\ Fail(r, why).fault # "none"
<1>1. IsAside(r, Fail(r, why)) /\ Fail(r, why).fault # "none"
  BY DEF IsAside, Fail, Sound, Runtimes
<1> QED
  BY <1>1, Aside

LEMMA PlainGood ==
  ASSUME NEW r, Sound(r), HasBackgroundCapacity(r)
  PROVE  Good(r, Queued(r, BackgroundLimit, PlainTask))
  BY QueuedGood, ThreadFits, PlainFields, Limits DEF HasBackgroundCapacity, ThreadOrNobody

LEMMA NotifyGood == ASSUME NEW r, Sound(r) PROVE Good(r, NotifyCardShown(r))
  BY PlainGood, FailGood DEF NotifyCardShown

\* A change of the calls that wait for a place.
LEMMA Repended ==
  ASSUME NEW r, NEW pending \in Seq(CallRecords), Sound(r), WaitingTimers([r EXCEPT !.pending = pending])
  PROVE  Follows(r, [r EXCEPT !.pending = pending])
<1> DEFINE s == [r EXCEPT !.pending = pending]
<1>1. /\ s \in Runtimes
      /\ s.tasks = r.tasks /\ s.active = r.active /\ s.detached = r.detached /\ s.orphans = r.orphans
      /\ s.pending = pending /\ s.paintOf = r.paintOf /\ s.timerOf = r.timerOf /\ s.status = r.status
  BY DEF Sound, Runtimes
<1>2. WaitingTimers(s)
  OBVIOUS
<1> HIDE DEF s
<1>3. Sound(s)
  BY <1>1, <1>2 DEF Sound, Core, Kinds, Turns, Paints, Pointers, Callbacks, Known, Blocks, Marks,
         PaintPlaces, Leftovers, Cancelled, Living, TaskAt
<1>4. Keeps(r, s)
  BY <1>1 DEF Keeps, ActiveTask, TaskAt, Living, Quiet, Unmarked
<1>5. Follows(r, s)
  BY <1>1, <1>3, <1>4 DEF Follows
<1> QED
  BY <1>5 DEF s

LEMMA DeferredFollows ==
  ASSUME NEW r, NEW call \in CallRecords, Sound(r),
         call.timer # Nobody =>
           /\ r.status[call.timer] = "scheduled"
           /\ \A j \in Living(r) : r.tasks[j].timer # call.timer
           /\ \A k \in DOMAIN r.pending : r.pending[k].timer # call.timer
  PROVE  Follows(r, Deferred(r, call))
<1>1. r.pending \in Seq(CallRecords) /\ r \in Runtimes
  BY RuntimeFields DEF Sound
<1>2. CASE Len(r.pending) >= MaxPendingCalls
  BY <1>2, FailGood, GoodFollows DEF Deferred
<1>3. CASE ~(Len(r.pending) >= MaxPendingCalls)
  <2> DEFINE pending == Append(r.pending, call)
  <2>1. /\ pending \in Seq(CallRecords) /\ DOMAIN pending = DOMAIN r.pending \cup {Len(r.pending) + 1}
        /\ \A k \in DOMAIN r.pending : pending[k] = r.pending[k]
        /\ pending[Len(r.pending) + 1] = call
    BY <1>1
  <2> DEFINE s == [r EXCEPT !.pending = pending]
  <2>2. s.pending = pending /\ s.tasks = r.tasks /\ s.status = r.status
    BY <1>1 DEF Runtimes
  <2> HIDE DEF pending, s
  <2>3. WaitingTimers(r) /\ Living(s) = Living(r)
    BY <2>2 DEF Sound, Core, Living
  <2>4. WaitingTimers(s)
    BY <2>1, <2>2, <2>3 DEF WaitingTimers
  <2>5. Follows(r, s)
    BY <2>1, <2>4, Repended DEF s
  <2> QED
    BY <1>3, <2>5 DEF Deferred, s, pending
<1> QED
  BY <1>2, <1>3

LEMMA QueueVirtualFollows == ASSUME NEW r, Sound(r) PROVE Follows(r, QueueJavaVirtual(r))
<1>1. PendingCall(Nobody) \in CallRecords /\ PendingCall(Nobody).timer = Nobody
  BY DEF PendingCall, CallRecords, ThreadOrNobody, TimerOrNobody
<1> QED
  BY <1>1, PlainGood, GoodFollows, DeferredFollows DEF QueueJavaVirtual

-----------------------------------------------------------------------------
(* KTF: cards. *)

LEMMA WithTaskIs ==
  ASSUME NEW r \in Runtimes, NEW p \in {Gone} \cup DOMAIN r.tasks, NEW task \in TaskRecords
  PROVE  LET s == WithTask(r, p, task)
         IN  /\ s \in Runtimes /\ DOMAIN s.tasks = DOMAIN r.tasks
             /\ s.active = r.active /\ s.orphans = r.orphans /\ s.pending = r.pending
             /\ s.paintOf = r.paintOf /\ s.timerOf = r.timerOf /\ s.status = r.status
             /\ s.fault = r.fault /\ s.tick = r.tick
             /\ TaskAt(s, p) = task
             /\ \A k \in {Gone} \cup DOMAIN r.tasks : k # p => TaskAt(s, k) = TaskAt(r, k)
<1> DEFINE s == WithTask(r, p, task)
<1>1. r.tasks \in Seq(TaskRecords) /\ Gone \notin DOMAIN r.tasks
  BY TableFields, RuntimeFields
<1>2. CASE p = Gone
  <2>1. s = [r EXCEPT !.detached = task]
    BY <1>2 DEF WithTask
  <2> HIDE DEF s
  <2>2. /\ s \in Runtimes /\ s.tasks = r.tasks /\ s.detached = task
        /\ s.active = r.active /\ s.orphans = r.orphans /\ s.pending = r.pending
        /\ s.paintOf = r.paintOf /\ s.timerOf = r.timerOf /\ s.status = r.status
        /\ s.fault = r.fault /\ s.tick = r.tick
    BY <2>1 DEF Runtimes
  <2> QED
    BY <1>1, <1>2, <2>2 DEF TaskAt, s
<1>3. CASE p # Gone
  <2> DEFINE tasks == [r.tasks EXCEPT ![p] = task]
  <2>1. /\ tasks \in Seq(TaskRecords) /\ DOMAIN tasks = DOMAIN r.tasks /\ tasks[p] = task
        /\ \A k \in DOMAIN r.tasks : k # p => tasks[k] = r.tasks[k]
    BY <1>1, <1>3
  <2>2. s = [r EXCEPT !.tasks = tasks]
    BY <1>3 DEF WithTask
  <2> HIDE DEF tasks
  <2>3. /\ s \in Runtimes /\ s.tasks = tasks /\ s.detached = r.detached
        /\ s.active = r.active /\ s.orphans = r.orphans /\ s.pending = r.pending
        /\ s.paintOf = r.paintOf /\ s.timerOf = r.timerOf /\ s.status = r.status
        /\ s.fault = r.fault /\ s.tick = r.tick
    BY <2>1, <2>2 DEF Runtimes
  <2> HIDE DEF s
  <2>4. /\ TaskAt(s, p) = task
        /\ \A k \in {Gone} \cup DOMAIN r.tasks : k # p => TaskAt(s, k) = TaskAt(r, k)
    BY <1>1, <1>3, <2>1, <2>3 DEF TaskAt
  <2> QED
    BY <2>1, <2>3, <2>4 DEF s
<1> QED
  BY <1>2, <1>3

\* One task changes: what it waits for, and its cards if it runs or is alive.
LEMMA WithTaskEased ==
  ASSUME NEW r, NEW p, NEW task \in TaskRecords, Sound(r), p \in {Gone} \cup DOMAIN r.tasks,
         SameWork(task, TaskAt(r, p)), task.blocker \in {0, TaskAt(r, p).blocker},
         p # r.active =>
           /\ Free(TaskAt(r, p)) => Free(task)
           /\ TaskAt(r, p).done => task.cards \in {<<>>, TaskAt(r, p).cards}
  PROVE  IsEased(r, WithTask(r, p, task))
<1> DEFINE s == WithTask(r, p, task)
<1>1. /\ s \in Runtimes /\ DOMAIN s.tasks = DOMAIN r.tasks
      /\ s.active = r.active /\ s.orphans = r.orphans /\ s.pending = r.pending
      /\ s.paintOf = r.paintOf /\ s.timerOf = r.timerOf /\ s.status = r.status
      /\ TaskAt(s, p) = task
      /\ \A k \in {Gone} \cup DOMAIN r.tasks : k # p => TaskAt(s, k) = TaskAt(r, k)
      /\ Gone \notin DOMAIN r.tasks
  BY WithTaskIs, TableFields DEF Sound
<1> HIDE DEF s
<1>2. \A k \in {Gone} \cup DOMAIN r.tasks : SameWork(TaskAt(s, k), TaskAt(r, k))
  <2> SUFFICES ASSUME NEW k \in {Gone} \cup DOMAIN r.tasks PROVE SameWork(TaskAt(s, k), TaskAt(r, k))
    OBVIOUS
  <2> QED
    BY <1>1 DEF SameWork
<1>3. TaskAt(s, Gone) = s.detached /\ TaskAt(r, Gone) = r.detached
  BY DEF TaskAt
<1>4. \A k \in DOMAIN r.tasks : k # Gone /\ TaskAt(s, k) = s.tasks[k] /\ TaskAt(r, k) = r.tasks[k]
  BY <1>1 DEF TaskAt
<1>5. \A k \in DOMAIN r.tasks :
        /\ SameWork(s.tasks[k], r.tasks[k])
        /\ s.tasks[k].blocker \in {0, r.tasks[k].blocker}
        /\ k # r.active /\ Free(r.tasks[k]) => Free(s.tasks[k])
        /\ k # r.active /\ r.tasks[k].done => s.tasks[k].cards \in {<<>>, r.tasks[k].cards}
  <2> SUFFICES ASSUME NEW k \in DOMAIN r.tasks
               PROVE  /\ SameWork(s.tasks[k], r.tasks[k])
                      /\ s.tasks[k].blocker \in {0, r.tasks[k].blocker}
                      /\ k # r.active /\ Free(r.tasks[k]) => Free(s.tasks[k])
                      /\ k # r.active /\ r.tasks[k].done => s.tasks[k].cards \in {<<>>, r.tasks[k].cards}
    OBVIOUS
  <2>1. CASE k = p
    BY <1>1, <1>2, <1>4, <2>1
  <2>2. CASE k # p
    BY <1>1, <1>2, <1>4, <2>2
  <2> QED
    BY <2>1, <2>2
<1>6. IsEased(r, s)
  BY <1>1, <1>2, <1>3, <1>5 DEF IsEased
<1> QED
  BY <1>6 DEF s

\* The running task changes, and goes on.
LEMMA ActiveChanges ==
  ASSUME NEW r, NEW task \in TaskRecords, NEW C, Running(r, C),
         SameWork(task, ActiveTask(r)), task.blocker = ActiveTask(r).blocker,
         Free(ActiveTask(r)) => Free(task)
  PROVE  Running(WithActive(r, task), C)
<1> DEFINE s == WithActive(r, task)
<1>1. /\ Sound(r) /\ r \in Runtimes /\ r.active \in {Gone} \cup DOMAIN r.tasks /\ Gone \notin DOMAIN r.tasks
      /\ 0 \notin DOMAIN r.tasks
  BY TableFields DEF Running, Sound, Core, Kinds
<1>2. IsEased(r, s)
  BY <1>1, WithTaskEased DEF WithActive, ActiveTask
<1>3. TaskAt(s, r.active) = task /\ s.active = r.active /\ Living(s) = Living(r)
  BY <1>1, <1>2, WithTaskIs, EasedParts DEF WithActive
<1> HIDE DEF s
<1>4. ActiveFree(s)
  BY <1>1, <1>3 DEF ActiveFree, TaskAt, Running, ActiveTask, Living
<1>5. Running(s, C)
  BY <1>2, <1>4, EasedRunning
<1> QED
  BY <1>5 DEF s

\* The cards whose paint is forgotten have none alive.
LEMMA Unpainted ==
  ASSUME NEW r, NEW paintOf \in [Cards -> Refs], Sound(r),
         \A c \in Cards : \/ paintOf[c] = r.paintOf[c]
                          \/ paintOf[c] = 0 /\ \A i \in Living(r) : r.tasks[i].paint # c
  PROVE  Good(r, [r EXCEPT !.paintOf = paintOf])
<1> DEFINE s == [r EXCEPT !.paintOf = paintOf]
<1>1. /\ s \in Runtimes
      /\ s.tasks = r.tasks /\ s.active = r.active /\ s.detached = r.detached /\ s.orphans = r.orphans
      /\ s.pending = r.pending /\ s.paintOf = paintOf /\ s.timerOf = r.timerOf /\ s.status = r.status
  BY DEF Sound, Runtimes
<1> HIDE DEF s
<1>2. Living(s) = Living(r)
  BY <1>1 DEF Living
<1>3. Paints(s)
  <2> SUFFICES ASSUME NEW i \in Living(r), r.tasks[i].paint # Nobody
               PROVE  paintOf[r.tasks[i].paint] = i
    BY <1>1, <1>2 DEF Paints
  <2>1. r.tasks[i].paint \in Cards /\ r.paintOf[r.tasks[i].paint] = i
    BY TableFields, TaskFields DEF Sound, Core, Paints, CardOrNobody
  <2> QED
    BY <2>1
<1>4. PaintPlaces(s)
  BY <1>1, <1>2 DEF Sound, Marks, PaintPlaces, TaskAt
<1>5. Sound(s)
  BY <1>1, <1>2, <1>3, <1>4 DEF Sound, Core, Kinds, Turns, Pointers, Callbacks, Known, WaitingTimers, Blocks, Marks,
         Leftovers, Cancelled
<1>6. Keeps(r, s) /\ Steady(r, s)
  BY <1>1, <1>2 DEF Keeps, Steady, ActiveTask, TaskAt, Quiet, Unmarked
<1>7. Good(r, s)
  BY <1>5, <1>6 DEF Good
<1> QED
  BY <1>7 DEF s

LEMMA DeferIs ==
  ASSUME NEW task \in TaskRecords, NEW c \in Cards, NEW show \in BOOLEAN
  PROVE  LET deferred == [task EXCEPT !.shown = IF show THEN @ \cup {c} ELSE @,
                                      !.cards = IF c \in ToSet(@) THEN @ ELSE Append(@, c)]
         IN  /\ deferred \in TaskRecords /\ SameWork(deferred, task) /\ deferred.blocker = task.blocker
             /\ Free(task) => Free(deferred)
<1> DEFINE shown == IF show THEN task.shown \cup {c} ELSE task.shown
           cards == IF c \in ToSet(task.cards) THEN task.cards ELSE Append(task.cards, c)
<1>1. task.cards \in Seq(Cards) /\ task.shown \in SUBSET Cards
  BY DEF TaskRecords
<1>2. shown \in SUBSET Cards /\ cards \in Seq(Cards)
  BY <1>1
<1> HIDE DEF shown, cards
<1>3. [task EXCEPT !.shown = shown, !.cards = cards] \in TaskRecords
  BY <1>2 DEF TaskRecords
<1>4. /\ SameWork([task EXCEPT !.shown = shown, !.cards = cards], task)
      /\ [task EXCEPT !.shown = shown, !.cards = cards].blocker = task.blocker
      /\ Free(task) => Free([task EXCEPT !.shown = shown, !.cards = cards])
  BY DEF SameWork, Free, TaskRecords
<1> QED
  BY <1>3, <1>4 DEF shown, cards

\* The running task goes on with one card more.
LEMMA DeferRunning ==
  ASSUME NEW r, NEW C, NEW c \in Cards, NEW show \in BOOLEAN, Running(r, C)
  PROVE  Running(DeferCardPaint(r, r.active, c, show), C)
<1>1. r \in Runtimes /\ r.active \in {Gone} \cup DOMAIN r.tasks
  BY DEF Running, Sound, Core, Kinds
<1>2. ActiveTask(r) \in TaskRecords
  BY <1>1, TableFields DEF ActiveTask, TaskAt
<1> QED
  BY <1>2, DeferIs, ActiveChanges DEF DeferCardPaint, WithActive, ActiveTask

\* A key handler takes over a repaint.
LEMMA DeferGood ==
  ASSUME NEW r, NEW p, NEW c \in Cards, Sound(r), p \in Living(r)
  PROVE  Good(r, DeferCardPaint(r, p, c, FALSE))
<1>1. r \in Runtimes /\ p \in DOMAIN r.tasks /\ ~r.tasks[p].done /\ p # Gone
  BY TableFields DEF Sound, Living
<1>2. TaskAt(r, p) \in TaskRecords /\ TaskAt(r, p) = r.tasks[p]
  BY <1>1, TableFields DEF TaskAt
<1> DEFINE deferred == [TaskAt(r, p) EXCEPT !.shown = IF FALSE THEN @ \cup {c} ELSE @,
                                             !.cards = IF c \in ToSet(@) THEN @ ELSE Append(@, c)]
           s == WithTask(r, p, deferred)
<1>3. /\ deferred \in TaskRecords /\ SameWork(deferred, TaskAt(r, p)) /\ deferred.blocker = TaskAt(r, p).blocker
      /\ Free(TaskAt(r, p)) => Free(deferred)
  BY <1>2, DeferIs
<1>4. DeferCardPaint(r, p, c, FALSE) = s
  BY DEF DeferCardPaint
<1> HIDE DEF deferred
<1>5. IsEased(r, s)
  BY <1>1, <1>2, <1>3, WithTaskEased
<1>6. /\ s.active = r.active /\ TaskAt(s, p) = deferred
      /\ \A k \in {Gone} \cup DOMAIN r.tasks : k # p => TaskAt(s, k) = TaskAt(r, k)
  BY <1>1, <1>3, WithTaskIs
<1> HIDE DEF s
<1>7. r.active # 0 =>
        /\ Free(ActiveTask(r)) => Free(ActiveTask(s))
        /\ ActiveTask(r).done /\ ActiveTask(r).cards = <<>> => ActiveTask(s).cards = <<>>
  <2> SUFFICES ASSUME r.active # 0
               PROVE  /\ Free(ActiveTask(r)) => Free(ActiveTask(s))
                      /\ ActiveTask(r).done /\ ActiveTask(r).cards = <<>> => ActiveTask(s).cards = <<>>
    OBVIOUS
  <2>1. r.active \in {Gone} \cup DOMAIN r.tasks
    BY DEF Sound, Core, Kinds
  <2>2. CASE r.active = p
    BY <1>1, <1>2, <1>3, <1>6, <2>2 DEF ActiveTask
  <2>3. CASE r.active # p
    BY <1>6, <2>1, <2>3 DEF ActiveTask
  <2> QED
    BY <2>2, <2>3
<1> QED
  BY <1>4, <1>5, <1>7, EasedKeeps

-----------------------------------------------------------------------------
(* KTF: paints. *)

LEMMA QueuePaintGood ==
  ASSUME NEW r, NEW c \in Cards, Sound(r), HasBackgroundCapacity(r),
         \A i \in Living(r) : r.tasks[i].paint # c
  PROVE  Good(r, QueuePaint(r, c))
<1> DEFINE i == FreePlace(r, BackgroundLimit)
           task == [PlainTask EXCEPT !.paint = c, !.bestEffort = c \notin r.painted]
           bare == [r EXCEPT !.paintOf = [r.paintOf EXCEPT ![c] = 0]]
           r0 == [r EXCEPT !.dirty = r.dirty \ {c}, !.paintOf[c] = 0]
           queued == Queued(r0, BackgroundLimit, task)
           s == [queued EXCEPT !.paintOf[c] = i]
<1>1. QueuePaint(r, c) = s
  BY DEF QueuePaint
<1>2. Good(r, bare)
  <2> DEFINE paintOf == [r.paintOf EXCEPT ![c] = 0]
  <2>1. r.paintOf \in [Cards -> Refs] /\ 0 \in Refs
    BY RuntimeFields DEF Sound, Refs
  <2>2. paintOf \in [Cards -> Refs]
    BY <2>1
  <2>3. \A d \in Cards : paintOf[d] = r.paintOf[d] \/ (paintOf[d] = 0 /\ \A k \in Living(r) : r.tasks[k].paint # d)
    BY <2>1
  <2> HIDE DEF paintOf
  <2>4. Good(r, [r EXCEPT !.paintOf = paintOf])
    BY <2>2, <2>3, Unpainted
  <2> QED
    BY <2>4 DEF paintOf
<1>3. Good(bare, r0)
  <2>1. r \in Runtimes /\ bare \in Runtimes
    BY <1>2 DEF Sound, Good
  <2>2. IsAside(bare, r0)
    <3> HIDE DEF bare
    <3>1. /\ bare.tasks = r.tasks /\ bare.active = r.active /\ bare.detached = r.detached
          /\ bare.orphans = r.orphans /\ bare.pending = r.pending /\ bare.timerOf = r.timerOf
          /\ bare.status = r.status /\ bare.paintOf = [r.paintOf EXCEPT ![c] = 0]
      BY <2>1 DEF Runtimes, bare
    <3>2. r0 \in Runtimes
      BY <2>1 DEF Runtimes, Refs
    <3> QED
      BY <2>1, <3>1, <3>2 DEF IsAside, Runtimes
  <2> HIDE DEF bare, r0
  <2> QED
    BY <1>2, <2>2, Aside DEF Good
<1>4. Good(r, r0)
  <2> HIDE DEF bare, r0
  <2> QED
    BY <1>2, <1>3, GoodChain
<1>5. Sound(r0) /\ r0 \in Runtimes /\ r0.tasks = r.tasks
  <2>1. r0.tasks = r.tasks
    BY DEF Sound, Runtimes
  <2> HIDE DEF r0
  <2> QED
    BY <1>4, <2>1 DEF Good, Sound
<1> HIDE DEF r0
<1>6. FreePlace(r0, BackgroundLimit) = i /\ Living(r0) = Living(r)
  BY <1>5 DEF FreePlace, Living
<1>7. i # 0
  BY DEF HasBackgroundCapacity
<1> HIDE DEF i
<1>8. c # Nobody /\ Nobody \notin TimerTasks
  BY TasksAssumption
<1>9. /\ task \in TaskRecords /\ ~task.done /\ ~task.started /\ task.cards = <<>> /\ task.blocker = 0
      /\ task.timer = Nobody /\ task.paint = c /\ ~task.wipic /\ task.key = Nobody
  BY PlainFields DEF TaskRecords, CardOrNobody
<1> HIDE DEF task
<1>10. Fits(r0, task)
  BY <1>5, <1>6, <1>9 DEF Fits
<1>11. /\ i \in Nat \ {0} /\ ((i \in DOMAIN r0.tasks /\ r0.tasks[i].done) \/ i = Len(r0.tasks) + 1)
       /\ Len(r0.tasks) \in Nat /\ DOMAIN r0.tasks = 1 .. Len(r0.tasks)
  BY <1>5, <1>6, <1>7, FreePlaceIs, Limits, TableFields
<1>12. IsPlaced(r0, queued, i, task)
  BY <1>5, <1>6, <1>9, <1>11, PlacedIs DEF Queued
<1> HIDE DEF queued
<1>13. /\ queued \in Runtimes /\ queued.paintOf = [d \in Cards |-> Away(r0.paintOf[d], i)]
       /\ queued.timerOf = [t \in TimerTasks |-> Away(r0.timerOf[t], i)]
  BY <1>12 DEF IsPlaced
<1>14. /\ s \in Runtimes
       /\ s.tasks = queued.tasks /\ s.active = queued.active /\ s.detached = queued.detached
       /\ s.orphans = queued.orphans /\ s.pending = queued.pending /\ s.timerOf = queued.timerOf
       /\ s.status = queued.status /\ s.paintOf = [queued.paintOf EXCEPT ![c] = i]
  BY <1>11, <1>13 DEF Runtimes, Refs
<1> HIDE DEF s
<1>15. \A d \in Cards : s.paintOf[d] = IF d = task.paint THEN i ELSE Away(r0.paintOf[d], i)
  BY <1>9, <1>13, <1>14
<1>16. \A t \in TimerTasks : s.timerOf[t] = IF t = task.timer THEN i ELSE Away(r0.timerOf[t], i)
  BY <1>8, <1>9, <1>13, <1>14
<1>17. IsGrown(r0, s, i, task)
  BY <1>11, <1>12, <1>14, <1>15, <1>16 DEF IsPlaced, IsGrown
<1>18. Sound(s) /\ Keeps(r0, s) /\ \A t \in TimerTasks : r0.timerOf[t] = 0 /\ t # task.timer => s.timerOf[t] = 0
  BY <1>5, <1>9, <1>10, <1>17, Grown
<1>19. Good(r0, s)
  BY <1>8, <1>9, <1>17, <1>18 DEF Good, Steady, IsGrown
<1> QED
  BY <1>1, <1>4, <1>19, GoodChain

LEMMA KeyTasksLeast ==
  ASSUME NEW r \in Runtimes, NEW c, KeyTasks(r, c) # {}
  PROVE  Min(KeyTasks(r, c)) \in Living(r)
<1>1. KeyTasks(r, c) \in SUBSET Nat /\ KeyTasks(r, c) \subseteq Living(r)
  BY TableFields DEF KeyTasks
<1>2. PICK m \in KeyTasks(r, c) : \A k \in KeyTasks(r, c) : m <= k
  BY <1>1, LeastNumber
<1>3. Min(KeyTasks(r, c)) \in KeyTasks(r, c)
  BY <1>2 DEF Min
<1> QED
  BY <1>1, <1>3

LEMMA PaintCardGood ==
  ASSUME NEW r, NEW c \in Cards, Sound(r)
  PROVE  Good(r, PaintCard(r, c))
<1>1. CASE c \notin r.dirty
  BY <1>1, GoodSelf DEF PaintCard
<1>2. CASE c \in r.dirty /\ KeyTasks(r, c) # {}
  BY <1>2, KeyTasksLeast, DeferGood DEF PaintCard, Sound
<1>3. CASE c \in r.dirty /\ KeyTasks(r, c) = {} /\ PaintIsLive(r, c)
  <2>1. PaintCard(r, c) = [r EXCEPT !.dirty = r.dirty \ {c}]
    BY <1>3 DEF PaintCard
  <2>2. IsAside(r, [r EXCEPT !.dirty = r.dirty \ {c}])
    BY DEF IsAside, Sound, Runtimes
  <2> QED
    BY <2>1, <2>2, Aside
<1>4. CASE c \in r.dirty /\ KeyTasks(r, c) = {} /\ ~PaintIsLive(r, c)
  <2>1. PaintCard(r, c) = IF ~HasBackgroundCapacity(r) \/ KeyGoesFirst(r, c) THEN r ELSE QueuePaint(r, c)
    BY <1>4 DEF PaintCard
  <2>2. \A i \in Living(r) : r.tasks[i].paint # c
    <3> SUFFICES ASSUME NEW i \in Living(r), r.tasks[i].paint = c PROVE FALSE
      OBVIOUS
    <3>1. c # Nobody
      BY TasksAssumption
    <3>2. r.paintOf[c] = i /\ i \in Nat \ {0} /\ ~r.tasks[i].done
      BY <3>1, TableFields DEF Sound, Core, Paints, Living
    <3> QED
      BY <1>4, <3>2 DEF PaintIsLive
  <2> QED
    BY <2>1, <2>2, GoodSelf, QueuePaintGood
<1> QED
  BY <1>1, <1>2, <1>3, <1>4

LEMMA ReleaseCardGood ==
  ASSUME NEW r, NEW c \in Cards, NEW shown, Sound(r)
  PROVE  Good(r, ReleaseCard(r, c, shown))
<1> DEFINE announced == IF shown THEN NotifyCardShown(r) ELSE r
<1>1. Good(r, announced)
  BY NotifyGood, GoodSelf
<1>2. ReleaseCard(r, c, shown) = IF announced.fault # "none" THEN announced ELSE PaintCard(announced, c)
  BY DEF ReleaseCard
<1> HIDE DEF announced
<1>3. Good(announced, PaintCard(announced, c))
  BY <1>1, PaintCardGood DEF Good
<1> QED
  BY <1>1, <1>2, <1>3, GoodChain

\* A loop exists for any number of rounds, and what each round establishes from
\* what the one before established holds after it.
IsIteration(n, u, Round, f) ==
  f = [k \in 0 .. n |-> IF k = 0 THEN u ELSE Round[k][f[k - 1]]]

LEMMA IterationExists ==
  ASSUME NEW N \in Nat, NEW U, NEW u \in U[0], NEW Round,
         \A k \in 1 .. N : Round[k] \in [U[k - 1] -> U[k]]
  PROVE  \E f : IsIteration(N, u, Round, f) /\ \A k \in 0 .. N : f[k] \in U[k]
<1> DEFINE Ok(n, f) == IsIteration(n, u, Round, f) /\ \A k \in 0 .. n : f[k] \in U[k]
           missing == {n \in 0 .. N : ~ \E f : Ok(n, f)}
<1>1. missing \in SUBSET Nat
  OBVIOUS
<1>2. missing = {}
  <2> SUFFICES ASSUME missing # {} PROVE FALSE
    OBVIOUS
  <2>1. PICK m \in missing : \A k \in missing : m <= k
    <3> HIDE DEF missing
    <3> QED
      BY <1>1, LeastNumber
  <2>2. m # 0
    <3> DEFINE f == [k \in 0 .. 0 |-> u]
    <3>1. Ok(0, f)
      BY DEF IsIteration
    <3>2. \E g : Ok(0, g)
      BY <3>1
    <3> HIDE DEF Ok
    <3> QED
      BY <3>2
  <2>3. m \in 1 .. N /\ m \in Nat /\ m - 1 \in 0 .. N /\ ~(m <= m - 1)
    BY <2>1, <2>2
  <2>4. m - 1 \notin missing
    <3> HIDE DEF missing
    <3> QED
      BY <2>1, <2>3
  <2>5. PICK f : Ok(m - 1, f)
    BY <2>3, <2>4
  <2> DEFINE g == [k \in 0 .. m |-> IF k = m THEN Round[m][f[m - 1]] ELSE f[k]]
  <2>6. f[m - 1] \in U[m - 1] /\ Round[m][f[m - 1]] \in U[m]
    <3>1. f[m - 1] \in U[m - 1]
      BY <2>3, <2>5
    <3> QED
      BY <2>3, <3>1
  <2>7. \A k \in 0 .. m : g[k] = (IF k = 0 THEN u ELSE Round[k][g[k - 1]]) /\ g[k] \in U[k]
    <3> TAKE k \in 0 .. m
    <3>1. CASE k = m
      <4>1. g[k - 1] = f[m - 1] /\ g[k] = Round[m][f[m - 1]]
        BY <2>2, <2>3, <3>1
      <4> QED
        BY <2>2, <2>6, <3>1, <4>1
    <3>2. CASE k # m
      <4>1. k \in 0 .. m - 1 /\ (k # 0 => k - 1 \in 0 .. m - 1)
        BY <2>3, <3>2
      <4>2. f[k] = (IF k = 0 THEN u ELSE Round[k][f[k - 1]]) /\ f[k] \in U[k]
        BY <2>5, <4>1 DEF IsIteration
      <4>3. g[k] = f[k] /\ (k # 0 => g[k - 1] = f[k - 1])
        BY <2>3, <3>2, <4>1
      <4> QED
        BY <4>2, <4>3
    <3> QED
      BY <3>1, <3>2
  <2>8. Ok(m, g)
    <3>1. \A k \in 0 .. m : g[k] = IF k = 0 THEN u ELSE Round[k][g[k - 1]]
      BY <2>7
    <3>2. \A k \in 0 .. m : g[k] \in U[k]
      BY <2>7
    <3>3. DOMAIN g = 0 .. m /\ g = [k \in 0 .. m |-> g[k]]
      OBVIOUS
    <3> HIDE DEF g
    <3>4. g = [k \in 0 .. m |-> IF k = 0 THEN u ELSE Round[k][g[k - 1]]]
      BY <3>1, <3>3
    <3> QED
      BY <3>2, <3>4 DEF IsIteration
  <2>9. \E f2 : Ok(m, f2)
    BY <2>8
  <2> HIDE DEF Ok
  <2> QED
    BY <2>1, <2>9
<1>3. N \notin missing
  BY <1>2
<1> QED
  BY <1>3

-----------------------------------------------------------------------------
(* KTF: what a task that yields or ends lets go. *)

LEMMA IterationHolds ==
  ASSUME NEW N \in Nat, NEW U, NEW f, f[0] \in U[0],
         \A k \in 1 .. N : f[k - 1] \in U[k - 1] => f[k] \in U[k]
  PROVE  \A k \in 0 .. N : f[k] \in U[k]
<1> DEFINE bad == {k \in 0 .. N : f[k] \notin U[k]}
<1>1. bad \in SUBSET Nat
  OBVIOUS
<1>2. bad = {}
  <2> SUFFICES ASSUME bad # {} PROVE FALSE
    OBVIOUS
  <2>1. PICK m \in bad : \A k \in bad : m <= k
    <3> HIDE DEF bad
    <3> QED
      BY <1>1, LeastNumber
  <2>2. m \in 1 .. N /\ m \in Nat /\ m - 1 \in 0 .. N /\ ~(m <= m - 1)
    BY <2>1
  <2>3. m - 1 \notin bad
    <3> HIDE DEF bad
    <3> QED
      BY <2>1, <2>2
  <2> QED
    BY <2>1, <2>2, <2>3
<1> QED
  BY <1>2

\* The loop of ReleaseDeferredCardPaints.
ReleasedOneByOne(r, cards, shown) ==
  LET After[n \in 0 .. Len(cards)] ==
        IF n = 0 THEN r ELSE ReleaseCard(After[n - 1], cards[n], cards[n] \in shown)
  IN After[Len(cards)]

LEMMA ReleasedGood ==
  ASSUME NEW r, NEW cards \in Seq(Cards), NEW shown, Sound(r)
  PROVE  Good(r, ReleasedOneByOne(r, cards, shown))
<1> DEFINE N == Len(cards)
           V == {x \in Runtimes : Good(r, x)}
           U == [k \in 0 .. N |-> V]
           Step(x, k) == ReleaseCard(x, cards[k], cards[k] \in shown)
           Round == [k \in 1 .. N |-> [x \in V |-> Step(x, k)]]
           Fits2(f) == f = [k \in 0 .. N |-> IF k = 0 THEN r ELSE Step(f[k - 1], k)]
           After == CHOOSE f : Fits2(f)
<1>1. N \in Nat /\ \A k \in 1 .. N : cards[k] \in Cards
  OBVIOUS
<1>2. r \in V
  BY GoodSelf DEF Sound
<1>3. ASSUME NEW x \in V, NEW k \in 1 .. N PROVE Step(x, k) \in V
  <2>1. Sound(x) /\ cards[k] \in Cards
    BY <1>1, <1>3 DEF Good
  <2>2. Good(x, Step(x, k))
    BY <2>1, ReleaseCardGood
  <2> HIDE DEF Step
  <2> QED
    BY <1>3, <2>2, GoodChain DEF Good, Sound
<1> HIDE DEF N, V, Step
<1>4. \A k \in 1 .. N : Round[k] \in [U[k - 1] -> U[k]]
  <2> SUFFICES ASSUME NEW k \in 1 .. N PROVE Round[k] \in [U[k - 1] -> U[k]]
    OBVIOUS
  <2>1. U[k - 1] = V /\ U[k] = V
    BY <1>1
  <2>2. Round[k] = [x \in V |-> Step(x, k)]
    OBVIOUS
  <2> HIDE DEF U, Round
  <2> QED
    BY <1>3, <2>1, <2>2
<1>5. r \in U[0]
  BY <1>1, <1>2
<1>6. \E f : Fits2(f)
  <2>1. PICK f : IsIteration(N, r, Round, f) /\ \A k \in 0 .. N : f[k] \in U[k]
    <3> HIDE DEF U, Round
    <3> QED
      BY <1>1, <1>4, <1>5, IterationExists
  <2>2. \A k \in 0 .. N : f[k] \in V
    BY <2>1
  <2>3. \A k \in 0 .. N : (IF k = 0 THEN r ELSE Round[k][f[k - 1]]) = (IF k = 0 THEN r ELSE Step(f[k - 1], k))
    <3> SUFFICES ASSUME NEW k \in 0 .. N, k # 0 PROVE Round[k][f[k - 1]] = Step(f[k - 1], k)
      OBVIOUS
    <3>1. k \in 1 .. N /\ k - 1 \in 0 .. N
      BY <1>1
    <3>2. f[k - 1] \in V
      BY <2>2, <3>1
    <3> QED
      BY <3>1, <3>2
  <2> HIDE DEF Round, U
  <2>4. Fits2(f)
    BY <2>1, <2>3 DEF IsIteration
  <2> QED
    BY <2>4
<1>7. Fits2(After)
  <2> HIDE DEF Fits2
  <2> QED
    BY <1>6
<1>8. ReleasedOneByOne(r, cards, shown) = After[N]
  BY Zenon DEF ReleasedOneByOne, N, Step
<1> HIDE DEF After
<1>9. After[0] = r /\ \A k \in 1 .. N : After[k] = Step(After[k - 1], k)
  <2>1. \A k \in 0 .. N : After[k] = IF k = 0 THEN r ELSE Step(After[k - 1], k)
    BY <1>7
  <2>2. 0 \in 0 .. N /\ \A k \in 1 .. N : k \in 0 .. N /\ k # 0
    BY <1>1
  <2> HIDE DEF Fits2
  <2> QED
    BY <2>1, <2>2
<1>10. \A k \in 0 .. N : After[k] \in U[k]
  <2>1. After[0] \in U[0]
    BY <1>5, <1>9
  <2>2. ASSUME NEW k \in 1 .. N, After[k - 1] \in U[k - 1] PROVE After[k] \in U[k]
    <3>1. k - 1 \in 0 .. N /\ k \in 0 .. N
      BY <1>1
    <3>2. After[k - 1] \in V
      BY <2>2, <3>1
    <3> QED
      BY <1>3, <1>9, <3>1, <3>2
  <2> HIDE DEF U, Fits2
  <2> QED
    BY <1>1, <2>1, <2>2, IterationHolds
<1>11. After[N] \in V
  BY <1>1, <1>10
<1> QED
  BY <1>8, <1>11 DEF V

LEMMA ClearedIs ==
  ASSUME NEW task \in TaskRecords
  PROVE  LET cleared == [task EXCEPT !.cards = <<>>, !.shown = {}]
         IN  /\ cleared \in TaskRecords /\ SameWork(cleared, task) /\ cleared.blocker = task.blocker
             /\ Free(task) => Free(cleared)
             /\ cleared.cards = <<>>
<1>1. <<>> \in Seq(Cards) /\ {} \in SUBSET Cards
  OBVIOUS
<1> QED
  BY <1>1 DEF TaskRecords, SameWork, Free

\* A task's cards are cleared.
LEMMA ClearedGood ==
  ASSUME NEW r, NEW p, Sound(r), p \in {Gone} \cup DOMAIN r.tasks
  PROVE  LET s == WithTask(r, p, [TaskAt(r, p) EXCEPT !.cards = <<>>, !.shown = {}])
         IN  Good(r, s) /\ s.active = r.active /\ TaskAt(s, p).cards = <<>>
<1> DEFINE task == [TaskAt(r, p) EXCEPT !.cards = <<>>, !.shown = {}]
           s == WithTask(r, p, task)
<1>1. r \in Runtimes /\ TaskAt(r, p) \in TaskRecords
  BY TableFields DEF Sound, TaskAt
<1>2. /\ task \in TaskRecords /\ SameWork(task, TaskAt(r, p)) /\ task.blocker = TaskAt(r, p).blocker
      /\ Free(TaskAt(r, p)) => Free(task)
      /\ task.cards = <<>>
  BY <1>1, ClearedIs
<1> HIDE DEF task
<1>3. IsEased(r, s)
  BY <1>2, WithTaskEased
<1>4. /\ s.active = r.active /\ TaskAt(s, p) = task
      /\ \A k \in {Gone} \cup DOMAIN r.tasks : k # p => TaskAt(s, k) = TaskAt(r, k)
  BY <1>1, <1>2, WithTaskIs
<1> HIDE DEF s
<1>5. r.active # 0 =>
        /\ Free(ActiveTask(r)) => Free(ActiveTask(s))
        /\ ActiveTask(r).done /\ ActiveTask(r).cards = <<>> => ActiveTask(s).cards = <<>>
  <2> SUFFICES ASSUME r.active # 0
               PROVE  /\ Free(ActiveTask(r)) => Free(ActiveTask(s))
                      /\ ActiveTask(r).done /\ ActiveTask(r).cards = <<>> => ActiveTask(s).cards = <<>>
    OBVIOUS
  <2>1. r.active \in {Gone} \cup DOMAIN r.tasks
    BY DEF Sound, Core, Kinds
  <2>2. CASE r.active = p
    BY <1>2, <1>4, <2>2 DEF ActiveTask
  <2>3. CASE r.active # p
    BY <1>4, <2>1, <2>3 DEF ActiveTask
  <2> QED
    BY <2>2, <2>3
<1>6. Good(r, s)
  BY <1>3, <1>5, EasedKeeps
<1> QED
  BY <1>2, <1>4, <1>6 DEF s, task

LEMMA ReleaseDeferredIs ==
  ASSUME NEW r, NEW p
  PROVE  ReleaseDeferredCardPaints(r, p) =
           ReleasedOneByOne(WithTask(r, p, [TaskAt(r, p) EXCEPT !.cards = <<>>, !.shown = {}]),
                            TaskAt(r, p).cards, TaskAt(r, p).shown)
  BY Zenon DEF ReleaseDeferredCardPaints, ReleasedOneByOne

\* A finished task that runs is left without cards.
LEMMA ReleaseDeferredGood ==
  ASSUME NEW r, NEW p, Sound(r), p \in {Gone} \cup DOMAIN r.tasks
  PROVE  LET s == ReleaseDeferredCardPaints(r, p)
         IN  Good(r, s) /\ (p = r.active /\ ActiveTask(r).done => ActiveTask(s).cards = <<>>)
<1> DEFINE u == WithTask(r, p, [TaskAt(r, p) EXCEPT !.cards = <<>>, !.shown = {}])
           s == ReleasedOneByOne(u, TaskAt(r, p).cards, TaskAt(r, p).shown)
<1>1. Good(r, u) /\ u.active = r.active /\ TaskAt(u, p).cards = <<>>
  BY ClearedGood
<1>2. TaskAt(r, p).cards \in Seq(Cards)
  BY TableFields, TaskFields DEF Sound, TaskAt
<1> HIDE DEF u
<1>3. Good(u, s)
  BY <1>1, <1>2, ReleasedGood DEF Good
<1> HIDE DEF s
<1>4. Good(r, s)
  BY <1>1, <1>3, GoodChain
<1>5. ASSUME p = r.active, ActiveTask(r).done PROVE ActiveTask(s).cards = <<>>
  <2>1. p # 0 /\ u.active # 0
    BY <1>1, <1>5, TableFields DEF Sound
  <2>2. ActiveTask(u).done /\ ActiveTask(u).cards = <<>>
    BY <1>1, <1>5, <2>1 DEF Good, Keeps, ActiveTask
  <2> QED
    BY <1>3, <2>1, <2>2 DEF Good, Keeps
<1>6. ReleaseDeferredCardPaints(r, p) = s
  BY ReleaseDeferredIs DEF s, u
<1> QED
  BY <1>4, <1>5, <1>6

\* Nobody is held back any longer by the task.
LEMMA ReleaseStartedIs ==
  ASSUME NEW r \in Runtimes, NEW p \in {Gone} \cup DOMAIN r.tasks
  PROVE  LET s == ReleaseStartedThreads(r, p)
         IN  /\ s \in Runtimes /\ DOMAIN s.tasks = DOMAIN r.tasks
             /\ s.active = r.active /\ s.orphans = r.orphans /\ s.pending = r.pending
             /\ s.paintOf = r.paintOf /\ s.timerOf = r.timerOf /\ s.status = r.status
             /\ \A k \in {Gone} \cup DOMAIN r.tasks :
                  /\ SameWork(TaskAt(s, k), TaskAt(r, k)) /\ TaskAt(s, k).cards = TaskAt(r, k).cards
                  /\ Free(TaskAt(r, k)) => Free(TaskAt(s, k))
             /\ \A k \in DOMAIN r.tasks :
                  s.tasks[k].blocker = IF r.tasks[k].blocker = p THEN 0 ELSE r.tasks[k].blocker
<1> DEFINE Eased1(k) == IF r.tasks[k].blocker = p THEN [r.tasks[k] EXCEPT !.blocker = 0] ELSE r.tasks[k]
           tasks == [k \in DOMAIN r.tasks |-> Eased1(k)]
           u == [r EXCEPT !.tasks = tasks]
           task == [TaskAt(u, p) EXCEPT !.grace = FALSE]
           s == WithTask(u, p, task)
<1>1. ReleaseStartedThreads(r, p) = s
  BY DEF ReleaseStartedThreads
<1>2. /\ Len(r.tasks) \in Nat /\ DOMAIN r.tasks = 1 .. Len(r.tasks)
      /\ \A k \in DOMAIN r.tasks : r.tasks[k] \in TaskRecords
      /\ Gone \notin DOMAIN r.tasks
  BY TableFields
<1>3. ASSUME NEW k \in DOMAIN r.tasks
      PROVE  /\ Eased1(k) \in TaskRecords /\ SameWork(Eased1(k), r.tasks[k]) /\ Eased1(k).cards = r.tasks[k].cards
             /\ Free(r.tasks[k]) => Free(Eased1(k))
             /\ Eased1(k).blocker = IF r.tasks[k].blocker = p THEN 0 ELSE r.tasks[k].blocker
  BY <1>2 DEF TaskRecords, SameWork, Free, Refs
<1> HIDE DEF Eased1
<1>4. /\ tasks \in Seq(TaskRecords) /\ DOMAIN tasks = DOMAIN r.tasks
      /\ \A k \in DOMAIN r.tasks : tasks[k] = Eased1(k)
  BY <1>2, <1>3, TableType
<1> HIDE DEF tasks
<1>5. /\ u \in Runtimes /\ u.tasks = tasks /\ u.detached = r.detached
      /\ u.active = r.active /\ u.orphans = r.orphans /\ u.pending = r.pending
      /\ u.paintOf = r.paintOf /\ u.timerOf = r.timerOf /\ u.status = r.status
  BY <1>4 DEF Runtimes
<1> HIDE DEF u
<1>6. TaskAt(u, p) \in TaskRecords /\ p \in {Gone} \cup DOMAIN u.tasks
  BY <1>4, <1>5, TableFields DEF TaskAt
<1>7. /\ task \in TaskRecords /\ SameWork(task, TaskAt(u, p)) /\ task.cards = TaskAt(u, p).cards
      /\ task.blocker = TaskAt(u, p).blocker
      /\ Free(TaskAt(u, p)) => Free(task)
  BY <1>6 DEF TaskRecords, SameWork, Free
<1> HIDE DEF task
<1>8. /\ s \in Runtimes /\ DOMAIN s.tasks = DOMAIN u.tasks
      /\ s.active = u.active /\ s.orphans = u.orphans /\ s.pending = u.pending
      /\ s.paintOf = u.paintOf /\ s.timerOf = u.timerOf /\ s.status = u.status
      /\ TaskAt(s, p) = task
      /\ \A k \in {Gone} \cup DOMAIN u.tasks : k # p => TaskAt(s, k) = TaskAt(u, k)
  BY <1>5, <1>6, <1>7, WithTaskIs
<1> HIDE DEF s
<1>9. \A k \in {Gone} \cup DOMAIN r.tasks :
        /\ SameWork(TaskAt(u, k), TaskAt(r, k)) /\ TaskAt(u, k).cards = TaskAt(r, k).cards
        /\ Free(TaskAt(r, k)) => Free(TaskAt(u, k))
  BY <1>2, <1>3, <1>4, <1>5 DEF TaskAt, SameWork
<1>10. \A k \in {Gone} \cup DOMAIN r.tasks :
         /\ SameWork(TaskAt(s, k), TaskAt(r, k)) /\ TaskAt(s, k).cards = TaskAt(r, k).cards
         /\ Free(TaskAt(r, k)) => Free(TaskAt(s, k))
  BY <1>4, <1>5, <1>7, <1>8, <1>9 DEF SameWork
<1>11. \A k \in DOMAIN r.tasks :
         s.tasks[k].blocker = IF r.tasks[k].blocker = p THEN 0 ELSE r.tasks[k].blocker
  <2> SUFFICES ASSUME NEW k \in DOMAIN r.tasks
               PROVE  s.tasks[k].blocker = IF r.tasks[k].blocker = p THEN 0 ELSE r.tasks[k].blocker
    OBVIOUS
  <2>1. k # Gone /\ TaskAt(s, k) = s.tasks[k] /\ TaskAt(u, k) = tasks[k]
    BY <1>2, <1>5 DEF TaskAt
  <2>2. TaskAt(s, k).blocker = TaskAt(u, k).blocker
    BY <1>4, <1>5, <1>7, <1>8
  <2> QED
    BY <1>3, <1>4, <2>1, <2>2
<1> QED
  BY <1>1, <1>4, <1>5, <1>8, <1>10, <1>11

LEMMA ReleaseStartedGood ==
  ASSUME NEW r, NEW p, Sound(r), p \in {Gone} \cup DOMAIN r.tasks
  PROVE  LET s == ReleaseStartedThreads(r, p)
         IN  /\ Good(r, s) /\ s.active = r.active /\ DOMAIN s.tasks = DOMAIN r.tasks
             /\ p = r.active => Quiet(s)
<1> DEFINE s == ReleaseStartedThreads(r, p)
<1>1. /\ r \in Runtimes /\ Gone \notin DOMAIN r.tasks /\ 0 \notin DOMAIN r.tasks /\ Gone # 0
      /\ s \in Runtimes /\ DOMAIN s.tasks = DOMAIN r.tasks
      /\ s.active = r.active /\ s.orphans = r.orphans /\ s.pending = r.pending
      /\ s.paintOf = r.paintOf /\ s.timerOf = r.timerOf /\ s.status = r.status
      /\ \A k \in {Gone} \cup DOMAIN r.tasks :
           /\ SameWork(TaskAt(s, k), TaskAt(r, k)) /\ TaskAt(s, k).cards = TaskAt(r, k).cards
           /\ Free(TaskAt(r, k)) => Free(TaskAt(s, k))
      /\ \A k \in DOMAIN r.tasks :
           s.tasks[k].blocker = IF r.tasks[k].blocker = p THEN 0 ELSE r.tasks[k].blocker
  BY ReleaseStartedIs, TableFields DEF Sound
<1> HIDE DEF s
<1>2. \A k \in DOMAIN r.tasks : TaskAt(s, k) = s.tasks[k] /\ TaskAt(r, k) = r.tasks[k]
  BY <1>1 DEF TaskAt
<1>3. TaskAt(s, Gone) = s.detached /\ TaskAt(r, Gone) = r.detached
  BY DEF TaskAt
<1>4. \A k \in DOMAIN r.tasks :
        /\ SameWork(s.tasks[k], r.tasks[k]) /\ s.tasks[k].cards = r.tasks[k].cards
        /\ Free(r.tasks[k]) => Free(s.tasks[k])
        /\ s.tasks[k].blocker \in {0, r.tasks[k].blocker}
  BY <1>1, <1>2
<1>5. IsEased(r, s)
  BY <1>1, <1>3, <1>4 DEF IsEased
<1>6. r.active # 0 =>
        /\ Free(ActiveTask(r)) => Free(ActiveTask(s))
        /\ ActiveTask(r).cards = ActiveTask(s).cards
  BY <1>1 DEF ActiveTask, Sound, Core, Kinds
<1>7. Good(r, s)
  BY <1>5, <1>6, EasedKeeps
<1>8. p = r.active => Quiet(s)
  BY <1>1 DEF Quiet
<1> QED
  BY <1>1, <1>7, <1>8 DEF s

-----------------------------------------------------------------------------
(* KTF: the Timer. *)

\* What the timers point to or their status changes.
LEMMA Retimed ==
  ASSUME NEW r, NEW s, Sound(r), s \in Runtimes,
         s.tasks = r.tasks, s.active = r.active, s.detached = r.detached, s.orphans = r.orphans,
         s.pending = r.pending, s.paintOf = r.paintOf,
         \A t \in TimerTasks : s.timerOf[t] \in {0, r.timerOf[t]},
         \A i \in Living(r) : r.tasks[i].timer # Nobody => Known(s, i),
         \A k \in DOMAIN r.pending : r.pending[k].timer # Nobody => s.status[r.pending[k].timer] = "scheduled",
         \A t \in TimerTasks : r.status[t] = "cancelled" => s.status[t] = "cancelled"
  PROVE  Sound(s) /\ Keeps(r, s) /\ Follows(r, s)
<1>1. Living(s) = Living(r) /\ r \in Runtimes
  BY DEF Living, Sound
<1>2. Pointers(s)
  BY <1>1 DEF Sound, Core, Pointers
<1>3. Callbacks(s) /\ WaitingTimers(s)
  BY <1>1 DEF Sound, Core, Callbacks, WaitingTimers
<1>4. Kinds(s) /\ Turns(s) /\ Paints(s) /\ Blocks(s) /\ PaintPlaces(s)
  BY <1>1 DEF Sound, Core, Marks, Kinds, Turns, Paints, Blocks, PaintPlaces, TaskAt
<1>5. Leftovers(s)
  BY DEF Sound, Marks, Leftovers, Cancelled
<1>6. Sound(s)
  BY <1>2, <1>3, <1>4, <1>5 DEF Sound, Core, Marks
<1>7. Keeps(r, s)
  BY <1>1 DEF Keeps, ActiveTask, TaskAt, Quiet, Unmarked
<1>8. \A t \in TimerTasks : r.timerOf[t] = 0 => s.timerOf[t] = 0
  OBVIOUS
<1> QED
  BY <1>6, <1>7, <1>8 DEF Follows

\* Nothing in the table or in the queue is the timer's.
Unused(r, t) ==
  /\ \A j \in Living(r) : r.tasks[j].timer # t
  /\ \A k \in DOMAIN r.pending : r.pending[k].timer # t

LEMMA QueuedTimerFollows ==
  ASSUME NEW r, NEW call \in CallRecords, Sound(r), HasBackgroundCapacity(r),
         call.timer \in TimerTasks, r.status[call.timer] = "scheduled", Unused(r, call.timer)
  PROVE  Follows(r, QueuedTimer(r, call))
<1> DEFINE i == FreePlace(r, BackgroundLimit)
           t == call.timer
           task == [PlainTask EXCEPT !.timer = call.timer, !.period = call.period,
                                     !.deadline = call.deadline, !.wake = call.wake]
           queued == Queued(r, BackgroundLimit, task)
           s == [queued EXCEPT !.timerOf[t] = i]
<1>1. QueuedTimer(r, call) = s
  BY DEF QueuedTimer
<1>2. r \in Runtimes
  BY DEF Sound
<1>3. i # 0
  BY DEF HasBackgroundCapacity
<1> HIDE DEF i
<1>4. t # Nobody /\ t \in TimerTasks /\ Nobody \notin Cards
  BY TasksAssumption
<1>5. /\ task \in TaskRecords /\ ~task.done /\ ~task.started /\ task.cards = <<>> /\ task.blocker = 0
      /\ task.timer = t /\ task.paint = Nobody /\ ~task.wipic /\ task.key = Nobody
  <2>1. call.period \in Nat /\ call.deadline \in Nat /\ call.wake \in Nat /\ t \in TimerOrNobody
    BY DEF CallRecords, TimerOrNobody
  <2> QED
    BY <2>1, PlainFields DEF TaskRecords
<1> HIDE DEF task
<1>6. Fits(r, task)
  BY <1>4, <1>5 DEF Fits, Unused
<1>7. /\ i \in Nat \ {0} /\ ((i \in DOMAIN r.tasks /\ r.tasks[i].done) \/ i = Len(r.tasks) + 1)
      /\ Len(r.tasks) \in Nat /\ DOMAIN r.tasks = 1 .. Len(r.tasks)
  BY <1>2, <1>3, FreePlaceIs, Limits, TableFields DEF i
<1>8. IsPlaced(r, queued, i, task)
  BY <1>5, <1>7, PlacedIs DEF Queued, i
<1> HIDE DEF queued
<1>9. /\ queued \in Runtimes /\ queued.paintOf = [d \in Cards |-> Away(r.paintOf[d], i)]
      /\ queued.timerOf = [u \in TimerTasks |-> Away(r.timerOf[u], i)]
  BY <1>8 DEF IsPlaced
<1>10. /\ s \in Runtimes
       /\ s.tasks = queued.tasks /\ s.active = queued.active /\ s.detached = queued.detached
       /\ s.orphans = queued.orphans /\ s.pending = queued.pending /\ s.paintOf = queued.paintOf
       /\ s.status = queued.status /\ s.timerOf = [queued.timerOf EXCEPT ![t] = i]
  BY <1>4, <1>7, <1>9 DEF Runtimes, Refs
<1> HIDE DEF s
<1>11. \A u \in TimerTasks : s.timerOf[u] = IF u = task.timer THEN i ELSE Away(r.timerOf[u], i)
  BY <1>5, <1>9, <1>10
<1>12. \A d \in Cards : s.paintOf[d] = IF d = task.paint THEN i ELSE Away(r.paintOf[d], i)
  BY <1>4, <1>5, <1>9, <1>10
<1>13. IsGrown(r, s, i, task)
  BY <1>7, <1>8, <1>10, <1>11, <1>12 DEF IsPlaced, IsGrown
<1>14. Sound(s) /\ Keeps(r, s) /\ \A u \in TimerTasks : r.timerOf[u] = 0 /\ u # t => s.timerOf[u] = 0
  BY <1>5, <1>6, <1>13, Grown
<1>15. \A u \in TimerTasks : r.status[u] = "cancelled" => u # t
  OBVIOUS
<1>16. s.status = r.status
  BY <1>13 DEF IsGrown
<1>17. Follows(r, s)
  BY <1>14, <1>15, <1>16 DEF Follows
<1> QED
  BY <1>1, <1>17

LEMMA QueueTimerFollows ==
  ASSUME NEW r, NEW call \in CallRecords, Sound(r),
         call.timer \in TimerTasks, r.status[call.timer] = "scheduled", Unused(r, call.timer)
  PROVE  Follows(r, QueueJavaTimerTask(r, call))
  BY QueuedTimerFollows, DeferredFollows DEF QueueJavaTimerTask, Unused

\* A callback that returned.
LEMMA CompleteFollows ==
  ASSUME NEW r, Sound(r), r.active # 0,
         NEW t0, t0 = ActiveTask(r).timer,
         t0 # Nobody /\ r.timerOf[t0] = r.active => r.status[t0] = "scheduled" /\ Unused(r, t0)
  PROVE  Follows(r, CompleteJavaTimerTask(r))
<1> DEFINE task == ActiveTask(r)
           t == task.timer
           deadline == task.period + (IF t \in FixedRate THEN task.deadline ELSE r.tick)
           again == QueueJavaTimerTask(r, TimerCall(t, task.period, deadline, deadline))
           once == [r EXCEPT !.timerOf[t] = 0, !.status[t] = "executed"]
<1>1. CompleteJavaTimerTask(r) =
        IF t = Nobody \/ r.timerOf[t] # r.active THEN r
        ELSE IF task.period = 0 THEN once
        ELSE IF r.status[t] # "scheduled" THEN r
        ELSE again
  BY DEF CompleteJavaTimerTask
<1>2. r \in Runtimes /\ r.active \in {Gone} \cup DOMAIN r.tasks /\ Follows(r, r)
  BY FollowsSelf DEF Sound, Core, Kinds
<1>3. task \in TaskRecords /\ t \in TimerOrNobody
  BY <1>2, TableFields, TaskFields DEF ActiveTask, TaskAt
<1>4. ASSUME t # Nobody, r.timerOf[t] = r.active PROVE t \in TimerTasks /\ r.status[t] = "scheduled" /\ Unused(r, t)
  BY <1>3, <1>4 DEF TimerOrNobody
<1>5. ASSUME t # Nobody, r.timerOf[t] = r.active PROVE Follows(r, once)
  <2>1. t \in TimerTasks /\ r.status[t] = "scheduled" /\ Unused(r, t)
    BY <1>4, <1>5
  <2> HIDE DEF t
  <2>2. /\ once \in Runtimes
        /\ once.tasks = r.tasks /\ once.active = r.active /\ once.detached = r.detached
        /\ once.orphans = r.orphans /\ once.pending = r.pending /\ once.paintOf = r.paintOf
        /\ once.timerOf = [r.timerOf EXCEPT ![t] = 0] /\ once.status = [r.status EXCEPT ![t] = "executed"]
    BY <1>2, <2>1 DEF Runtimes, Refs
  <2>3. r.timerOf \in [TimerTasks -> Refs]
        /\ r.status \in [TimerTasks -> {"new", "scheduled", "executed", "cancelled"}]
    BY <1>2, RuntimeFields
  <2> HIDE DEF once
  <2>4. ASSUME NEW i \in Living(r), r.tasks[i].timer # Nobody PROVE Known(once, i)
    <3>1. r.tasks[i].timer \in TimerTasks /\ r.tasks[i].timer # t /\ Known(r, i)
      BY <1>2, <2>1, <2>4, TableFields, TaskFields DEF Unused, Sound, Core, Callbacks, TimerOrNobody
    <3> QED
      BY <2>2, <2>3, <3>1 DEF Known
  <2>5. \A k \in DOMAIN r.pending : r.pending[k].timer # Nobody => once.status[r.pending[k].timer] = "scheduled"
    <3> SUFFICES ASSUME NEW k \in DOMAIN r.pending, r.pending[k].timer # Nobody
                 PROVE  once.status[r.pending[k].timer] = "scheduled"
      OBVIOUS
    <3>1. r.status[r.pending[k].timer] = "scheduled" /\ r.pending[k].timer # t
      BY <2>1 DEF Unused, Sound, Core, WaitingTimers
    <3>2. r.pending[k] \in CallRecords
      BY <1>2, RuntimeFields
    <3>3. r.pending[k].timer \in TimerTasks
      BY <3>2 DEF CallRecords, TimerOrNobody
    <3> QED
      BY <2>2, <2>3, <3>1, <3>3
  <2>6. \A u \in TimerTasks : once.timerOf[u] \in {0, r.timerOf[u]}
    BY <2>2, <2>3
  <2>7. \A u \in TimerTasks : r.status[u] = "cancelled" => once.status[u] = "cancelled"
    BY <2>1, <2>2, <2>3
  <2> QED
    BY <2>2, <2>4, <2>5, <2>6, <2>7, Retimed
<1>6. ASSUME t # Nobody, r.timerOf[t] = r.active PROVE Follows(r, again)
  <2>1. t \in TimerTasks /\ r.status[t] = "scheduled" /\ Unused(r, t)
    BY <1>4, <1>6
  <2>2. deadline \in Nat
    <3>1. task.period \in Nat /\ task.deadline \in Nat /\ r.tick \in Nat
      BY <1>2, <1>3 DEF TaskRecords, Runtimes
    <3> QED
      BY <3>1
  <2>3. TimerCall(t, task.period, deadline, deadline) \in CallRecords
        /\ TimerCall(t, task.period, deadline, deadline).timer = t
    <3>1. task.period \in Nat
      BY <1>3 DEF TaskRecords
    <3> HIDE DEF deadline, task
    <3> QED
      BY <2>1, <2>2, <3>1 DEF TimerCall, CallRecords, ThreadOrNobody, TimerOrNobody
  <2> HIDE DEF deadline, task, t
  <2> QED
    BY <2>1, <2>3, QueueTimerFollows
<1> HIDE DEF task, t, once, again
<1> QED
  BY <1>1, <1>2, <1>5, <1>6

-----------------------------------------------------------------------------
(* KTF: a callback that is cancelled. *)

IsCancelled(r, s, p, t) ==
  /\ s \in Runtimes /\ DOMAIN s.tasks = DOMAIN r.tasks
  /\ s.active = r.active /\ s.orphans = r.orphans /\ s.pending = r.pending
  /\ s.paintOf = r.paintOf /\ s.status = r.status
  /\ s.timerOf = [r.timerOf EXCEPT ![t] = 0]
  /\ s.tasks[p].done /\ s.tasks[p].timer = r.tasks[p].timer /\ s.tasks[p].paint = r.tasks[p].paint
  /\ s.tasks[p].cards = <<>>
  /\ \A k \in DOMAIN r.tasks :
       /\ s.tasks[k].blocker = IF r.tasks[k].blocker = p THEN 0 ELSE r.tasks[k].blocker
       /\ k # p => /\ SameWork(s.tasks[k], r.tasks[k]) /\ s.tasks[k].cards = r.tasks[k].cards
                   /\ Free(r.tasks[k]) => Free(s.tasks[k])
  /\ SameWork(s.detached, r.detached)

LEMMA CancelledSound ==
  ASSUME NEW r, NEW s, NEW t \in TimerTasks, Sound(r), r.timerOf[t] \notin {Gone, 0},
         IsCancelled(r, s, r.timerOf[t], t)
  PROVE  Sound(s)
<1> DEFINE p == r.timerOf[t]
<1>1. /\ r \in Runtimes /\ s \in Runtimes
      /\ Gone \notin DOMAIN r.tasks /\ 0 \notin DOMAIN r.tasks /\ Gone # 0
      /\ r.timerOf \in [TimerTasks -> Refs]
  BY TableFields, RuntimeFields DEF Sound, IsCancelled
<1>2. p \in DOMAIN r.tasks /\ r.tasks[p].timer = t /\ p \notin {Gone, 0} /\ t # Nobody
  BY TasksAssumption DEF Sound, Core, Pointers
<1>3. IsCancelled(r, s, p, t)
  OBVIOUS
<1>4. s.timerOf[t] = 0 /\ \A u \in TimerTasks : u # t => s.timerOf[u] = r.timerOf[u]
  BY <1>1, <1>3 DEF IsCancelled
<1> HIDE DEF p
<1>5. Living(s) = Living(r) \ {p} /\ \A k \in Living(s) : SameWork(s.tasks[k], r.tasks[k]) /\ k \in Living(r)
  BY <1>3 DEF IsCancelled, Living, SameWork
<1>6. Core(r) /\ Marks(r)
  BY DEF Sound
<1>7. \A k \in Living(s) : r.tasks[k].timer # t
  <2> SUFFICES ASSUME NEW k \in Living(s), r.tasks[k].timer = t PROVE FALSE
    OBVIOUS
  <2>1. k \in Living(r) /\ k # p
    BY <1>5
  <2>2. Known(r, k)
    BY <1>2, <1>6, <2>1 DEF Core, Callbacks
  <2> QED
    BY <1>2, <2>1, <2>2 DEF Known, p
<1>8. Kinds(s)
  BY <1>1, <1>3, <1>6 DEF Core, Kinds, IsCancelled, SameWork
<1>9. Turns(s)
  BY <1>5, <1>6 DEF Core, Turns, SameWork
<1>10. Paints(s)
  BY <1>3, <1>5, <1>6 DEF Core, Paints, SameWork, IsCancelled
<1>11. Pointers(s)
  BY <1>2, <1>3, <1>4, <1>6 DEF Core, Pointers, SameWork, IsCancelled
<1>12. Callbacks(s)
  <2>1. ASSUME NEW i \in Living(s), s.tasks[i].timer # Nobody PROVE Known(s, i)
    <3>1. r.tasks[i].timer \in TimerTasks /\ r.tasks[i].timer # t /\ Known(r, i) /\ i \in Living(r)
      BY <1>1, <1>5, <1>6, <1>7, <2>1, TableFields, TaskFields DEF Core, Callbacks, TimerOrNobody, SameWork
    <3>2. SameWork(s.tasks[i], r.tasks[i]) /\ s.status = r.status
          /\ s.timerOf[r.tasks[i].timer] = r.timerOf[r.tasks[i].timer]
      BY <1>3, <1>4, <1>5, <3>1 DEF IsCancelled
    <3> QED
      BY <3>1, <3>2 DEF Known, SameWork
  <2>2. \A i, j \in Living(s) : s.tasks[i].timer # Nobody /\ s.tasks[j].timer # Nobody =>
          /\ s.tasks[i].timer = s.tasks[j].timer => i = j
          /\ s.tasks[i].started /\ s.tasks[j].started => i = j
    BY <1>5, <1>6 DEF Core, Callbacks, SameWork
  <2> QED
    BY <2>1, <2>2 DEF Callbacks
<1>13. WaitingTimers(s)
  <2>1. s.pending = r.pending /\ s.status = r.status /\ WaitingTimers(r)
    BY <1>3, <1>6 DEF Core, IsCancelled
  <2>2. \A k \in Living(s) : k \in Living(r) /\ s.tasks[k].timer = r.tasks[k].timer
    BY <1>5 DEF SameWork
  <2> QED
    BY <2>1, <2>2 DEF WaitingTimers
<1>14. Blocks(s)
  <2> SUFFICES ASSUME NEW i \in DOMAIN s.tasks, s.tasks[i].blocker # 0, s.tasks[i].blocker # s.active
               PROVE  s.tasks[i].blocker \in Living(s) /\ Free(s.tasks[s.tasks[i].blocker])
    BY DEF Blocks
  <2>1. i \in DOMAIN r.tasks /\ s.tasks[i].blocker = r.tasks[i].blocker /\ s.active = r.active
        /\ r.tasks[i].blocker # p
    BY <1>3 DEF IsCancelled
  <2>2. r.tasks[i].blocker \in Living(r) /\ Free(r.tasks[r.tasks[i].blocker])
    BY <1>6, <2>1 DEF Core, Blocks
  <2>3. r.tasks[i].blocker \in DOMAIN r.tasks
    BY <2>2 DEF Living
  <2> QED
    BY <1>3, <1>5, <2>1, <2>2, <2>3 DEF IsCancelled
<1>15. \A q \in {Gone} \cup DOMAIN r.tasks : TaskAt(s, q).paint = TaskAt(r, q).paint
  BY <1>1, <1>3 DEF IsCancelled, TaskAt, SameWork
<1>16. PaintPlaces(s)
  <2> SUFFICES ASSUME NEW c \in Cards, s.paintOf[c] # 0
               PROVE  /\ s.paintOf[c] = s.active \/ s.paintOf[c] \in Living(s)
                      /\ TaskAt(s, s.paintOf[c]).paint = c
    BY DEF PaintPlaces
  <2>1. s.paintOf[c] = r.paintOf[c] /\ s.active = r.active /\ c # Nobody
    BY <1>3, TasksAssumption DEF IsCancelled
  <2>2. (r.paintOf[c] = r.active \/ r.paintOf[c] \in Living(r)) /\ TaskAt(r, r.paintOf[c]).paint = c
    BY <1>6, <2>1 DEF Marks, PaintPlaces
  <2>3. r.paintOf[c] \in {Gone} \cup DOMAIN r.tasks
    BY <1>6, <2>1, <2>2 DEF Core, Kinds, Living
  <2>4. r.paintOf[c] # p
    BY <1>2, <1>6, <2>1, <2>2 DEF Core, Kinds, TaskAt
  <2> QED
    BY <1>5, <1>15, <2>1, <2>2, <2>3, <2>4
<1>17. Leftovers(s)
  <2>1. ASSUME NEW i \in DOMAIN s.tasks, i # s.active, s.tasks[i].done, s.tasks[i].cards # <<>>
        PROVE  Cancelled(s, s.tasks[i].timer)
    <3>1. i # p /\ i \in DOMAIN r.tasks /\ i # r.active
      BY <1>3, <2>1 DEF IsCancelled
    <3>2. r.tasks[i].done /\ r.tasks[i].cards # <<>> /\ r.tasks[i].timer = s.tasks[i].timer
      BY <1>3, <2>1, <3>1 DEF IsCancelled, SameWork
    <3> QED
      BY <1>3, <1>6, <3>1, <3>2 DEF Marks, Leftovers, Cancelled, IsCancelled
  <2>2. \A u \in s.orphans : Cancelled(s, u)
    BY <1>3, <1>6 DEF Marks, Leftovers, Cancelled, IsCancelled
  <2> QED
    BY <2>1, <2>2 DEF Leftovers
<1> QED
  BY <1>1, <1>6, <1>8, <1>9, <1>10, <1>11, <1>12, <1>13, <1>14, <1>16, <1>17 DEF Sound, Core, Marks

LEMMA CancelledRunning ==
  ASSUME NEW r, NEW s, NEW t \in TimerTasks, NEW C, Running(r, C), r.timerOf[t] \notin {Gone, 0},
         IsCancelled(r, s, r.timerOf[t], t)
  PROVE  Running(s, C \cup {t}) /\ Steady(r, s) /\ s.timerOf[t] = 0
<1> DEFINE p == r.timerOf[t]
<1>1. /\ Sound(r) /\ r \in Runtimes /\ r.active # 0
      /\ Gone \notin DOMAIN r.tasks /\ 0 \notin DOMAIN r.tasks /\ Gone # 0
      /\ r.timerOf \in [TimerTasks -> Refs]
      /\ r.active \in {Gone} \cup DOMAIN r.tasks
  BY TableFields, RuntimeFields DEF Running, Sound, Core, Kinds
<1>2. Sound(s)
  BY <1>1, CancelledSound
<1>3. p \in DOMAIN r.tasks /\ r.tasks[p].timer = t /\ IsCancelled(r, s, p, t)
  BY <1>1 DEF Sound, Core, Pointers
<1> HIDE DEF p
<1>4. s.timerOf[t] = 0 /\ s.active = r.active /\ \A u \in TimerTasks : u # t => s.timerOf[u] = r.timerOf[u]
  BY <1>1, <1>3 DEF IsCancelled
<1>5. Steady(r, s)
  BY <1>3, <1>4 DEF Steady, IsCancelled
<1>6. CASE r.active = p
  <2>1. ActiveTask(s) = s.tasks[p]
    BY <1>1, <1>3, <1>4, <1>6 DEF ActiveTask, TaskAt
  <2>2. Quiet(s)
    BY <1>1, <1>3, <1>4, <1>6 DEF Quiet, IsCancelled
  <2>3. s.active \notin Living(s)
    BY <1>3, <1>4, <1>6 DEF Living, IsCancelled
  <2> QED
    BY <1>1, <1>2, <1>3, <1>4, <1>5, <1>6, <2>1, <2>2, <2>3 DEF Running, ActiveFits, ActiveFree, IsCancelled
<1>7. CASE r.active # p
  <2>1. SameWork(ActiveTask(s), ActiveTask(r))
    <3>1. CASE r.active = Gone
      BY <1>3, <1>4, <3>1 DEF ActiveTask, TaskAt, IsCancelled
    <3>2. CASE r.active # Gone
      BY <1>1, <1>3, <1>4, <1>7, <3>2 DEF ActiveTask, TaskAt, IsCancelled
    <3> QED
      BY <3>1, <3>2
  <2>2. Quiet(r) => Quiet(s)
    BY <1>1, <1>3, <1>4 DEF Quiet, IsCancelled
  <2>3. (r.active \in Living(r)) <=> (s.active \in Living(s))
    BY <1>1, <1>3, <1>4, <1>7 DEF Living, IsCancelled, SameWork
  <2>4. ActiveFree(s)
    BY <1>1, <1>3, <1>4, <1>7, <2>3 DEF ActiveFree, Running, IsCancelled, Living
  <2>5. ActiveFits(s, C \cup {t})
    <3>1. CASE r.active \in Living(r)
      BY <2>3, <3>1 DEF ActiveFits
    <3>2. CASE r.active \notin Living(r)
      BY <1>4, <1>5, <2>1, <2>2, <3>2 DEF ActiveFits, Running, SameWork, Steady
    <3> QED
      BY <3>1, <3>2
  <2> QED
    BY <1>1, <1>2, <1>4, <1>5, <2>4, <2>5 DEF Running
<1> QED
  BY <1>6, <1>7

LEMMA CancelledCallbackRunning ==
  ASSUME NEW r, NEW t \in TimerTasks, NEW C, Running(r, C)
  PROVE  LET s == CancelledCallback(r, t)
         IN  Running(s, C \cup {t}) /\ Steady(r, s) /\ s.timerOf[t] = 0
<1> DEFINE p == r.timerOf[t]
<1>1. /\ Sound(r) /\ r \in Runtimes
      /\ Gone \notin DOMAIN r.tasks /\ 0 \notin DOMAIN r.tasks /\ Gone # 0
      /\ r.timerOf \in [TimerTasks -> Refs] /\ p \in Refs
      /\ r.status \in [TimerTasks -> {"new", "scheduled", "executed", "cancelled"}]
  BY TableFields, RuntimeFields DEF Running, Sound
<1>2. CASE p = 0
  <2>1. Running(r, C \cup {t})
    BY DEF Running, ActiveFits
  <2> QED
    BY <1>2, <2>1 DEF CancelledCallback, Steady
<1>3. CASE p = Gone
  <2> DEFINE s == [r EXCEPT !.timerOf[t] = 0]
  <2>1. CancelledCallback(r, t) = s
    BY <1>1, <1>3 DEF CancelledCallback
  <2>2. /\ s \in Runtimes
        /\ s.tasks = r.tasks /\ s.active = r.active /\ s.detached = r.detached
        /\ s.orphans = r.orphans /\ s.pending = r.pending /\ s.paintOf = r.paintOf
        /\ s.timerOf = [r.timerOf EXCEPT ![t] = 0] /\ s.status = r.status
    BY <1>1 DEF Runtimes, Refs
  <2> HIDE DEF s
  <2>3. s.timerOf[t] = 0 /\ \A u \in TimerTasks : u # t => s.timerOf[u] = r.timerOf[u]
    BY <1>1, <2>2
  <2>4. ASSUME NEW i \in Living(r), r.tasks[i].timer # Nobody PROVE Known(s, i)
    <3>1. Known(r, i) /\ r.tasks[i].timer \in TimerTasks /\ i # Gone
      BY <1>1, <2>4, TableFields, TaskFields DEF Sound, Core, Callbacks, TimerOrNobody
    <3>2. r.tasks[i].timer # t
      <4> SUFFICES ASSUME r.tasks[i].timer = t PROVE FALSE
        OBVIOUS
      <4> QED
        BY <1>1, <1>3, <3>1 DEF Known
    <3> QED
      BY <2>2, <2>3, <3>1, <3>2 DEF Known
  <2>5. \A k \in DOMAIN r.pending : r.pending[k].timer # Nobody => s.status[r.pending[k].timer] = "scheduled"
    BY <1>1, <2>2 DEF Sound, Core, WaitingTimers
  <2>6. Sound(s) /\ Keeps(r, s)
    <3>1. \A u \in TimerTasks : s.timerOf[u] \in {0, r.timerOf[u]}
      BY <2>3
    <3>2. \A u \in TimerTasks : r.status[u] = "cancelled" => s.status[u] = "cancelled"
      BY <2>2
    <3> QED
      BY <1>1, <2>2, <2>4, <2>5, <3>1, <3>2, Retimed
  <2>7. Steady(r, s)
    BY <2>2, <2>3 DEF Steady
  <2>8. Running(s, C)
    BY <2>6, <2>7, GoodRunning DEF Good
  <2>9. Running(s, C \cup {t})
    BY <2>8 DEF Running, ActiveFits
  <2> QED
    BY <2>1, <2>3, <2>7, <2>9
<1>4. CASE p \notin {Gone, 0}
  <2> DEFINE done == [TaskAt(r, p) EXCEPT !.done = TRUE]
             u == WithTask(r, p, done)
             finished == [u EXCEPT !.timerOf[t] = 0]
             let == ReleaseStartedThreads(finished, p)
             bare == [TaskAt(let, p) EXCEPT !.cards = <<>>, !.shown = {}]
             x == WithTask(let, p, bare)
             s == ReleasedOneByOne(x, TaskAt(let, p).cards, TaskAt(let, p).shown)
  <2>1. CancelledCallback(r, t) = s
    BY <1>4, ReleaseDeferredIs DEF CancelledCallback
  <2>2. p \in DOMAIN r.tasks /\ r.tasks[p].timer = t /\ p # Gone
    BY <1>1, <1>4 DEF Sound, Core, Pointers
  <2>3. TaskAt(r, p) = r.tasks[p] /\ r.tasks[p] \in TaskRecords
    BY <1>1, <2>2, TableFields DEF TaskAt
  <2> HIDE DEF p
  <2>4. /\ done \in TaskRecords /\ done.done /\ done.timer = r.tasks[p].timer /\ done.paint = r.tasks[p].paint
        /\ done.blocker = r.tasks[p].blocker
    BY <2>3 DEF TaskRecords
  <2> HIDE DEF done
  <2>5. /\ u \in Runtimes /\ DOMAIN u.tasks = DOMAIN r.tasks
        /\ u.active = r.active /\ u.orphans = r.orphans /\ u.pending = r.pending
        /\ u.paintOf = r.paintOf /\ u.timerOf = r.timerOf /\ u.status = r.status
        /\ TaskAt(u, p) = done
        /\ \A k \in {Gone} \cup DOMAIN r.tasks : k # p => TaskAt(u, k) = TaskAt(r, k)
    BY <1>1, <2>2, <2>4, WithTaskIs
  <2> HIDE DEF u
  <2>6. /\ finished \in Runtimes /\ finished.tasks = u.tasks /\ finished.detached = u.detached
        /\ finished.active = r.active /\ finished.orphans = r.orphans /\ finished.pending = r.pending
        /\ finished.paintOf = r.paintOf /\ finished.status = r.status
        /\ finished.timerOf = [r.timerOf EXCEPT ![t] = 0]
    BY <1>1, <2>5 DEF Runtimes, Refs
  <2> HIDE DEF finished
  <2>7. \A k \in {Gone} \cup DOMAIN r.tasks : TaskAt(finished, k) = IF k = p THEN done ELSE TaskAt(r, k)
    <3>1. \A k \in {Gone} \cup DOMAIN r.tasks : TaskAt(finished, k) = TaskAt(u, k)
      BY <2>6 DEF TaskAt
    <3> QED
      BY <2>5, <3>1
  <2>8. /\ let \in Runtimes /\ DOMAIN let.tasks = DOMAIN r.tasks
        /\ let.active = r.active /\ let.orphans = r.orphans /\ let.pending = r.pending
        /\ let.paintOf = r.paintOf /\ let.timerOf = [r.timerOf EXCEPT ![t] = 0] /\ let.status = r.status
        /\ \A k \in {Gone} \cup DOMAIN r.tasks :
             /\ SameWork(TaskAt(let, k), TaskAt(finished, k)) /\ TaskAt(let, k).cards = TaskAt(finished, k).cards
             /\ Free(TaskAt(finished, k)) => Free(TaskAt(let, k))
        /\ \A k \in DOMAIN r.tasks :
             let.tasks[k].blocker = IF finished.tasks[k].blocker = p THEN 0 ELSE finished.tasks[k].blocker
    BY <2>2, <2>5, <2>6, ReleaseStartedIs
  <2> HIDE DEF let
  <2>9. TaskAt(let, p) \in TaskRecords
    BY <2>2, <2>8, TableFields DEF TaskAt
  <2>10. /\ bare \in TaskRecords /\ SameWork(bare, TaskAt(let, p)) /\ bare.blocker = TaskAt(let, p).blocker
         /\ bare.cards = <<>>
    BY <2>9, ClearedIs
  <2> HIDE DEF bare
  <2>11. /\ x \in Runtimes /\ DOMAIN x.tasks = DOMAIN let.tasks
         /\ x.active = let.active /\ x.orphans = let.orphans /\ x.pending = let.pending
         /\ x.paintOf = let.paintOf /\ x.timerOf = let.timerOf /\ x.status = let.status
         /\ TaskAt(x, p) = bare
         /\ \A k \in {Gone} \cup DOMAIN let.tasks : k # p => TaskAt(x, k) = TaskAt(let, k)
    BY <2>2, <2>8, <2>10, WithTaskIs
  <2> HIDE DEF x
  <2>12. \A k \in DOMAIN r.tasks :
           /\ TaskAt(x, k) = x.tasks[k] /\ TaskAt(let, k) = let.tasks[k]
           /\ TaskAt(finished, k) = finished.tasks[k] /\ TaskAt(r, k) = r.tasks[k]
    BY <1>1 DEF TaskAt
  <2>13. SameWork(x.detached, r.detached)
    <3>1. SameWork(TaskAt(x, Gone), TaskAt(r, Gone))
      BY <2>2, <2>7, <2>8, <2>11
    <3> QED
      BY <3>1 DEF TaskAt
  <2>14. x.tasks[p] = bare /\ bare.done /\ bare.timer = r.tasks[p].timer /\ bare.paint = r.tasks[p].paint
    BY <2>2, <2>4, <2>7, <2>8, <2>10, <2>11, <2>12 DEF SameWork
  <2>15. ASSUME NEW k \in DOMAIN r.tasks
         PROVE  /\ x.tasks[k].blocker = IF r.tasks[k].blocker = p THEN 0 ELSE r.tasks[k].blocker
                /\ k # p => /\ SameWork(x.tasks[k], r.tasks[k]) /\ x.tasks[k].cards = r.tasks[k].cards
                            /\ Free(r.tasks[k]) => Free(x.tasks[k])
    <3>1. x.tasks[k].blocker = let.tasks[k].blocker
      BY <2>8, <2>10, <2>11, <2>12
    <3>2. finished.tasks[k].blocker = r.tasks[k].blocker
      BY <2>4, <2>7, <2>12
    <3>3. k # p => x.tasks[k] = let.tasks[k] /\ finished.tasks[k] = r.tasks[k]
      BY <2>7, <2>8, <2>11, <2>12
    <3>4. /\ SameWork(let.tasks[k], finished.tasks[k]) /\ let.tasks[k].cards = finished.tasks[k].cards
          /\ Free(finished.tasks[k]) => Free(let.tasks[k])
      BY <2>8, <2>12
    <3> QED
      BY <2>8, <3>1, <3>2, <3>3, <3>4
  <2>16. IsCancelled(r, x, p, t)
    BY <2>8, <2>10, <2>11, <2>13, <2>14, <2>15 DEF IsCancelled
  <2>17. Running(x, C \cup {t}) /\ Steady(r, x) /\ x.timerOf[t] = 0
    BY <1>4, <2>16, CancelledRunning DEF p
  <2>18. TaskAt(let, p).cards \in Seq(Cards)
    BY <2>9, TaskFields
  <2>19. Good(x, s)
    BY <2>17, <2>18, ReleasedGood DEF Running
  <2> HIDE DEF s
  <2>20. Running(s, C \cup {t}) /\ Steady(r, s) /\ s.timerOf[t] = 0
    BY <2>17, <2>19, GoodRunning DEF Good, Steady
  <2> QED
    BY <2>1, <2>20
<1> QED
  BY <1>2, <1>3, <1>4

\* Removing the waiting calls of the timers S.
LEMMA WithoutPending ==
  ASSUME NEW r, NEW S, Sound(r)
  PROVE  LET s == WithoutPendingTimers(r, S)
         IN  /\ Sound(s) /\ \A k \in DOMAIN s.pending : s.pending[k].timer \notin S
             /\ s.tasks = r.tasks /\ s.active = r.active /\ s.detached = r.detached /\ s.orphans = r.orphans
             /\ s.paintOf = r.paintOf /\ s.timerOf = r.timerOf /\ s.status = r.status
             /\ \A k \in DOMAIN s.pending : \E l \in DOMAIN r.pending : s.pending[k] = r.pending[l]
<1> DEFINE K == {k \in DOMAIN r.pending : r.pending[k].timer \notin S}
           pending == Pick(r.pending, K)
           s == [r EXCEPT !.pending = pending]
<1>1. WithoutPendingTimers(r, S) = s
  BY DEF WithoutPendingTimers
<1>2. r.pending \in Seq(CallRecords) /\ K \in SUBSET DOMAIN r.pending
  BY RuntimeFields DEF Sound
<1>3. \A k \in K : r.pending[k].timer \notin S
  OBVIOUS
<1> HIDE DEF K
<1>4. pending \in Seq(CallRecords)
  BY <1>2, PickFacts
<1>5. PICK pos : Enumerates(pos, pending, r.pending, K)
  BY <1>2, PickFacts
<1> HIDE DEF pending
<1>6. DOMAIN pending = 1 .. Len(pending) /\ Len(pending) \in Nat
  BY <1>4
<1>7. /\ \A k \in DOMAIN pending : pos[k] \in K /\ pending[k] = r.pending[pos[k]]
      /\ \A k, l \in DOMAIN pending : pos[k] = pos[l] => k = l
  <2>1. \A k \in DOMAIN pending : pos[k] \in K /\ pending[k] = r.pending[pos[k]]
    BY <1>5, <1>6 DEF Enumerates
  <2>2. K \in SUBSET Nat
    BY <1>2
  <2>3. \A k, l \in DOMAIN pending : k < l => pos[k] < pos[l]
    BY <1>5, <1>6 DEF Enumerates
  <2>4. \A k \in DOMAIN pending : k \in Nat /\ pos[k] \in Nat
    <3>1. \A k \in DOMAIN pending : k \in Nat
      BY <1>6
    <3>2. \A k \in DOMAIN pending : pos[k] \in Nat
      BY <2>1, <2>2
    <3> QED
      BY <3>1, <3>2
  <2>5. ASSUME NEW k \in DOMAIN pending, NEW l \in DOMAIN pending, pos[k] = pos[l] PROVE k = l
    <3>1. ~(k < l) /\ ~(l < k)
      BY <2>3, <2>4, <2>5
    <3> QED
      BY <2>4, <3>1
  <2> QED
    BY <2>1, <2>5
<1>8. /\ s.tasks = r.tasks /\ s.active = r.active /\ s.detached = r.detached /\ s.orphans = r.orphans
      /\ s.paintOf = r.paintOf /\ s.timerOf = r.timerOf /\ s.status = r.status /\ s.pending = pending
  BY DEF Sound, Runtimes
<1>9. WaitingTimers(s)
  <2>1. WaitingTimers(r) /\ Living(s) = Living(r)
    BY <1>8 DEF Sound, Core, Living
  <2>2. \A k \in DOMAIN pending : pos[k] \in DOMAIN r.pending
    BY <1>2, <1>7
  <2> HIDE DEF s
  <2> QED
    BY <1>7, <1>8, <2>1, <2>2 DEF WaitingTimers
<1>10. Sound(s)
  BY <1>4, <1>9, Repended DEF Follows
<1>11. \A k \in DOMAIN s.pending : s.pending[k].timer \notin S /\ \E l \in DOMAIN r.pending : s.pending[k] = r.pending[l]
  BY <1>2, <1>3, <1>7, <1>8
<1> HIDE DEF s
<1> QED
  BY <1>1, <1>8, <1>10, <1>11

\* The timers D are cancelled: those of C, whose callbacks ended, and others
\* that have no callback in the table.
LEMMA CancelEnds ==
  ASSUME NEW r, NEW C, NEW D \in SUBSET TimerTasks, NEW S, Running(r, C), C \subseteq D,
         \A t \in D : r.timerOf[t] = 0 \/ \A i \in Living(r) : r.tasks[i].timer # t,
         \A k \in DOMAIN r.pending : r.pending[k].timer \in D => r.pending[k].timer \in S,
         NEW status, status = [t \in TimerTasks |-> IF t \in D THEN "cancelled" ELSE r.status[t]]
  PROVE  Running([WithoutPendingTimers(r, S) EXCEPT !.status = status], {})
<1> DEFINE u == WithoutPendingTimers(r, S)
           s == [u EXCEPT !.status = status]
<1>1. /\ Sound(u) /\ \A k \in DOMAIN u.pending : u.pending[k].timer \notin S
      /\ u.tasks = r.tasks /\ u.active = r.active /\ u.detached = r.detached /\ u.orphans = r.orphans
      /\ u.paintOf = r.paintOf /\ u.timerOf = r.timerOf /\ u.status = r.status
      /\ \A k \in DOMAIN u.pending : \E l \in DOMAIN r.pending : u.pending[k] = r.pending[l]
  BY WithoutPending DEF Running
<1> HIDE DEF u
<1>2. u \in Runtimes /\ u.status \in [TimerTasks -> {"new", "scheduled", "executed", "cancelled"}]
  BY <1>1, RuntimeFields DEF Sound
<1>3. status \in [TimerTasks -> {"new", "scheduled", "executed", "cancelled"}]
  BY <1>1, <1>2
<1>4. /\ s \in Runtimes
      /\ s.tasks = u.tasks /\ s.active = u.active /\ s.detached = u.detached /\ s.orphans = u.orphans
      /\ s.pending = u.pending /\ s.paintOf = u.paintOf /\ s.timerOf = u.timerOf /\ s.status = status
  BY <1>2, <1>3 DEF Runtimes
<1> HIDE DEF s
<1>5. Living(u) = Living(r)
  BY <1>1 DEF Living
<1>6. ASSUME NEW i \in Living(u), u.tasks[i].timer # Nobody PROVE Known(s, i)
  <2>1. Known(u, i) /\ u.tasks[i].timer \in TimerTasks /\ i # 0
    BY <1>1, <1>2, <1>6, TableFields, TaskFields DEF Sound, Core, Callbacks, TimerOrNobody
  <2>2. CASE u.tasks[i].timer \in D
    <3>1. u.timerOf[u.tasks[i].timer] = 0
      BY <1>1, <1>5, <1>6, <2>2
    <3>2. status[u.tasks[i].timer] = "cancelled"
      BY <2>1, <2>2
    <3> QED
      BY <1>4, <2>1, <3>1, <3>2 DEF Known
  <2>3. CASE u.tasks[i].timer \notin D
    <3>1. status[u.tasks[i].timer] = u.status[u.tasks[i].timer]
      BY <1>1, <2>1, <2>3
    <3> QED
      BY <1>4, <2>1, <3>1 DEF Known
  <2> QED
    BY <2>2, <2>3
<1>7. ASSUME NEW k \in DOMAIN u.pending, u.pending[k].timer # Nobody
      PROVE  s.status[u.pending[k].timer] = "scheduled"
  <2>1. u.status[u.pending[k].timer] = "scheduled"
    BY <1>1, <1>7 DEF Sound, Core, WaitingTimers
  <2>2. u.pending[k] \in CallRecords
    BY <1>2, RuntimeFields
  <2>3. u.pending[k].timer \in TimerTasks
    BY <1>7, <2>2 DEF CallRecords, TimerOrNobody
  <2>4. u.pending[k].timer \notin D
    BY <1>1
  <2> QED
    BY <1>1, <1>4, <2>1, <2>3, <2>4
<1>8. \A t \in TimerTasks : u.status[t] = "cancelled" => s.status[t] = "cancelled"
  BY <1>1, <1>4
<1>9. \A t \in TimerTasks : s.timerOf[t] \in {0, u.timerOf[t]}
  BY <1>4
<1>10. Sound(s)
  BY <1>1, <1>4, <1>6, <1>7, <1>8, <1>9, Retimed
<1>11. /\ s.active # 0 /\ (ActiveFree(r) => ActiveFree(s))
       /\ Living(s) = Living(r) /\ ActiveTask(s) = ActiveTask(r) /\ (Quiet(r) => Quiet(s))
       /\ s.active = r.active
  BY <1>1, <1>4 DEF Running, ActiveFree, Living, ActiveTask, TaskAt, Quiet
<1>12. ActiveFits(s, {})
  <2>1. CASE r.active \in Living(r)
    BY <1>11, <2>1 DEF ActiveFits
  <2>2. CASE r.active \notin Living(r)
    <3>1. /\ ActiveTask(r).done /\ ActiveTask(r).timer \in TimerTasks
          /\ r.timerOf[ActiveTask(r).timer] = 0
          /\ ActiveTask(r).timer \in C \/ r.status[ActiveTask(r).timer] = "cancelled"
          /\ Quiet(r)
      BY <2>2 DEF Running, ActiveFits
    <3>2. status[ActiveTask(r).timer] = "cancelled"
      BY <3>1
    <3> QED
      BY <1>1, <1>4, <1>11, <3>1, <3>2 DEF ActiveFits
  <2> QED
    BY <2>1, <2>2
<1>13. Running(s, {})
  BY <1>10, <1>11, <1>12 DEF Running
<1> QED
  BY <1>13 DEF s, u

\* The loop of Timer.cancel.
CancelledOneByOne(r, order) ==
  LET After[n \in 0 .. Len(order)] ==
        IF n = 0 THEN r ELSE CancelledCallback(After[n - 1], order[n])
  IN After[Len(order)]

LEMMA CancelledAll ==
  ASSUME NEW r, NEW order \in Seq(TimerTasks), Running(r, ToSet(order))
  PROVE  LET s == CancelledOneByOne(r, order)
         IN  /\ Running(s, ToSet(order)) /\ Steady(r, s)
             /\ \A t \in ToSet(order) : s.timerOf[t] = 0
<1> DEFINE N == Len(order)
           C == ToSet(order)
           V(k) == {x \in Runtimes : /\ Running(x, C) /\ Steady(r, x)
                                     /\ \A j \in 1 .. k : x.timerOf[order[j]] = 0}
           U == [k \in 0 .. N |-> V(k)]
           Step(x, k) == CancelledCallback(x, order[k])
           Round == [k \in 1 .. N |-> [x \in V(k - 1) |-> Step(x, k)]]
           Fits2(f) == f = [k \in 0 .. N |-> IF k = 0 THEN r ELSE Step(f[k - 1], k)]
           After == CHOOSE f : Fits2(f)
<1>1. N \in Nat /\ \A k \in 1 .. N : order[k] \in TimerTasks /\ order[k] \in C
  BY DEF ToSet
<1>2. r \in V(0)
  BY DEF Running, Sound, Steady
<1>3. ASSUME NEW k \in 1 .. N, NEW x \in V(k - 1) PROVE Step(x, k) \in V(k)
  <2>1. Running(x, C) /\ Steady(r, x) /\ order[k] \in TimerTasks /\ C \cup {order[k]} = C
    BY <1>1, <1>3
  <2> HIDE DEF C
  <2> DEFINE t == order[k]
  <2>a. Step(x, k) = CancelledCallback(x, t)
    OBVIOUS
  <2>b. t \in TimerTasks /\ C \cup {t} = C /\ Running(x, C)
    BY <2>1
  <2> HIDE DEF t
  <2>c. /\ Running(CancelledCallback(x, t), C \cup {t}) /\ Steady(x, CancelledCallback(x, t))
        /\ CancelledCallback(x, t).timerOf[t] = 0
    BY <2>b, CancelledCallbackRunning
  <2> HIDE DEF Step
  <2>2. Running(Step(x, k), C) /\ Steady(x, Step(x, k)) /\ Step(x, k).timerOf[order[k]] = 0
    BY <2>a, <2>b, <2>c DEF t
  <2>3. Steady(r, Step(x, k))
    BY <2>1, <2>2 DEF Steady
  <2>4. ASSUME NEW j \in 1 .. k PROVE Step(x, k).timerOf[order[j]] = 0
    <3>1. CASE j = k
      BY <2>2, <3>1
    <3>2. CASE j # k
      <4>1. j \in 1 .. k - 1 /\ j \in 1 .. N
        BY <1>1, <3>2
      <4>2. x.timerOf[order[j]] = 0 /\ order[j] \in TimerTasks
        BY <1>1, <1>3, <4>1
      <4> QED
        BY <2>2, <4>2 DEF Steady
    <3> QED
      BY <3>1, <3>2
  <2> QED
    BY <2>2, <2>3, <2>4 DEF Running, Sound
<1> HIDE DEF V, Step, N
<1>4. \A k \in 0 .. N : U[k] = V(k)
  OBVIOUS
<1>5. \A k \in 1 .. N : k - 1 \in 0 .. N /\ k \in 0 .. N /\ Round[k] = [x \in V(k - 1) |-> Step(x, k)]
  BY <1>1
<1> HIDE DEF U, Round
<1>6. \A k \in 1 .. N : Round[k] \in [U[k - 1] -> U[k]]
  <2> SUFFICES ASSUME NEW k \in 1 .. N PROVE Round[k] \in [U[k - 1] -> U[k]]
    OBVIOUS
  <2>1. k - 1 \in 0 .. N /\ k \in 0 .. N /\ Round[k] = [x \in V(k - 1) |-> Step(x, k)]
    BY <1>5
  <2>2. U[k - 1] = V(k - 1) /\ U[k] = V(k)
    BY <1>4, <2>1
  <2>3. \A x \in V(k - 1) : Step(x, k) \in V(k)
    BY <1>3
  <2> QED
    BY <2>1, <2>2, <2>3
<1>7. r \in U[0]
  BY <1>1, <1>2, <1>4
<1>8. \E f : Fits2(f)
  <2>1. PICK f : IsIteration(N, r, Round, f) /\ \A k \in 0 .. N : f[k] \in U[k]
    BY <1>1, <1>6, <1>7, IterationExists
  <2>2. \A k \in 0 .. N : (IF k = 0 THEN r ELSE Round[k][f[k - 1]]) = (IF k = 0 THEN r ELSE Step(f[k - 1], k))
    <3> SUFFICES ASSUME NEW k \in 0 .. N, k # 0 PROVE Round[k][f[k - 1]] = Step(f[k - 1], k)
      OBVIOUS
    <3>1. k \in 1 .. N /\ k - 1 \in 0 .. N
      BY <1>1
    <3>2. f[k - 1] \in V(k - 1)
      BY <1>4, <2>1, <3>1
    <3> QED
      BY <1>5, <3>1, <3>2
  <2>3. Fits2(f)
    BY <2>1, <2>2 DEF IsIteration
  <2> QED
    BY <2>3
<1>9. Fits2(After)
  <2> HIDE DEF Fits2
  <2> QED
    BY <1>8
<1>10. CancelledOneByOne(r, order) = After[N]
  BY Zenon DEF CancelledOneByOne, N, Step
<1> HIDE DEF After
<1>11. After[0] = r /\ \A k \in 1 .. N : After[k] = Step(After[k - 1], k)
  <2>1. \A k \in 0 .. N : After[k] = IF k = 0 THEN r ELSE Step(After[k - 1], k)
    BY <1>9
  <2>2. 0 \in 0 .. N /\ \A k \in 1 .. N : k \in 0 .. N /\ k # 0
    BY <1>1
  <2> HIDE DEF Fits2
  <2> QED
    BY <2>1, <2>2
<1> HIDE DEF Fits2
<1>12. \A k \in 0 .. N : After[k] \in U[k]
  <2>1. After[0] \in U[0]
    BY <1>7, <1>11
  <2>2. ASSUME NEW k \in 1 .. N, After[k - 1] \in U[k - 1] PROVE After[k] \in U[k]
    <3>1. k - 1 \in 0 .. N /\ k \in 0 .. N
      BY <1>1
    <3>2. After[k - 1] \in V(k - 1)
      BY <1>4, <2>2, <3>1
    <3>3. Step(After[k - 1], k) \in V(k)
      BY <1>3, <3>2
    <3> QED
      BY <1>4, <1>11, <3>1, <3>3
  <2> QED
    BY <1>1, <2>1, <2>2, IterationHolds
<1>13. After[N] \in V(N)
  BY <1>1, <1>4, <1>12
<1>14. \A t \in C : \E j \in 1 .. N : t = order[j]
  BY DEF ToSet, N
<1> HIDE DEF C
<1>15. Running(After[N], C) /\ Steady(r, After[N]) /\ \A j \in 1 .. N : After[N].timerOf[order[j]] = 0
  BY <1>13 DEF V
<1>16. \A t \in C : After[N].timerOf[t] = 0
  BY <1>14, <1>15
<1> QED
  BY <1>10, <1>15, <1>16 DEF C

-----------------------------------------------------------------------------
(* KTF: the end of a slice. *)

LEMMA SettledIs ==
  ASSUME NEW task \in TaskRecords
  PROVE  /\ Settled(task) \in TaskRecords
         /\ Settled(task).done = task.done /\ Settled(task).timer = task.timer
         /\ Settled(task).blocker = task.blocker /\ Settled(task).cards = task.cards
         /\ ~task.done => Settled(task) = task
         /\ Settled(task).paint \in {task.paint, Nobody}
<1>1. FinishedTask \in TaskRecords /\ FinishedTask.done /\ FinishedTask.paint = Nobody
  BY PlainFields DEF FinishedTask, PlainTask
<1> DEFINE settled == [FinishedTask EXCEPT !.blocker = task.blocker, !.cards = task.cards,
                                           !.shown = task.shown, !.timer = task.timer]
<1>2. /\ settled \in TaskRecords /\ settled.done /\ settled.timer = task.timer
      /\ settled.blocker = task.blocker /\ settled.cards = task.cards /\ settled.paint = Nobody
  BY <1>1 DEF TaskRecords
<1>3. Settled(task) = IF task.done THEN settled ELSE task
  BY DEF Settled
<1>4. task.done \in BOOLEAN
  BY TaskFields
<1> HIDE DEF settled
<1> QED
  BY <1>2, <1>3, <1>4

\* What a slice may not leave behind: threads that its task holds back although
\* it cannot run, and what a finished task painted or was to release.
Leavable(r) ==
  /\ r \in Runtimes /\ Core(r) /\ (r.fault = "none" => Marks(r))
  /\ r.active # 0 => Quiet(r) \/ (r.active \in Living(r) /\ Free(r.tasks[r.active]))
  /\ r.fault = "none" /\ r.active # 0 /\ r.active \notin Living(r) =>
       Unmarked(r) /\ (ActiveTask(r).cards # <<>> => Cancelled(r, ActiveTask(r).timer))

LEMMA SliceEnds == ASSUME NEW r, Leavable(r) PROVE RuntimeInv(EndSlice(r))
<1> DEFINE Left == r.active = Gone /\ r.detached.cards # <<>>
           orphans == IF Left THEN r.orphans \cup {r.detached.timer} ELSE r.orphans
           tasks == [i \in DOMAIN r.tasks |-> Settled(r.tasks[i])]
           s == [r EXCEPT !.active = 0, !.detached = FinishedTask, !.orphans = orphans, !.tasks = tasks]
<1>1. EndSlice(r) = s
  BY DEF EndSlice
<1>2. /\ r \in Runtimes /\ Len(r.tasks) \in Nat /\ DOMAIN r.tasks = 1 .. Len(r.tasks)
      /\ \A i \in DOMAIN r.tasks : i \in Nat \ {0} /\ r.tasks[i] \in TaskRecords
      /\ r.detached \in TaskRecords /\ Gone \notin DOMAIN r.tasks /\ 0 \notin DOMAIN r.tasks /\ Gone # 0
      /\ Living(r) \subseteq DOMAIN r.tasks /\ r.orphans \in SUBSET TimerOrNobody
  BY TableFields, RuntimeFields DEF Leavable
<1>3. \A i \in DOMAIN r.tasks :
        /\ tasks[i] \in TaskRecords /\ tasks[i].done = r.tasks[i].done /\ tasks[i].timer = r.tasks[i].timer
        /\ tasks[i].blocker = r.tasks[i].blocker /\ tasks[i].cards = r.tasks[i].cards
        /\ ~r.tasks[i].done => tasks[i] = r.tasks[i]
        /\ tasks[i].paint \in {r.tasks[i].paint, Nobody}
  BY <1>2, SettledIs
<1>4. tasks \in Seq(TaskRecords) /\ DOMAIN tasks = DOMAIN r.tasks
  <2>1. tasks \in [1 .. Len(r.tasks) -> TaskRecords]
    BY <1>2, <1>3
  <2> HIDE DEF tasks
  <2> QED
    BY <1>2, <2>1, TableType
<1>5. /\ orphans \in SUBSET TimerOrNobody /\ FinishedTask \in TaskRecords
      /\ FinishedTask.timer = Nobody
  BY <1>2, PlainFields, TaskFields DEF FinishedTask, PlainTask
<1> HIDE DEF tasks, orphans
<1>6. /\ s \in Runtimes
      /\ s.tasks = tasks /\ s.active = 0 /\ s.detached = FinishedTask /\ s.orphans = orphans
      /\ s.pending = r.pending /\ s.paintOf = r.paintOf /\ s.timerOf = r.timerOf /\ s.status = r.status
      /\ s.fault = r.fault
  BY <1>2, <1>4, <1>5 DEF Runtimes, Refs
<1> HIDE DEF s
<1>7. /\ Living(s) = Living(r) /\ \A i \in Living(r) : i \in DOMAIN r.tasks /\ s.tasks[i] = r.tasks[i]
  BY <1>3, <1>4, <1>6 DEF Living
<1>8. Core(r)
  BY DEF Leavable
<1>9. Kinds(s) /\ Turns(s) /\ Paints(s) /\ Pointers(s)
  <2>1. Kinds(s)
    BY <1>3, <1>4, <1>5, <1>6, <1>8 DEF Core, Kinds
  <2>2. Turns(s) /\ Paints(s)
    BY <1>6, <1>7, <1>8 DEF Core, Turns, Paints
  <2>3. Pointers(s)
    BY <1>3, <1>4, <1>6, <1>8 DEF Core, Pointers
  <2> QED
    BY <2>1, <2>2, <2>3
<1>10. Callbacks(s) /\ WaitingTimers(s)
  BY <1>6, <1>7, <1>8 DEF Core, Callbacks, Known, WaitingTimers
<1>11. Blocks(s)
  <2> SUFFICES ASSUME NEW i \in DOMAIN s.tasks, s.tasks[i].blocker # 0
               PROVE  s.tasks[i].blocker \in Living(s) /\ Free(s.tasks[s.tasks[i].blocker])
    BY DEF Blocks
  <2>1. i \in DOMAIN r.tasks /\ s.tasks[i].blocker = r.tasks[i].blocker
    BY <1>3, <1>4, <1>6
  <2>2. r.tasks[i].blocker \in Living(r) /\ Free(r.tasks[r.tasks[i].blocker])
    BY <1>8, <2>1 DEF Core, Blocks, Leavable, Quiet
  <2> QED
    BY <1>7, <2>1, <2>2
<1>12. ASSUME r.fault = "none" PROVE Marks(s)
  <2>1. Marks(r) /\ r.active \in {Gone, 0} \cup DOMAIN r.tasks
    BY <1>8, <1>12 DEF Leavable, Core, Kinds
  <2>2. r.active # 0 /\ r.active \notin Living(r) =>
          Unmarked(r) /\ (ActiveTask(r).cards # <<>> => Cancelled(r, ActiveTask(r).timer))
    BY <1>12 DEF Leavable
  <2>3. PaintPlaces(s)
    <3> SUFFICES ASSUME NEW c \in Cards, s.paintOf[c] # 0
                 PROVE  s.paintOf[c] \in Living(s) /\ TaskAt(s, s.paintOf[c]).paint = c
      BY DEF PaintPlaces
    <3>1. s.paintOf[c] = r.paintOf[c] /\ r.paintOf[c] \in Living(r) /\ TaskAt(r, r.paintOf[c]).paint = c
      BY <1>6, <2>1, <2>2 DEF Marks, PaintPlaces, Unmarked
    <3> QED
      BY <1>2, <1>7, <3>1 DEF TaskAt
  <2>4. ASSUME NEW i \in DOMAIN s.tasks, s.tasks[i].done, s.tasks[i].cards # <<>>
        PROVE  Cancelled(s, s.tasks[i].timer)
    <3>1. /\ i \in DOMAIN r.tasks /\ r.tasks[i].done /\ r.tasks[i].cards # <<>>
          /\ s.tasks[i].timer = r.tasks[i].timer
      BY <1>3, <1>4, <1>6, <2>4
    <3>2. CASE i # r.active
      BY <1>6, <2>1, <3>1, <3>2 DEF Marks, Leftovers, Cancelled
    <3>3. CASE i = r.active
      <4>1. r.active \notin Living(r) /\ r.active # 0 /\ ActiveTask(r) = r.tasks[i]
        BY <1>2, <3>1, <3>3 DEF Living, ActiveTask, TaskAt
      <4> QED
        BY <1>6, <2>2, <3>1, <4>1 DEF Cancelled
    <3> QED
      BY <3>2, <3>3
  <2>5. ASSUME NEW t \in s.orphans PROVE Cancelled(s, t)
    <3>1. CASE t \in r.orphans
      BY <1>6, <2>1, <3>1 DEF Marks, Leftovers, Cancelled
    <3>2. CASE t \notin r.orphans
      <4>1. r.active = Gone /\ r.detached.cards # <<>> /\ t = r.detached.timer
        BY <1>6, <2>5, <3>2 DEF orphans
      <4>2. r.active \notin Living(r) /\ r.active # 0 /\ ActiveTask(r) = r.detached
        BY <1>2, <4>1 DEF ActiveTask, TaskAt
      <4> QED
        BY <1>6, <2>2, <4>1, <4>2 DEF Cancelled
    <3> QED
      BY <3>1, <3>2
  <2> QED
    BY <2>3, <2>4, <2>5 DEF Marks, Leftovers
<1>13. RuntimeInv(s)
  BY <1>6, <1>8, <1>9, <1>10, <1>11, <1>12 DEF RuntimeInv, Core
<1> QED
  BY <1>1, <1>13

LEMMA StopKeeps == ASSUME NEW r, RuntimeInv(r), r.active = 0 PROVE RuntimeInv(StopIfOver(r))
<1> DEFINE s == StopIfOver(r)
<1>1. r \in Runtimes
  BY DEF RuntimeInv
<1>2. /\ s \in Runtimes
      /\ s.tasks = r.tasks /\ s.active = r.active /\ s.detached = r.detached /\ s.orphans = r.orphans
      /\ s.pending = r.pending /\ s.paintOf = r.paintOf /\ s.timerOf = r.timerOf /\ s.status = r.status
      /\ s.fault = r.fault
  BY <1>1 DEF StopIfOver, Runtimes
<1> HIDE DEF s
<1>3. Core(s)
  BY <1>2 DEF RuntimeInv, Core, Kinds, Turns, Paints, Pointers, Callbacks, Known, WaitingTimers, Blocks, Living
<1>4. Marks(r) => Marks(s)
  BY <1>2 DEF Marks, PaintPlaces, Leftovers, Cancelled, Living, TaskAt
<1>5. RuntimeInv(s)
  BY <1>2, <1>3, <1>4 DEF RuntimeInv
<1> QED
  BY <1>5 DEF s

LEMMA SliceStops == ASSUME NEW r, Leavable(r) PROVE RuntimeInv(StopIfOver(EndSlice(r)))
<1>1. RuntimeInv(EndSlice(r))
  BY SliceEnds
<1>2. r \in Runtimes
  BY DEF Leavable
<1>3. EndSlice(r).active = 0
  BY <1>2 DEF EndSlice, Runtimes
<1> QED
  BY <1>1, <1>3, StopKeeps

\* A task that was not told to end leaves nothing but what its callback deferred.
LEMMA FitsLeavable ==
  ASSUME NEW r, Sound(r), r.active # 0, ActiveFits(r, {}), Quiet(r) \/ ActiveFree(r)
  PROVE  Leavable(r)
<1>1. /\ r \in Runtimes /\ Core(r) /\ Marks(r) /\ r.active \in {Gone} \cup DOMAIN r.tasks
  BY DEF Sound, Core, Kinds
<1>2. Quiet(r) \/ (r.active \in Living(r) /\ Free(r.tasks[r.active]))
  BY DEF ActiveFits, ActiveFree
<1>3. ASSUME r.active \notin Living(r)
      PROVE  Unmarked(r) /\ Cancelled(r, ActiveTask(r).timer)
  <2>1. ActiveTask(r).timer \in TimerTasks /\ Cancelled(r, ActiveTask(r).timer)
    BY <1>3 DEF ActiveFits, Cancelled
  <2>2. ActiveTask(r).paint = Nobody
    BY <1>1, <2>1, TasksAssumption DEF Core, Kinds, ActiveTask, TaskAt
  <2>3. Unmarked(r)
    <3> SUFFICES ASSUME NEW c \in Cards, r.paintOf[c] = r.active PROVE FALSE
      BY DEF Unmarked
    <3>1. ActiveTask(r).paint = c
      BY <1>1 DEF Marks, PaintPlaces, ActiveTask
    <3> QED
      BY <2>2, <3>1, TasksAssumption
  <2> QED
    BY <2>1, <2>3
<1> QED
  BY <1>1, <1>2, <1>3 DEF Leavable

LEMMA RunningInv == ASSUME NEW r, Running(r, {}), r.fault = "none" PROVE RuntimeInv(r)
  BY DEF Running, Sound, RuntimeInv

LEMMA RunningGoesOn ==
  ASSUME NEW r, Running(r, {})
  PROVE  /\ RuntimeInv(IF r.fault = "none" THEN r ELSE EndSlice(r))
         /\ RuntimeInv(EndSlice(r))
<1>1. RuntimeInv(EndSlice(r))
  BY FitsLeavable, SliceEnds DEF Running
<1> QED
  BY <1>1, RunningInv

\* A task that gives its turn away, whatever it waits for then.
LEMMA YieldKeeps ==
  ASSUME NEW r, Sound(r), r.active # 0, ActiveFits(r, {})
  PROVE  LET released == ReleaseStartedThreads(r, r.active)
         IN  RuntimeInv(EndSlice(ReleaseDeferredCardPaints(released, released.active)))
<1> DEFINE u == ReleaseStartedThreads(r, r.active)
           s == ReleaseDeferredCardPaints(u, u.active)
<1>1. r.active \in {Gone} \cup DOMAIN r.tasks
  BY DEF Sound, Core, Kinds
<1>2. Good(r, u) /\ u.active = r.active /\ DOMAIN u.tasks = DOMAIN r.tasks /\ Quiet(u)
  BY <1>1, ReleaseStartedGood
<1> HIDE DEF u
<1>3. Good(u, s)
  BY <1>1, <1>2, ReleaseDeferredGood DEF Good
<1>4. Sound(s) /\ s.active # 0 /\ Quiet(s) /\ ActiveFits(s, {})
  <2>1. ActiveFits(u, {})
    BY <1>2 DEF ActiveFits, Good, Keeps, Steady
  <2>2. ActiveFits(s, {})
    BY <1>2, <1>3, <2>1 DEF ActiveFits, Good, Keeps, Steady
  <2> QED
    BY <1>2, <1>3, <2>2 DEF Good, Keeps
<1> HIDE DEF s
<1>5. RuntimeInv(EndSlice(s))
  BY <1>4, FitsLeavable, SliceEnds
<1> QED
  BY <1>5 DEF s, u

-----------------------------------------------------------------------------
(* KTF: what is queued before a slice. *)

LEMMA QueuedKeepsRest ==
  ASSUME NEW r \in Runtimes, NEW limit, NEW task
  PROVE  Queued(r, limit, task).fault = r.fault /\ Queued(r, limit, task).carrier = r.carrier
  BY DEF Queued, Placed, Runtimes

LEMMA KeyEdgeGood ==
  ASSUME NEW r, Sound(r), CanQueueKeyEvent(r)
  PROVE  Good(r, QueueKeyEdge(r)) /\ QueueKeyEdge(r).fault = r.fault
<1> DEFINE place == FreePlace(r, MaxTasks)
           task == [PlainTask EXCEPT !.key = r.card]
           queued == Queued(r, MaxTasks, task)
           s == DeferCardPaint(queued, place, r.card, FALSE)
<1>1. QueueKeyEdge(r) = IF r.card \in r.dirty THEN s ELSE queued
  BY DEF QueueKeyEdge
<1>2. r \in Runtimes /\ r.card \in Cards /\ place # 0
  BY DEF Sound, CanQueueKeyEvent, HasTaskCapacity, Runtimes, CardOrNobody
<1>3. /\ task \in TaskRecords /\ ~task.done /\ ~task.started /\ task.cards = <<>> /\ task.blocker = 0
      /\ task.timer = Nobody /\ task.paint = Nobody /\ ~task.wipic /\ task.key = r.card
  BY <1>2, PlainFields DEF TaskRecords, CardOrNobody
<1> HIDE DEF task
<1>4. \A j \in Living(r) : ~r.tasks[j].wipic /\ r.tasks[j].key # r.card
  BY DEF CanQueueKeyEvent, KeyTasks, WipicTasks
<1>5. Fits(r, task)
  BY <1>3, <1>4 DEF Fits
<1>6. Good(r, queued) /\ IsGrown(r, queued, place, task)
  BY <1>2, <1>3, <1>5, Limits, QueuedGood, QueuedIsGrown
<1>7. queued.fault = r.fault
  BY <1>2, QueuedKeepsRest
<1> HIDE DEF queued, place
<1>8. place \in Living(queued)
  BY <1>3, <1>6 DEF Living, IsGrown
<1>9. Good(queued, s)
  BY <1>2, <1>6, <1>8, DeferGood DEF Good
<1>10. s.fault = queued.fault
  <2> DEFINE new == [TaskAt(queued, place) EXCEPT
                       !.shown = IF FALSE THEN @ \cup {r.card} ELSE @,
                       !.cards = IF r.card \in ToSet(@) THEN @ ELSE Append(@, r.card)]
  <2>1. s = WithTask(queued, place, new)
    BY DEF DeferCardPaint
  <2>2. queued \in Runtimes
    BY <1>6 DEF Good, Sound
  <2> HIDE DEF new
  <2> QED
    BY <2>1, <2>2 DEF WithTask, Runtimes
<1> HIDE DEF s
<1> QED
  BY <1>1, <1>6, <1>7, <1>9, <1>10, GoodChain

LEMMA ActivateCallFollows ==
  ASSUME NEW r, Sound(r)
  PROVE  Follows(r, ActivateCall(r)) /\ ActivateCall(r).fault = r.fault
<1> DEFINE call == Head(r.pending)
           left == Tail(r.pending)
           rest == [r EXCEPT !.pending = left]
           task == [PlainTask EXCEPT !.thread = call.thread]
<1>1. ActivateCall(r) =
        IF r.pending = <<>> \/ ~HasBackgroundCapacity(r) THEN r
        ELSE IF call.timer = Nobody THEN Queued(rest, BackgroundLimit, task)
        ELSE IF r.status[call.timer] = "scheduled" THEN QueuedTimer(rest, call) ELSE rest
  BY DEF ActivateCall
<1>2. r \in Runtimes /\ r.pending \in Seq(CallRecords) /\ Follows(r, r)
  BY RuntimeFields, FollowsSelf DEF Sound
<1>3. CASE r.pending = <<>> \/ ~HasBackgroundCapacity(r)
  BY <1>1, <1>2, <1>3
<1>4. CASE r.pending # <<>> /\ HasBackgroundCapacity(r)
  <2>1. /\ call \in CallRecords /\ left \in Seq(CallRecords) /\ call = r.pending[1] /\ 1 \in DOMAIN r.pending
        /\ \A k \in DOMAIN left : k + 1 \in DOMAIN r.pending /\ left[k] = r.pending[k + 1] /\ k + 1 # 1
        /\ \A k, l \in DOMAIN left : k + 1 = l + 1 => k = l
    BY <1>2, <1>4
  <2>2. /\ rest \in Runtimes /\ rest.tasks = r.tasks /\ rest.pending = left /\ rest.status = r.status
        /\ rest.fault = r.fault
    BY <1>2, <2>1 DEF Runtimes
  <2> HIDE DEF call, left
  <2>3. WaitingTimers(r)
    BY DEF Sound, Core
  <2>4. WaitingTimers(rest)
    <3> HIDE DEF rest
    <3>1. Living(rest) = Living(r)
      BY <2>2 DEF Living
    <3> QED
      BY <2>1, <2>2, <2>3, <3>1 DEF WaitingTimers
  <2>5. Follows(r, rest)
    BY <2>1, <2>4, Repended
  <2> HIDE DEF rest
  <2>6. HasBackgroundCapacity(rest) /\ Living(rest) = Living(r) /\ Sound(rest)
    BY <1>4, <2>2, <2>5 DEF HasBackgroundCapacity, FreePlace, Living, Follows
  <2>7. CASE call.timer = Nobody
    <3>1. call.thread \in ThreadOrNobody
      BY <2>1 DEF CallRecords
    <3>2. Good(rest, Queued(rest, BackgroundLimit, task))
      BY <2>6, <3>1, ThreadFits, QueuedGood, Limits DEF HasBackgroundCapacity
    <3>3. Queued(rest, BackgroundLimit, task).fault = r.fault
      BY <2>2, QueuedKeepsRest
    <3> QED
      BY <1>1, <1>4, <2>5, <2>7, <3>2, <3>3, GoodFollows, FollowsChain
  <2>8. CASE call.timer # Nobody
    <3>1. call.timer \in TimerTasks /\ r.status[call.timer] = "scheduled"
      BY <2>1, <2>3, <2>8 DEF CallRecords, TimerOrNobody, WaitingTimers
    <3>2. Unused(rest, call.timer)
      BY <2>1, <2>2, <2>3, <2>6, <2>8 DEF Unused, WaitingTimers
    <3>3. Follows(rest, QueuedTimer(rest, call))
      BY <2>1, <2>2, <2>6, <3>1, <3>2, QueuedTimerFollows
    <3>4. QueuedTimer(rest, call).fault = r.fault
      <4> DEFINE i == FreePlace(rest, BackgroundLimit)
                 new == [PlainTask EXCEPT !.timer = call.timer, !.period = call.period,
                                          !.deadline = call.deadline, !.wake = call.wake]
                 queued == Queued(rest, BackgroundLimit, new)
      <4>1. QueuedTimer(rest, call) = [queued EXCEPT !.timerOf[call.timer] = i]
        BY DEF QueuedTimer
      <4>2. queued.fault = r.fault
        BY <2>2, QueuedKeepsRest
      <4> HIDE DEF queued
      <4> QED
        BY <4>1, <4>2
    <3> QED
      BY <1>1, <1>4, <2>5, <2>8, <3>1, <3>3, <3>4, FollowsChain
  <2> QED
    BY <2>7, <2>8
<1> QED
  BY <1>3, <1>4

LEMMA ActivatePendingFollows ==
  ASSUME NEW r, Sound(r)
  PROVE  Follows(r, ActivatePendingJavaCalls(r)) /\ ActivatePendingJavaCalls(r).fault = r.fault
<1> DEFINE N == MaxPendingCalls
           V == {x \in Runtimes : Follows(r, x) /\ x.fault = r.fault}
           U == [k \in 0 .. N |-> V]
           Round == [k \in 1 .. N |-> [x \in V |-> ActivateCall(x)]]
           Fits2(f) == f = [k \in 0 .. N |-> IF k = 0 THEN r ELSE ActivateCall(f[k - 1])]
           After == CHOOSE f : Fits2(f)
<1>1. N \in Nat
  BY Limits
<1>2. r \in V
  BY FollowsSelf DEF Sound
<1>3. ASSUME NEW x \in V PROVE ActivateCall(x) \in V
  <2>1. Follows(r, x) /\ Sound(x) /\ x.fault = r.fault
    BY DEF Follows
  <2>2. Follows(x, ActivateCall(x)) /\ ActivateCall(x).fault = x.fault
    BY <2>1, ActivateCallFollows
  <2>3. Follows(r, ActivateCall(x)) /\ ActivateCall(x) \in Runtimes
    BY <2>1, <2>2, FollowsChain DEF Follows, Sound
  <2> QED
    BY <2>1, <2>2, <2>3
<1> HIDE DEF V, N
<1>4. \A k \in 0 .. N : U[k] = V
  OBVIOUS
<1>5. \A k \in 1 .. N : k - 1 \in 0 .. N /\ k \in 0 .. N /\ Round[k] = [x \in V |-> ActivateCall(x)]
  BY <1>1
<1> HIDE DEF U, Round
<1>6. \A k \in 1 .. N : Round[k] \in [U[k - 1] -> U[k]]
  <2> SUFFICES ASSUME NEW k \in 1 .. N PROVE Round[k] \in [U[k - 1] -> U[k]]
    OBVIOUS
  <2>1. Round[k] = [x \in V |-> ActivateCall(x)] /\ U[k - 1] = V /\ U[k] = V
    BY <1>4, <1>5
  <2>2. \A x \in V : ActivateCall(x) \in V
    BY <1>3
  <2> QED
    BY <2>1, <2>2
<1>7. r \in U[0]
  BY <1>1, <1>2, <1>4
<1>8. \E f : Fits2(f)
  <2>1. PICK f : IsIteration(N, r, Round, f) /\ \A k \in 0 .. N : f[k] \in U[k]
    BY <1>1, <1>6, <1>7, IterationExists
  <2>2. \A k \in 0 .. N : (IF k = 0 THEN r ELSE Round[k][f[k - 1]]) = (IF k = 0 THEN r ELSE ActivateCall(f[k - 1]))
    <3> SUFFICES ASSUME NEW k \in 0 .. N, k # 0 PROVE Round[k][f[k - 1]] = ActivateCall(f[k - 1])
      OBVIOUS
    <3>1. k \in 1 .. N /\ k - 1 \in 0 .. N
      BY <1>1
    <3>2. f[k - 1] \in V
      BY <1>4, <2>1, <3>1
    <3> QED
      BY <1>5, <3>1, <3>2
  <2>3. Fits2(f)
    BY <2>1, <2>2 DEF IsIteration
  <2> QED
    BY <2>3
<1>9. Fits2(After)
  <2> HIDE DEF Fits2
  <2> QED
    BY <1>8
<1>10. ActivatePendingJavaCalls(r) = After[N]
  BY Zenon DEF ActivatePendingJavaCalls, N
<1> HIDE DEF After
<1>11. After[0] = r /\ \A k \in 1 .. N : After[k] = ActivateCall(After[k - 1])
  <2>1. \A k \in 0 .. N : After[k] = IF k = 0 THEN r ELSE ActivateCall(After[k - 1])
    BY <1>9
  <2>2. 0 \in 0 .. N /\ \A k \in 1 .. N : k \in 0 .. N /\ k # 0
    BY <1>1
  <2> HIDE DEF Fits2
  <2> QED
    BY <2>1, <2>2
<1> HIDE DEF Fits2
<1>12. \A k \in 0 .. N : After[k] \in U[k]
  <2>1. After[0] \in U[0]
    BY <1>7, <1>11
  <2>2. ASSUME NEW k \in 1 .. N, After[k - 1] \in U[k - 1] PROVE After[k] \in U[k]
    <3>1. k - 1 \in 0 .. N /\ k \in 0 .. N
      BY <1>1
    <3>2. After[k - 1] \in V
      BY <1>4, <2>2, <3>1
    <3>3. ActivateCall(After[k - 1]) \in V
      BY <1>3, <3>2
    <3> QED
      BY <1>4, <1>11, <3>1, <3>3
  <2> QED
    BY <1>1, <2>1, <2>2, IterationHolds
<1>13. After[N] \in V
  BY <1>1, <1>4, <1>12
<1> QED
  BY <1>10, <1>13 DEF V

LEMMA ActivateDueGood ==
  ASSUME NEW r, Sound(r)
  PROVE  Good(r, ActivateDueWIPICTimers(r)) /\ ActivateDueWIPICTimers(r).fault = r.fault
<1> DEFINE task == [PlainTask EXCEPT !.wipic = TRUE]
           callback == Queued(r, BackgroundLimit, task)
           called == [callback EXCEPT !.carrier = @ - 1]
           fired == [callback EXCEPT !.wipicTimer = Off]
           busy == \/ \E i \in Living(r) : r.tasks[i].wipic \/ r.tasks[i].key # Nobody
                   \/ ~HasBackgroundCapacity(r)
<1>1. ActivateDueWIPICTimers(r) = IF busy THEN r ELSE IF r.carrier > 0 THEN called
                                  ELSE IF r.wipicTimer # Off /\ r.wipicTimer <= r.tick THEN fired ELSE r
  BY DEF ActivateDueWIPICTimers
<1>2. Good(r, r) /\ r \in Runtimes
  BY GoodSelf DEF Sound
<1>3. ASSUME ~busy PROVE Good(r, callback)
  <2>1. /\ task \in TaskRecords /\ ~task.done /\ ~task.started /\ task.cards = <<>> /\ task.blocker = 0
        /\ task.timer = Nobody /\ task.paint = Nobody /\ task.key = Nobody
    BY PlainFields DEF TaskRecords
  <2> HIDE DEF task
  <2>2. Fits(r, task)
    BY <1>3, <2>1 DEF Fits
  <2> QED
    BY <1>3, <2>1, <2>2, QueuedGood, Limits DEF HasBackgroundCapacity
<1>4. callback.fault = r.fault /\ callback.carrier = r.carrier
  BY <1>2, QueuedKeepsRest
<1> HIDE DEF callback
<1>5. ASSUME ~busy, r.carrier > 0 PROVE Good(r, called) /\ called.fault = r.fault
  <2>1. callback \in Runtimes /\ r.carrier \in Nat
    BY <1>2, <1>3, <1>5 DEF Good, Sound, Runtimes
  <2> DEFINE carrier == callback.carrier - 1
  <2>a. carrier \in Nat
    BY <1>4, <1>5, <2>1
  <2> HIDE DEF carrier
  <2>b. [callback EXCEPT !.carrier = carrier] \in Runtimes
    BY <2>1, <2>a DEF Runtimes
  <2>c. called = [callback EXCEPT !.carrier = carrier]
    BY DEF carrier
  <2>2. IsAside(callback, called) /\ called.fault = r.fault
    BY <1>4, <2>1, <2>b, <2>c DEF IsAside, Runtimes
  <2> QED
    BY <1>3, <1>5, <2>2, Aside, GoodChain DEF Good
<1>6. ASSUME ~busy PROVE Good(r, fired) /\ fired.fault = r.fault
  <2>1. callback \in Runtimes
    BY <1>3, <1>6 DEF Good, Sound
  <2>a. fired \in Runtimes
    <3>1. Off \in Int
      BY DEF Off
    <3> QED
      BY <2>1, <3>1 DEF Runtimes
  <2>2. IsAside(callback, fired) /\ fired.fault = r.fault
    BY <1>4, <2>1, <2>a DEF IsAside, Runtimes
  <2> QED
    BY <1>3, <1>6, <2>2, Aside, GoodChain DEF Good
<1> HIDE DEF called, fired, busy
<1> QED
  BY <1>1, <1>2, <1>5, <1>6

-----------------------------------------------------------------------------
(* KTF: the task that a slice runs. *)

LEMMA LookedIs ==
  ASSUME NEW r \in Runtimes, NEW i \in DOMAIN r.tasks
  PROVE  /\ Looked(r, i) \in TaskRecords /\ SameWork(Looked(r, i), r.tasks[i])
         /\ Looked(r, i).blocker \in {0, r.tasks[i].blocker}
         /\ Free(r.tasks[i]) => Free(Looked(r, i))
         /\ Looked(r, i).cards = r.tasks[i].cards
<1> DEFINE task == r.tasks[i]
           expired == task.wake # 0 /\ task.wake <= r.tick
           join == IF task.join # Nobody /\ ~ThreadAlive(r, task.join) THEN Nobody ELSE task.join
           blocker == IF task.blocker # 0 /\ (IsDone(r, task.blocker) \/ ~r.tasks[task.blocker].grace)
                      THEN 0 ELSE task.blocker
           wake == IF expired THEN 0 ELSE task.wake
           waits == task.waits /\ ~expired
           after == IF task.after # 0 /\ IsDone(r, task.after) THEN 0 ELSE task.after
           looked == [task EXCEPT !.join = join, !.blocker = blocker, !.wake = wake, !.waits = waits,
                                  !.after = after]
<1>1. task \in TaskRecords
  BY TableFields
<1> HIDE DEF task
<1>2. Looked(r, i) = looked
  BY <1>1 DEF Looked, TaskRecords, task
<1>3. /\ join \in {Nobody, task.join} /\ blocker \in {0, task.blocker} /\ wake \in {0, task.wake}
      /\ waits \in BOOLEAN /\ (waits => task.waits) /\ after \in {0, task.after}
  BY <1>1 DEF TaskRecords
<1> HIDE DEF join, blocker, wake, waits, after, expired
<1>4. /\ join \in ThreadOrNobody /\ blocker \in Refs /\ wake \in Nat /\ after \in Refs
  BY <1>1, <1>3 DEF TaskRecords, ThreadOrNobody, Refs
<1>5. looked \in TaskRecords
  BY <1>1, <1>3, <1>4 DEF TaskRecords
<1>6. /\ SameWork(looked, task) /\ looked.blocker = blocker /\ looked.cards = task.cards
      /\ looked.join = join /\ looked.wake = wake /\ looked.waits = waits /\ looked.after = after
      /\ looked.timer = task.timer /\ looked.started = task.started
  BY <1>1 DEF TaskRecords, SameWork
<1> HIDE DEF looked
<1>7. Free(task) => Free(looked)
  BY <1>3, <1>6 DEF Free
<1> QED
  BY <1>2, <1>3, <1>5, <1>6, <1>7 DEF task

\* s is r when the task at place i begins.
IsBegun(r, s, i) ==
  LET t == r.tasks[i].timer
      once == t # Nobody /\ r.tasks[i].period = 0 /\ r.timerOf[t] = i /\ r.status[t] = "scheduled"
  IN  /\ s \in Runtimes /\ DOMAIN s.tasks = DOMAIN r.tasks /\ s.active = i
      /\ s.detached = r.detached /\ s.orphans = r.orphans
      /\ s.pending = r.pending /\ s.paintOf = r.paintOf
      /\ s.timerOf = IF once THEN [r.timerOf EXCEPT ![t] = 0] ELSE r.timerOf
      /\ s.status = IF once THEN [r.status EXCEPT ![t] = "executed"] ELSE r.status
      /\ \A k \in DOMAIN r.tasks : k # i => s.tasks[k] = r.tasks[k]
      /\ s.tasks[i] = [r.tasks[i] EXCEPT !.started = (t # Nobody)]

\* The callbacks that began come first, so that a second one does not begin.
LEMMA BegunRunning ==
  ASSUME NEW r, NEW s, NEW i \in Living(r), Sound(r), r.active = 0, IsBegun(r, s, i),
         LET task == r.tasks[i]
         IN  /\ task.blocker = 0 /\ task.join = Nobody /\ ~task.waits /\ task.wake = 0 /\ task.after = 0
             /\ task.timer # Nobody =>
                  \A j \in Living(r) : r.tasks[j].timer # Nobody /\ r.tasks[j].started => r.tasks[i].started
  PROVE  Running(s, {})
<1> DEFINE t == r.tasks[i].timer
           once == t # Nobody /\ r.tasks[i].period = 0 /\ r.timerOf[t] = i /\ r.status[t] = "scheduled"
<1>1. /\ r \in Runtimes /\ s \in Runtimes /\ i \in DOMAIN r.tasks /\ ~r.tasks[i].done
      /\ r.tasks[i] \in TaskRecords /\ t \in TimerOrNobody
      /\ Gone \notin DOMAIN r.tasks /\ 0 \notin DOMAIN r.tasks /\ Gone # 0
      /\ r.timerOf \in [TimerTasks -> Refs]
      /\ r.status \in [TimerTasks -> {"new", "scheduled", "executed", "cancelled"}]
      /\ Core(r) /\ Marks(r)
  BY TableFields, TaskFields, RuntimeFields DEF Sound, IsBegun, Living
<1>2. /\ s.active = i /\ DOMAIN s.tasks = DOMAIN r.tasks
      /\ s.detached = r.detached /\ s.orphans = r.orphans
      /\ s.pending = r.pending /\ s.paintOf = r.paintOf
      /\ s.timerOf = IF once THEN [r.timerOf EXCEPT ![t] = 0] ELSE r.timerOf
      /\ s.status = IF once THEN [r.status EXCEPT ![t] = "executed"] ELSE r.status
      /\ \A k \in DOMAIN r.tasks : k # i => s.tasks[k] = r.tasks[k]
  BY DEF IsBegun
<1>3. /\ s.tasks[i].done = r.tasks[i].done /\ s.tasks[i].timer = t /\ s.tasks[i].period = r.tasks[i].period
      /\ s.tasks[i].paint = r.tasks[i].paint /\ s.tasks[i].wipic = r.tasks[i].wipic
      /\ s.tasks[i].key = r.tasks[i].key /\ s.tasks[i].blocker = 0 /\ s.tasks[i].cards = r.tasks[i].cards
      /\ (t # Nobody => s.tasks[i].started) /\ Free(s.tasks[i])
  BY <1>1 DEF IsBegun, TaskRecords, Free
<1>4. \A k \in DOMAIN r.tasks :
        /\ s.tasks[k].done = r.tasks[k].done /\ s.tasks[k].timer = r.tasks[k].timer
        /\ s.tasks[k].period = r.tasks[k].period
        /\ s.tasks[k].paint = r.tasks[k].paint /\ s.tasks[k].wipic = r.tasks[k].wipic
        /\ s.tasks[k].key = r.tasks[k].key /\ s.tasks[k].cards = r.tasks[k].cards
        /\ s.tasks[k].blocker = r.tasks[k].blocker
        /\ k # i => s.tasks[k] = r.tasks[k]
        /\ Free(r.tasks[k]) => Free(s.tasks[k])
  BY <1>2, <1>3
<1>5. once => t \in TimerTasks
  BY <1>1 DEF TimerOrNobody
<1>6. /\ \A u \in TimerTasks : u # t \/ ~once => s.timerOf[u] = r.timerOf[u] /\ s.status[u] = r.status[u]
      /\ once => s.timerOf[t] = 0 /\ s.status[t] = "executed"
  BY <1>1, <1>2, <1>5
<1> HIDE DEF t
<1>7. Living(s) = Living(r) /\ \A k \in Living(r) : k \in DOMAIN r.tasks
  BY <1>2, <1>4 DEF Living
<1>8. Kinds(s)
  BY <1>1, <1>2, <1>4 DEF Core, Kinds
<1>9. Turns(s) /\ Paints(s)
  BY <1>1, <1>2, <1>4, <1>7 DEF Core, Turns, Paints
<1>10. Pointers(s)
  BY <1>1, <1>2, <1>4, <1>6 DEF Core, Pointers
<1>11. \A k \in Living(r) : r.tasks[k].timer # Nobody =>
         /\ r.tasks[k].timer \in TimerTasks /\ Known(r, k)
         /\ k # i => r.tasks[k].timer # t
  BY <1>1, TableFields, TaskFields DEF Core, Callbacks, TimerOrNobody, t
<1>12. Callbacks(s)
  <2>1. ASSUME NEW k \in Living(s), s.tasks[k].timer # Nobody PROVE Known(s, k)
    <3>1. k \in Living(r) /\ r.tasks[k].timer # Nobody /\ s.tasks[k].timer = r.tasks[k].timer
      BY <1>4, <1>7, <2>1
    <3>2. CASE k # i
      <4>1. s.timerOf[r.tasks[k].timer] = r.timerOf[r.tasks[k].timer]
            /\ s.status[r.tasks[k].timer] = r.status[r.tasks[k].timer]
        BY <1>6, <1>11, <3>1, <3>2
      <4> QED
        BY <1>4, <1>7, <1>11, <3>1, <3>2, <4>1 DEF Known
    <3>3. CASE k = i
      <4>1. t # Nobody /\ t = r.tasks[i].timer /\ Known(r, i) /\ t \in TimerTasks /\ s.tasks[i].timer = t
        BY <1>3, <1>11, <3>1, <3>3 DEF t
      <4>2. CASE once
        BY <1>3, <1>6, <3>3, <4>1, <4>2 DEF Known
      <4>3. CASE ~once
        BY <1>3, <1>6, <3>3, <4>1, <4>3 DEF Known
      <4> QED
        BY <4>2, <4>3
    <3> QED
      BY <3>2, <3>3
  <2>2. ASSUME NEW k \in Living(s), NEW l \in Living(s), s.tasks[k].timer # Nobody, s.tasks[l].timer # Nobody
        PROVE  /\ s.tasks[k].timer = s.tasks[l].timer => k = l
               /\ s.tasks[k].started /\ s.tasks[l].started => k = l
    <3>1. /\ k \in Living(r) /\ l \in Living(r) /\ k \in DOMAIN r.tasks /\ l \in DOMAIN r.tasks
          /\ r.tasks[k].timer # Nobody /\ r.tasks[l].timer # Nobody
          /\ s.tasks[k].timer = r.tasks[k].timer /\ s.tasks[l].timer = r.tasks[l].timer
      BY <1>4, <1>7, <2>2
    <3>2. /\ r.tasks[k].timer = r.tasks[l].timer => k = l
          /\ r.tasks[k].started /\ r.tasks[l].started => k = l
      BY <1>1, <3>1 DEF Core, Callbacks
    <3>3. \A j \in Living(r) : t # Nobody /\ j # i /\ r.tasks[j].timer # Nobody => ~r.tasks[j].started
      BY <1>1 DEF Core, Callbacks, t
    <3>4. ASSUME s.tasks[k].started, s.tasks[l].started PROVE k = l
      <4>1. CASE k # i /\ l # i
        BY <1>4, <3>1, <3>2, <3>4, <4>1
      <4>2. CASE k = i /\ l # i
        BY <1>4, <3>1, <3>3, <3>4, <4>2 DEF t
      <4>3. CASE k # i /\ l = i
        BY <1>4, <3>1, <3>3, <3>4, <4>3 DEF t
      <4> QED
        BY <4>1, <4>2, <4>3
    <3> QED
      BY <3>1, <3>2, <3>4
  <2> QED
    BY <2>1, <2>2 DEF Callbacks
<1>13. WaitingTimers(s)
  <2>1. WaitingTimers(r)
    BY <1>1 DEF Core
  <2>2. ASSUME NEW k \in DOMAIN r.pending, r.pending[k].timer # Nobody
        PROVE  s.status[r.pending[k].timer] = "scheduled"
    <3>1. r.pending[k] \in CallRecords
      BY <1>1, RuntimeFields
    <3>2. r.pending[k].timer \in TimerTasks
      BY <2>2, <3>1 DEF CallRecords, TimerOrNobody
    <3>3. r.status[r.pending[k].timer] = "scheduled" /\ r.pending[k].timer # t
      BY <2>1, <2>2 DEF WaitingTimers, t
    <3> QED
      BY <1>6, <3>2, <3>3
  <2> QED
    BY <1>2, <1>4, <1>7, <2>1, <2>2 DEF WaitingTimers
<1>14. Blocks(s)
  <2> SUFFICES ASSUME NEW k \in DOMAIN s.tasks, s.tasks[k].blocker # 0
               PROVE  s.tasks[k].blocker \in Living(s) /\ Free(s.tasks[s.tasks[k].blocker])
    BY DEF Blocks
  <2>1. r.tasks[k].blocker \in Living(r) /\ Free(r.tasks[r.tasks[k].blocker])
    BY <1>1, <1>2, <1>4 DEF Core, Blocks
  <2> QED
    BY <1>2, <1>4, <1>7, <2>1
<1>15. PaintPlaces(s)
  <2> SUFFICES ASSUME NEW c \in Cards, s.paintOf[c] # 0
               PROVE  s.paintOf[c] \in Living(s) /\ TaskAt(s, s.paintOf[c]).paint = c
    BY DEF PaintPlaces
  <2>1. r.paintOf[c] \in Living(r) /\ TaskAt(r, r.paintOf[c]).paint = c
    BY <1>1, <1>2 DEF Marks, PaintPlaces
  <2> QED
    BY <1>1, <1>2, <1>4, <1>7, <2>1 DEF TaskAt
<1>16. \A u : Cancelled(r, u) => Cancelled(s, u)
  BY <1>6 DEF Cancelled
<1>17. Leftovers(s)
  BY <1>1, <1>2, <1>4, <1>16 DEF Marks, Leftovers
<1>18. Sound(s)
  BY <1>1, <1>8, <1>9, <1>10, <1>12, <1>13, <1>14, <1>15, <1>17 DEF Sound, Core, Marks
<1>19. s.active # 0 /\ s.active \in Living(s) /\ Free(s.tasks[s.active])
  BY <1>1, <1>2, <1>3, <1>7
<1> QED
  BY <1>18, <1>19 DEF Running, ActiveFits, ActiveFree

LEMMA NearestReady ==
  ASSUME NEW r \in Runtimes, NEW ready \in SUBSET DOMAIN r.tasks, ready # {}
  PROVE  /\ \A i \in ready : Distance(r, i) \in Nat
         /\ \E i \in ready : \A j \in ready : Distance(r, i) <= Distance(r, j)
<1>1. /\ Len(r.tasks) \in Nat /\ DOMAIN r.tasks = 1 .. Len(r.tasks) /\ r.cursor \in Nat
      /\ ready \subseteq 1 .. Len(r.tasks) /\ Len(r.tasks) > 0
  <2>1. Len(r.tasks) \in Nat /\ DOMAIN r.tasks = 1 .. Len(r.tasks)
    BY TableFields
  <2>2. r.cursor \in Nat
    BY DEF Runtimes
  <2>3. PICK i \in 1 .. Len(r.tasks) : TRUE
    BY <2>1
  <2> QED
    BY <2>1, <2>2, <2>3
<1>2. ASSUME NEW i \in ready PROVE Distance(r, i) \in Nat
  <2> DEFINE n == Len(r.tasks)
             d == i - r.cursor
  <2>1. n \in Nat /\ n > 0 /\ d \in Int
    BY <1>1
  <2> HIDE DEF n, d
  <2>2. d % n \in 0 .. n - 1
    BY <2>1
  <2> QED
    BY <2>1, <2>2 DEF Distance, n, d
<1> DEFINE distances == {Distance(r, i) : i \in ready}
<1>3. distances \in SUBSET Nat /\ distances # {}
  BY <1>2
<1>4. PICK m \in distances : \A k \in distances : m <= k
  <2> HIDE DEF distances
  <2> QED
    BY <1>3, LeastNumber
<1>5. PICK i \in ready : m = Distance(r, i)
  BY <1>4
<1>6. \A j \in ready : Distance(r, i) <= Distance(r, j)
  BY <1>4, <1>5
<1> QED
  BY <1>2, <1>6

LEMMA BeginTaskRuns ==
  ASSUME NEW r, Sound(r), r.active = 0
  PROVE  LET s == BeginTask(r)
         IN  /\ s.fault = r.fault
             /\ s.active = 0 => Sound(s)
             /\ s.active # 0 => Running(s, {})
<1> DEFINE ready == {i \in DOMAIN r.tasks : Runnable(r, i)}
           first == CHOOSE i \in ready : \A j \in ready : Distance(r, i) <= Distance(r, j)
           scanned == IF ready = {} THEN DOMAIN r.tasks
                      ELSE {i \in DOMAIN r.tasks : Distance(r, i) <= Distance(r, first)}
           Seen(i) == IF i \in scanned THEN Looked(r, i) ELSE r.tasks[i]
           Begun(i) == IF i = first THEN [Seen(i) EXCEPT !.started = r.tasks[i].timer # Nobody] ELSE Seen(i)
           seen == [i \in DOMAIN r.tasks |-> Seen(i)]
           table == [i \in DOMAIN r.tasks |-> Begun(i)]
           begun == [r EXCEPT !.tasks = table]
           u == [r EXCEPT !.tasks = seen]
           cursor == (first % Len(r.tasks)) + 1
           s == [BeginJavaTimerTask(begun, first) EXCEPT !.active = first, !.cursor = cursor]
<1>1. BeginTask(r) = IF ready = {} THEN u ELSE s
  BY Zenon DEF BeginTask
<1>2. /\ r \in Runtimes /\ Len(r.tasks) \in Nat /\ DOMAIN r.tasks = 1 .. Len(r.tasks)
      /\ \A i \in DOMAIN r.tasks : i \in Nat \ {0} /\ r.tasks[i] \in TaskRecords
      /\ Gone \notin DOMAIN r.tasks /\ 0 \notin DOMAIN r.tasks /\ Gone # 0
      /\ Living(r) \subseteq DOMAIN r.tasks
  BY TableFields DEF Sound
<1> HIDE DEF scanned
<1>3. \A i \in DOMAIN r.tasks :
        /\ Seen(i) \in TaskRecords /\ SameWork(Seen(i), r.tasks[i])
        /\ Seen(i).blocker \in {0, r.tasks[i].blocker}
        /\ Free(r.tasks[i]) => Free(Seen(i))
        /\ Seen(i).cards = r.tasks[i].cards
  <2> SUFFICES ASSUME NEW i \in DOMAIN r.tasks
               PROVE  /\ Seen(i) \in TaskRecords /\ SameWork(Seen(i), r.tasks[i])
                      /\ Seen(i).blocker \in {0, r.tasks[i].blocker}
                      /\ Free(r.tasks[i]) => Free(Seen(i))
                      /\ Seen(i).cards = r.tasks[i].cards
    OBVIOUS
  <2>1. CASE i \in scanned
    BY <1>2, <2>1, LookedIs
  <2>2. CASE i \notin scanned
    BY <1>2, <2>2 DEF SameWork
  <2> QED
    BY <2>1, <2>2
<1> HIDE DEF Seen
<1>4. seen \in Seq(TaskRecords) /\ DOMAIN seen = DOMAIN r.tasks /\ \A i \in DOMAIN r.tasks : seen[i] = Seen(i)
  <2>1. seen \in [1 .. Len(r.tasks) -> TaskRecords] /\ \A i \in DOMAIN r.tasks : seen[i] = Seen(i)
    BY <1>2, <1>3
  <2> HIDE DEF seen
  <2> QED
    BY <1>2, <2>1, TableType
<1> HIDE DEF seen
<1>5. /\ u \in Runtimes /\ u.tasks = seen /\ u.active = r.active /\ u.detached = r.detached
      /\ u.orphans = r.orphans /\ u.pending = r.pending /\ u.paintOf = r.paintOf /\ u.timerOf = r.timerOf
      /\ u.status = r.status /\ u.fault = r.fault
  BY <1>2, <1>4 DEF Runtimes
<1> HIDE DEF u
<1>6. IsEased(r, u)
  BY <1>3, <1>4, <1>5 DEF IsEased, SameWork
<1>7. Sound(u) /\ Living(u) = Living(r)
  BY <1>6, Eased, EasedParts
<1>8. CASE ready = {}
  BY <1>1, <1>5, <1>7, <1>8
<1>9. CASE ready # {}
  <2>1. first \in ready /\ first \in DOMAIN r.tasks /\ Runnable(r, first) /\ Distance(r, first) \in Nat
    <3>1. ready \in SUBSET DOMAIN r.tasks
      OBVIOUS
    <3>2. first \in ready /\ Distance(r, first) \in Nat
      <4> HIDE DEF ready
      <4> QED
        BY <1>2, <1>9, <3>1, NearestReady
    <3> HIDE DEF first
    <3> QED
      BY <3>2
  <2>2. first \in scanned
    <3> HIDE DEF first, ready
    <3> QED
      BY <1>9, <2>1 DEF scanned
  <2> HIDE DEF first
  <2>3. Seen(first) = Looked(r, first)
    BY <2>2 DEF Seen
  <2> DEFINE t == r.tasks[first].timer
             task == [Seen(first) EXCEPT !.started = (t # Nobody)]
             once == t # Nobody /\ u.tasks[first].period = 0 /\ u.timerOf[t] = first /\ u.status[t] = "scheduled"
             ended == [begun EXCEPT !.timerOf[t] = 0, !.status[t] = "executed"]
  <2>4. t \in TimerOrNobody
    BY <1>2, <2>1, TaskFields
  <2>5. /\ task \in TaskRecords /\ task.timer = t /\ task.period = r.tasks[first].period
        /\ u.tasks[first] = Seen(first) /\ u.tasks[first].timer = t
        /\ u.tasks[first].period = r.tasks[first].period
    <3> DEFINE looked == Seen(first)
    <3>1. /\ looked \in TaskRecords /\ looked.timer = t /\ looked.period = r.tasks[first].period
          /\ u.tasks[first] = looked
      <4>1. looked \in TaskRecords /\ u.tasks[first] = looked
        BY <1>3, <1>4, <1>5, <2>1
      <4>2. SameWork(looked, r.tasks[first])
        BY <1>3, <1>4, <1>5, <2>1
      <4> QED
        BY <4>1, <4>2 DEF SameWork
    <3> HIDE DEF looked, t
    <3>2. LET begins == [looked EXCEPT !.started = (t # Nobody)]
          IN  begins \in TaskRecords /\ begins.timer = looked.timer /\ begins.period = looked.period
      BY <3>1 DEF TaskRecords
    <3> QED
      BY <3>1, <3>2 DEF looked
  <2>6. \A i \in DOMAIN r.tasks : Begun(i) = IF i = first THEN task ELSE Seen(i)
    OBVIOUS
  <2> HIDE DEF t, task, Begun
  <2>7. table \in Seq(TaskRecords) /\ DOMAIN table = DOMAIN r.tasks /\ table[first] = task
        /\ \A i \in DOMAIN r.tasks : i # first => table[i] = Seen(i)
    <3>1. table \in [1 .. Len(r.tasks) -> TaskRecords] /\ \A i \in DOMAIN r.tasks : table[i] = Begun(i)
      BY <1>2, <1>3, <2>5, <2>6
    <3> HIDE DEF table
    <3> QED
      BY <1>2, <2>1, <2>6, <3>1, TableType
  <2> HIDE DEF table
  <2>8. /\ begun \in Runtimes /\ begun.tasks = table /\ begun.active = r.active /\ begun.detached = r.detached
        /\ begun.orphans = r.orphans /\ begun.pending = r.pending /\ begun.paintOf = r.paintOf
        /\ begun.timerOf = r.timerOf /\ begun.status = r.status /\ begun.fault = r.fault
    BY <1>2, <2>7 DEF Runtimes
  <2> HIDE DEF begun
  <2>9. BeginJavaTimerTask(begun, first) = IF once THEN ended ELSE begun
    <3>1. /\ begun.tasks[first].timer = t /\ begun.tasks[first].period = u.tasks[first].period
          /\ begun.timerOf = u.timerOf /\ begun.status = u.status
      BY <1>5, <2>5, <2>7, <2>8
    <3>2. t \notin {Nobody} => (u.timerOf[t] # first \/ u.status[t] # "scheduled" \/ u.tasks[first].period # 0) = ~once
      OBVIOUS
    <3> QED
      BY <3>1, <3>2 DEF BeginJavaTimerTask
  <2>10. once => t \in TimerTasks
    BY <2>4 DEF TimerOrNobody
  <2>11. cursor \in Nat /\ first \in Refs
    <3>1. first \in Nat /\ Len(r.tasks) \in Nat /\ Len(r.tasks) > 0
      BY <1>2, <2>1
    <3> DEFINE n == Len(r.tasks)
    <3>2. first % n \in Nat
      <4> HIDE DEF n
      <4>1. first \in Nat /\ n \in Nat /\ n > 0
        BY <3>1 DEF n
      <4>2. first % n \in 0 .. n - 1
        BY <4>1
      <4> QED
        BY <4>1, <4>2
    <3> DEFINE m == first % n
    <3>3. cursor = m + 1
      OBVIOUS
    <3> HIDE DEF m, cursor
    <3>4. m \in Nat
      BY <3>2 DEF m
    <3>5. m + 1 \in Nat
      BY <3>4
    <3> QED
      BY <3>1, <3>3, <3>5 DEF Refs
  <2> HIDE DEF cursor
  <2>12. IsBegun(u, s, first) /\ s.fault = r.fault
    <3>1. CASE once
      <4>1. s = [ended EXCEPT !.active = first, !.cursor = cursor]
        BY <2>9, <3>1
      <4>2. /\ ended \in Runtimes /\ ended.tasks = table /\ ended.detached = r.detached
            /\ ended.orphans = r.orphans /\ ended.pending = r.pending /\ ended.paintOf = r.paintOf
            /\ ended.timerOf = [r.timerOf EXCEPT ![t] = 0] /\ ended.status = [r.status EXCEPT ![t] = "executed"]
            /\ ended.fault = r.fault
        BY <2>8, <2>10, <3>1 DEF Runtimes, Refs
      <4> HIDE DEF ended
      <4>3. /\ s \in Runtimes /\ s.tasks = table /\ s.active = first /\ s.detached = r.detached
            /\ s.orphans = r.orphans /\ s.pending = r.pending /\ s.paintOf = r.paintOf
            /\ s.timerOf = [r.timerOf EXCEPT ![t] = 0] /\ s.status = [r.status EXCEPT ![t] = "executed"]
            /\ s.fault = r.fault
        BY <2>11, <4>1, <4>2 DEF Runtimes
      <4> HIDE DEF s
      <4> QED
        BY <1>4, <1>5, <2>5, <2>7, <3>1, <4>3 DEF IsBegun, task
    <3>2. CASE ~once
      <4>1. s = [begun EXCEPT !.active = first, !.cursor = cursor]
        BY <2>9, <3>2
      <4>3. /\ s \in Runtimes /\ s.tasks = table /\ s.active = first /\ s.detached = r.detached
            /\ s.orphans = r.orphans /\ s.pending = r.pending /\ s.paintOf = r.paintOf
            /\ s.timerOf = r.timerOf /\ s.status = r.status /\ s.fault = r.fault
        BY <2>8, <2>11, <4>1 DEF Runtimes
      <4> HIDE DEF s
      <4> QED
        BY <1>4, <1>5, <2>5, <2>7, <3>2, <4>3 DEF IsBegun, task
    <3> QED
      BY <3>1, <3>2
  <2> HIDE DEF s
  <2>13. /\ u.tasks[first].blocker = 0 /\ u.tasks[first].join = Nobody /\ ~u.tasks[first].waits
         /\ u.tasks[first].wake = 0 /\ u.tasks[first].after = 0 /\ ~u.tasks[first].done
         /\ HasTheWorker(r, first)
    BY <2>1, <2>3, <2>5 DEF Runnable
  <2>14. first \in Living(u)
    BY <1>4, <1>5, <2>1, <2>13 DEF Living
  <2>15. ASSUME u.tasks[first].timer # Nobody, NEW j \in Living(u), u.tasks[j].timer # Nobody, u.tasks[j].started
         PROVE  u.tasks[first].started
    <3>1. /\ j \in Living(r) /\ r.tasks[j].timer # Nobody /\ r.tasks[j].started
          /\ r.tasks[first].timer # Nobody /\ u.tasks[first].started = r.tasks[first].started
      BY <1>2, <1>3, <1>4, <1>5, <1>7, <2>1, <2>15 DEF SameWork
    <3>2. r.tasks[first].started # r.tasks[j].started => r.tasks[first].started
      BY <2>13, <3>1 DEF HasTheWorker
    <3>3. r.tasks[first].started \in BOOLEAN
      BY <1>2, <2>1, TaskFields
    <3> QED
      BY <3>1, <3>2, <3>3
  <2>16. Running(s, {})
    BY <1>5, <1>7, <2>12, <2>13, <2>14, <2>15, BegunRunning
  <2>17. s.active # 0
    BY <2>16 DEF Running
  <2> QED
    BY <1>1, <1>9, <2>12, <2>16, <2>17
<1> QED
  BY <1>8, <1>9

-----------------------------------------------------------------------------
(* KTF: slices, and tasks that return or throw. *)

LEMMA InvSound ==
  ASSUME RuntimeInv(rt), rt.fault = "none"
  PROVE  Sound(rt) /\ (rt.active # 0 => Running(rt, {}))
  BY DEF RuntimeInv, Sound, Running

LEMMA InTaskRunning == ASSUME RuntimeInv(rt), InTask PROVE Running(rt, {}) /\ rt.fault = "none"
  BY InvSound DEF RuntimeInv, InTask

LEMMA SliceKeeps == ASSUME RuntimeInv(rt), NEW due, Slice(due) PROVE RuntimeInv(rt')
<1> DEFINE dropped == keysHeld > 0 /\ rt.display /\ ~CanAwaitEvents(rt)
           offered == keysHeld > 0 /\ ~dropped /\ CanQueueKeyEvent(rt)
           held == IF dropped \/ offered THEN keysHeld - 1 ELSE keysHeld
           bus == IF offered THEN Append(keysOnBus, due) ELSE keysOnBus
           waiting == held > 0
           told == [rt EXCEPT !.inputWaiting = waiting]
           delivered == bus # <<>> /\ Head(bus) <= rt.tick /\ CanQueueKeyEvent(told)
           keyed == IF delivered THEN QueueKeyEdge(told) ELSE told
           activated == ActivatePendingJavaCalls(keyed)
           called == ActivateDueWIPICTimers(activated)
           begun == BeginTask(called)
<1>1. rt' = IF begun.active = 0 THEN StopIfOver(EndSlice(begun)) ELSE begun
  BY Zenon DEF Slice
<1>2. Sound(rt) /\ rt.active = 0 /\ rt.fault = "none" /\ rt \in Runtimes
  BY InvSound DEF Slice, BetweenSlices, Sound
<1>3. waiting \in BOOLEAN
  OBVIOUS
<1>4. delivered => CanQueueKeyEvent(told)
  OBVIOUS
<1> HIDE DEF waiting, delivered
<1>5. IsAside(rt, told) /\ told.fault = "none"
  BY <1>2, <1>3 DEF IsAside, Runtimes
<1> HIDE DEF told
<1>6. Sound(told) /\ told.active = 0
  BY <1>2, <1>5, Aside DEF Good, IsAside
<1>7. Sound(keyed) /\ keyed.active = 0 /\ keyed.fault = "none"
  BY <1>4, <1>5, <1>6, KeyEdgeGood DEF Good, Keeps
<1> HIDE DEF keyed
<1>8. Sound(activated) /\ activated.active = 0 /\ activated.fault = "none"
  BY <1>7, ActivatePendingFollows DEF Follows, Keeps
<1> HIDE DEF activated
<1>9. Sound(called) /\ called.active = 0 /\ called.fault = "none"
  BY <1>8, ActivateDueGood DEF Good, Keeps
<1> HIDE DEF called
<1>10. /\ begun.fault = "none"
       /\ begun.active = 0 => Sound(begun)
       /\ begun.active # 0 => Running(begun, {})
  BY <1>9, BeginTaskRuns
<1> HIDE DEF begun
<1>11. CASE begun.active = 0
  <2>1. Leavable(begun)
    BY <1>10, <1>11 DEF Leavable, Sound
  <2> QED
    BY <1>1, <1>11, <2>1, SliceStops
<1>12. CASE begun.active # 0
  BY <1>1, <1>10, <1>12, RunningInv
<1> QED
  BY <1>11, <1>12

\* The running task is done now.
LEMMA FinishedIs ==
  ASSUME NEW r, Running(r, {})
  PROVE  LET s == WithActive(r, [ActiveTask(r) EXCEPT !.done = TRUE])
             t == ActiveTask(s).timer
         IN  /\ Sound(s) /\ s.active = r.active /\ s.active # 0
             /\ ActiveTask(s).done /\ ActiveTask(s).paint = ActiveTask(r).paint
             /\ t # Nobody /\ s.timerOf[t] = s.active => s.status[t] = "scheduled" /\ Unused(s, t)
             /\ \A i \in Living(s) : s.tasks[i].paint # Nobody => s.tasks[i].paint # ActiveTask(r).paint
<1> DEFINE p == r.active
           task == [ActiveTask(r) EXCEPT !.done = TRUE]
           s == WithTask(r, p, task)
           t == ActiveTask(r).timer
<1>1. /\ r \in Runtimes /\ p \in {Gone} \cup DOMAIN r.tasks /\ p # 0 /\ ActiveTask(r) \in TaskRecords
      /\ Gone \notin DOMAIN r.tasks /\ 0 \notin DOMAIN r.tasks /\ Gone # 0
      /\ Sound(r) /\ Core(r) /\ Marks(r)
  BY TableFields DEF Running, Sound, Core, Kinds, ActiveTask, TaskAt
<1>2. /\ task \in TaskRecords /\ task.done /\ task.timer = t /\ task.paint = ActiveTask(r).paint
      /\ task.blocker = ActiveTask(r).blocker /\ task.cards = ActiveTask(r).cards
      /\ ActiveTask(r).done => SameWork(task, ActiveTask(r))
      /\ ~ActiveTask(r).done => p \in Living(r)
  BY <1>1 DEF TaskRecords, SameWork, Running, ActiveFits
<1> HIDE DEF task
<1>3. /\ s \in Runtimes /\ DOMAIN s.tasks = DOMAIN r.tasks
      /\ s.active = r.active /\ s.orphans = r.orphans /\ s.pending = r.pending
      /\ s.paintOf = r.paintOf /\ s.timerOf = r.timerOf /\ s.status = r.status
      /\ TaskAt(s, p) = task
      /\ \A k \in {Gone} \cup DOMAIN r.tasks : k # p => TaskAt(s, k) = TaskAt(r, k)
  BY <1>1, <1>2, WithTaskIs
<1>4. WithActive(r, task) = s
  BY DEF WithActive
<1>5. p \notin {Gone} => p \in DOMAIN r.tasks /\ s.tasks[p] = task /\ r.tasks[p] = ActiveTask(r)
  BY <1>1, <1>3 DEF TaskAt, ActiveTask
<1>6. \A k \in DOMAIN r.tasks : k # p => s.tasks[k] = r.tasks[k]
  BY <1>1, <1>3 DEF TaskAt
<1>7. Living(s) = Living(r) \ {p} /\ \A k \in Living(s) : k \in DOMAIN r.tasks /\ s.tasks[k] = r.tasks[k]
  BY <1>2, <1>3, <1>5, <1>6, <1>1 DEF Living
<1>8. p \in Living(r) => p \in DOMAIN r.tasks /\ p # Gone /\ r.tasks[p] = ActiveTask(r)
  BY <1>1, <1>5 DEF Living
<1>9. Sound(s)
  <2>1. CASE ActiveTask(r).done
    <3>1. SameWork(task, TaskAt(r, p)) /\ task.blocker \in {0, TaskAt(r, p).blocker}
      BY <1>2, <2>1 DEF ActiveTask
    <3>2. IsEased(r, s)
      BY <1>1, <1>2, <3>1, WithTaskEased
    <3> QED
      BY <1>1, <3>2, Eased
  <2>2. CASE ~ActiveTask(r).done
    <3> HIDE DEF s
    <3>1. /\ p \in Living(r) /\ p \in DOMAIN r.tasks /\ p # Gone /\ s.tasks[p] = task
          /\ s.detached = r.detached
      BY <1>1, <1>2, <1>3, <1>5, <1>8, <2>2 DEF TaskAt
    <3>2. \A k \in DOMAIN r.tasks :
            /\ s.tasks[k].timer = r.tasks[k].timer /\ s.tasks[k].paint = r.tasks[k].paint
            /\ s.tasks[k].blocker = r.tasks[k].blocker /\ s.tasks[k].cards = r.tasks[k].cards
            /\ k # p => s.tasks[k] = r.tasks[k]
      BY <1>2, <1>5, <1>6, <3>1
    <3>3. Kinds(s)
      BY <1>1, <1>3, <3>1, <3>2 DEF Core, Kinds
    <3>4. Turns(s) /\ Paints(s)
      BY <1>1, <1>3, <1>7 DEF Core, Turns, Paints
    <3>5. Pointers(s)
      BY <1>1, <1>3, <3>2 DEF Core, Pointers
    <3>6. Callbacks(s) /\ WaitingTimers(s)
      BY <1>1, <1>3, <1>7 DEF Core, Callbacks, Known, WaitingTimers
    <3>7. Blocks(s)
      <4> SUFFICES ASSUME NEW k \in DOMAIN s.tasks, s.tasks[k].blocker # 0, s.tasks[k].blocker # s.active
                   PROVE  s.tasks[k].blocker \in Living(s) /\ Free(s.tasks[s.tasks[k].blocker])
        BY DEF Blocks
      <4>1. r.tasks[k].blocker \in Living(r) /\ Free(r.tasks[r.tasks[k].blocker]) /\ r.tasks[k].blocker # p
        BY <1>1, <1>3, <3>2 DEF Core, Blocks
      <4> QED
        BY <1>3, <1>7, <3>2, <4>1
    <3>8. PaintPlaces(s)
      <4> SUFFICES ASSUME NEW c \in Cards, s.paintOf[c] # 0
                   PROVE  /\ s.paintOf[c] = s.active \/ s.paintOf[c] \in Living(s)
                          /\ TaskAt(s, s.paintOf[c]).paint = c
        BY DEF PaintPlaces
      <4>1. (r.paintOf[c] = p \/ r.paintOf[c] \in Living(r)) /\ TaskAt(r, r.paintOf[c]).paint = c
        BY <1>1, <1>3 DEF Marks, PaintPlaces
      <4>2. r.paintOf[c] \in DOMAIN r.tasks /\ r.paintOf[c] # Gone
        BY <1>1, <3>1, <4>1 DEF Living
      <4> QED
        BY <1>3, <1>7, <3>2, <4>1, <4>2 DEF TaskAt
    <3>9. Leftovers(s)
      BY <1>1, <1>3, <3>2 DEF Marks, Leftovers, Cancelled
    <3> QED
      BY <1>3, <3>3, <3>4, <3>5, <3>6, <3>7, <3>8, <3>9 DEF Sound, Core, Marks
  <2> QED
    BY <2>1, <2>2
<1>10. ActiveTask(s) = task
  BY <1>3 DEF ActiveTask
<1>11. ASSUME t # Nobody, s.timerOf[t] = s.active PROVE s.status[t] = "scheduled" /\ Unused(s, t)
  <2>1. r.timerOf[t] = p /\ t \in TimerTasks
    BY <1>1, <1>3, <1>11, TaskFields DEF TimerOrNobody
  <2>2. ~ActiveTask(r).done
    <3> SUFFICES ASSUME ActiveTask(r).done PROVE FALSE
      BY <1>1, TaskFields
    <3>1. p \notin Living(r)
      BY <1>8 DEF Living
    <3>2. r.timerOf[t] = 0
      BY <3>1 DEF Running, ActiveFits
    <3> QED
      BY <1>1, <2>1, <3>2
  <2>3. p \in Living(r) /\ r.tasks[p].timer = t
    BY <1>2, <1>8, <2>2
  <2>4. Known(r, p)
    BY <1>1, <1>11, <2>3 DEF Core, Callbacks
  <2>5. r.status[t] = "scheduled"
    BY <1>1, <2>1, <2>3, <2>4 DEF Known
  <2>6. \A j \in Living(s) : s.tasks[j].timer # t
    BY <1>1, <1>7, <1>11, <2>3 DEF Core, Callbacks
  <2>7. \A k \in DOMAIN r.pending : r.pending[k].timer # t
    BY <1>1, <1>11, <2>3 DEF Core, WaitingTimers
  <2> QED
    BY <1>3, <2>5, <2>6, <2>7 DEF Unused
<1>12. ASSUME NEW i \in Living(s), s.tasks[i].paint # Nobody PROVE s.tasks[i].paint # ActiveTask(r).paint
  <2> SUFFICES ASSUME s.tasks[i].paint = ActiveTask(r).paint PROVE FALSE
    OBVIOUS
  <2>1. i \in Living(r) /\ i # p /\ r.tasks[i].paint # Nobody /\ r.tasks[i].paint = ActiveTask(r).paint
    BY <1>7, <1>12
  <2>2. CASE p \in Living(r)
    BY <1>1, <1>8, <2>1, <2>2 DEF Core, Paints
  <2>3. CASE p \notin Living(r)
    <3>1. t \in TimerTasks
      BY <2>3 DEF Running, ActiveFits
    <3>2. ActiveTask(r).paint = Nobody
      BY <1>1, <3>1, TasksAssumption DEF Core, Kinds, ActiveTask, TaskAt
    <3> QED
      BY <2>1, <3>2
  <2> QED
    BY <2>2, <2>3
<1> HIDE DEF s
<1> QED
  BY <1>1, <1>2, <1>3, <1>4, <1>9, <1>10, <1>11, <1>12 DEF task

\* A task that is done and has let go of everything leaves nothing.
LEMMA DoneLeavable ==
  ASSUME NEW r, Sound(r), r.active # 0, ActiveTask(r).done, Quiet(r),
         r.fault = "none" => Unmarked(r) /\ ActiveTask(r).cards = <<>>
  PROVE  Leavable(r)
  BY DEF Leavable, Sound

LEMMA LayoutGood == ASSUME NEW r, Sound(r) PROVE Good(r, LayoutOnReturn(r))
  BY GoodSelf, PlainGood, FailGood DEF LayoutOnReturn

LEMMA NotLiving ==
  ASSUME NEW r, r \in Runtimes, ActiveTask(r).done PROVE r.active \notin Living(r)
  BY TableFields DEF ActiveTask, TaskAt, Living

LEMMA PresentGood ==
  ASSUME NEW r, Sound(r), r.active # 0, ActiveTask(r).done, Quiet(r),
         r.fault = "none" => ActiveTask(r).cards = <<>>
  PROVE  Leavable(PresentOnReturn(r))
<1> DEFINE c == ActiveTask(r).paint
           paintOf == [r.paintOf EXCEPT ![c] = IF @ = r.active THEN 0 ELSE @]
           painted == r.painted \cup {c}
           bare == [r EXCEPT !.paintOf = paintOf]
           s == [r EXCEPT !.painted = painted, !.presented = TRUE, !.paintOf = paintOf]
<1>1. /\ r \in Runtimes /\ r.active \in {Gone} \cup DOMAIN r.tasks /\ ActiveTask(r) \in TaskRecords
      /\ r.paintOf \in [Cards -> Refs] /\ r.painted \in SUBSET Cards /\ c \in CardOrNobody
  BY TableFields, TaskFields, RuntimeFields DEF Sound, Core, Kinds, ActiveTask, TaskAt, Runtimes
<1>2. PresentOnReturn(r) = IF c = Nobody \/ r.fault # "none" THEN r ELSE s
  BY DEF PresentOnReturn
<1>3. \A d \in Cards : r.paintOf[d] = r.active => d = c
  BY DEF Sound, Marks, PaintPlaces, ActiveTask
<1> HIDE DEF c
<1>4. CASE c = Nobody \/ r.fault # "none"
  <2>1. r.fault = "none" => Unmarked(r)
    BY <1>3, <1>4, TasksAssumption DEF Unmarked
  <2> QED
    BY <1>2, <1>4, <2>1, DoneLeavable
<1>5. CASE c # Nobody /\ r.fault = "none"
  <2>1. c \in Cards
    BY <1>1, <1>5 DEF CardOrNobody
  <2>2. paintOf \in [Cards -> Refs] /\ painted \in SUBSET Cards
    BY <1>1, <2>1 DEF Refs
  <2>3. ASSUME r.paintOf[c] = r.active, NEW i \in Living(r) PROVE r.tasks[i].paint # c
    BY <1>1, <1>5, <2>3, NotLiving DEF Sound, Core, Paints
  <2>4. \A d \in Cards : \/ paintOf[d] = r.paintOf[d]
                         \/ paintOf[d] = 0 /\ \A i \in Living(r) : r.tasks[i].paint # d
    BY <1>1, <2>1, <2>3
  <2>5. \A d \in Cards : paintOf[d] # r.active
    BY <1>1, <1>3, <2>1
  <2> HIDE DEF paintOf, painted
  <2>6. Good(r, bare)
    BY <2>2, <2>4, Unpainted
  <2>7. /\ bare \in Runtimes /\ s \in Runtimes /\ IsAside(bare, s)
        /\ s.paintOf = paintOf /\ s.active = r.active
    BY <1>1, <2>2 DEF Runtimes, IsAside
  <2> HIDE DEF bare, s
  <2>8. Good(r, s)
    BY <2>6, <2>7, Aside, GoodChain DEF Good
  <2>9. Unmarked(s)
    BY <2>5, <2>7 DEF Unmarked
  <2>10. Sound(s) /\ s.active # 0 /\ ActiveTask(s).done /\ Quiet(s) /\ ActiveTask(s).cards = <<>>
    BY <1>5, <2>8 DEF Good, Keeps
  <2> QED
    BY <1>2, <1>5, <2>9, <2>10, DoneLeavable
<1> QED
  BY <1>4, <1>5

LEMMA TaskReturnsKeeps == ASSUME RuntimeInv(rt), TaskReturns PROVE RuntimeInv(rt')
<1> DEFINE finished == WithActive(rt, [ActiveTask(rt) EXCEPT !.done = TRUE])
           completed == CompleteJavaTimerTask(finished)
           released == ReleaseStartedThreads(completed, completed.active)
           laidOut == LayoutOnReturn(released)
           painted == IF laidOut.fault # "none" THEN laidOut
                      ELSE ReleaseDeferredCardPaints(laidOut, laidOut.active)
<1>1. rt' = StopIfOver(EndSlice(PresentOnReturn(painted))) /\ InTask
  BY Zenon DEF TaskReturns
<1>2. Running(rt, {})
  BY <1>1, InTaskRunning
<1>3. /\ Sound(finished) /\ finished.active # 0 /\ ActiveTask(finished).done
      /\ ActiveTask(finished).timer # Nobody /\ finished.timerOf[ActiveTask(finished).timer] = finished.active =>
           finished.status[ActiveTask(finished).timer] = "scheduled" /\ Unused(finished, ActiveTask(finished).timer)
  BY <1>2, FinishedIs
<1> HIDE DEF finished
<1>4. Follows(finished, completed)
  BY <1>3, CompleteFollows
<1> HIDE DEF completed
<1>5. Sound(completed) /\ completed.active # 0 /\ ActiveTask(completed).done
      /\ completed.active \in {Gone} \cup DOMAIN completed.tasks
  BY <1>3, <1>4 DEF Follows, Keeps, Sound, Core, Kinds
<1>6. Good(completed, released) /\ released.active = completed.active /\ Quiet(released)
  BY <1>5, ReleaseStartedGood
<1> HIDE DEF released
<1>7. Good(released, laidOut)
  BY <1>6, LayoutGood DEF Good
<1> HIDE DEF laidOut
<1>8. Sound(laidOut) /\ laidOut.active # 0 /\ ActiveTask(laidOut).done /\ Quiet(laidOut)
      /\ laidOut.active \in {Gone} \cup DOMAIN laidOut.tasks
  BY <1>5, <1>6, <1>7 DEF Good, Keeps, Sound, Core, Kinds
<1>9. /\ Sound(painted) /\ painted.active # 0 /\ ActiveTask(painted).done /\ Quiet(painted)
      /\ painted.fault = "none" => ActiveTask(painted).cards = <<>>
  <2>1. CASE laidOut.fault # "none"
    BY <1>8, <2>1
  <2>2. CASE laidOut.fault = "none"
    <3> DEFINE u == ReleaseDeferredCardPaints(laidOut, laidOut.active)
    <3>1. Good(laidOut, u) /\ ActiveTask(u).cards = <<>>
      BY <1>8, ReleaseDeferredGood
    <3>2. painted = u
      BY <2>2
    <3> HIDE DEF u, painted
    <3> QED
      BY <1>8, <3>1, <3>2 DEF Good, Keeps
  <2> QED
    BY <2>1, <2>2
<1> HIDE DEF painted
<1> QED
  BY <1>1, <1>9, PresentGood, SliceStops

\* What the task's threads waited for is over, and so are its own cards.
LEMMA TerminatedLeavable ==
  ASSUME NEW r, Sound(r), r.active # 0, ActiveTask(r).done
  PROVE  Leavable(ReleaseTerminatedTask(r, r.active))
<1> DEFINE p == r.active
           released == ReleaseStartedThreads(r, p)
           cleared == WithTask(released, p, [TaskAt(released, p) EXCEPT !.cards = <<>>, !.shown = {}])
           paintOf == [c \in Cards |-> IF cleared.paintOf[c] = p THEN 0 ELSE cleared.paintOf[c]]
           s == [cleared EXCEPT !.paintOf = paintOf]
<1>1. ReleaseTerminatedTask(r, p) = s
  BY DEF ReleaseTerminatedTask
<1>2. p \in {Gone} \cup DOMAIN r.tasks
  BY DEF Sound, Core, Kinds
<1>3. Good(r, released) /\ released.active = p /\ DOMAIN released.tasks = DOMAIN r.tasks /\ Quiet(released)
  BY <1>2, ReleaseStartedGood
<1> HIDE DEF released
<1>4. Good(released, cleared) /\ cleared.active = p /\ TaskAt(cleared, p).cards = <<>>
  BY <1>2, <1>3, ClearedGood DEF Good
<1> HIDE DEF cleared
<1>5. Sound(cleared) /\ ActiveTask(cleared).done /\ Quiet(cleared) /\ ActiveTask(cleared).cards = <<>>
      /\ cleared \in Runtimes
  BY <1>3, <1>4 DEF Good, Keeps, ActiveTask, Sound
<1>6. paintOf \in [Cards -> Refs]
  BY <1>5, RuntimeFields DEF Refs
<1>7. \A c \in Cards : \/ paintOf[c] = cleared.paintOf[c]
                       \/ paintOf[c] = 0 /\ \A i \in Living(cleared) : cleared.tasks[i].paint # c
  <2> SUFFICES ASSUME NEW c \in Cards, cleared.paintOf[c] = p, NEW i \in Living(cleared)
               PROVE  cleared.tasks[i].paint # c
    OBVIOUS
  <2>1. i # p
    BY <1>4, <1>5, NotLiving
  <2> QED
    BY <1>5, <2>1, TasksAssumption DEF Sound, Core, Paints
<1>8. \A c \in Cards : paintOf[c] # p
  OBVIOUS
<1> HIDE DEF paintOf
<1>9. Good(cleared, s)
  BY <1>5, <1>6, <1>7, Unpainted
<1>10. s.active = p /\ s.paintOf = paintOf
  BY <1>4, <1>5 DEF Runtimes
<1> HIDE DEF s
<1>11. Unmarked(s)
  BY <1>8, <1>10 DEF Unmarked
<1>12. Sound(s) /\ s.active # 0 /\ ActiveTask(s).done /\ Quiet(s) /\ ActiveTask(s).cards = <<>>
  BY <1>4, <1>5, <1>9, <1>10 DEF Good, Keeps
<1>13. Leavable(s)
  BY <1>11, <1>12, DoneLeavable
<1> QED
  BY <1>1, <1>13

LEMMA TaskThrowsKeeps == ASSUME RuntimeInv(rt), TaskThrows PROVE RuntimeInv(rt')
<1> DEFINE task == ActiveTask(rt)
           finished == WithActive(rt, [task EXCEPT !.done = TRUE])
           released == ReleaseStartedThreads(finished, rt.active)
           discarded == [released EXCEPT !.paintOf[task.paint] = 0]
           u == IF task.bestEffort THEN ReleaseDeferredCardPaints(discarded, rt.active)
                ELSE IF Living(finished) # {} \/ rt.presented THEN ReleaseTerminatedTask(finished, rt.active)
                ELSE Fail(rt, "exception")
<1>1. rt' = StopIfOver(EndSlice(u)) /\ InTask
  BY Zenon DEF TaskThrows
<1>2. Running(rt, {}) /\ Sound(rt)
  BY <1>1, InTaskRunning DEF Running
<1>3. /\ Sound(finished) /\ finished.active = rt.active /\ finished.active # 0 /\ ActiveTask(finished).done
      /\ ActiveTask(finished).paint = task.paint
      /\ \A i \in Living(finished) : finished.tasks[i].paint # Nobody => finished.tasks[i].paint # task.paint
  BY <1>2, FinishedIs
<1>4. task.paint \in CardOrNobody
  BY <1>2, TableFields, TaskFields DEF Sound, Core, Kinds, Running, ActiveTask, TaskAt
<1> HIDE DEF finished, task
<1>5. CASE task.bestEffort
  <2>1. finished.active \in {Gone} \cup DOMAIN finished.tasks
    BY <1>3 DEF Sound, Core, Kinds
  <2>2. Good(finished, released) /\ released.active = rt.active /\ Quiet(released)
    BY <1>3, <2>1, ReleaseStartedGood
  <2>3. Living(released) = Living(finished) /\ \A i \in Living(finished) : released.tasks[i].paint = finished.tasks[i].paint
    <3>1. /\ DOMAIN released.tasks = DOMAIN finished.tasks
          /\ \A k \in {Gone} \cup DOMAIN finished.tasks : SameWork(TaskAt(released, k), TaskAt(finished, k))
      BY <1>3, <2>1, ReleaseStartedIs DEF Sound
    <3>2. Gone \notin DOMAIN finished.tasks
      BY <1>3, TableFields DEF Sound
    <3> HIDE DEF released
    <3>3. \A k \in DOMAIN finished.tasks : SameWork(released.tasks[k], finished.tasks[k])
      BY <3>1, <3>2 DEF TaskAt
    <3> QED
      BY <3>1, <3>3 DEF Living, SameWork
  <2> HIDE DEF released
  <2> DEFINE paintOf == [released.paintOf EXCEPT ![task.paint] = 0]
  <2>4. released \in Runtimes /\ Sound(released) /\ released.paintOf \in [Cards -> Refs]
    BY <2>2, RuntimeFields DEF Good, Sound
  <2>5. paintOf \in [Cards -> Refs]
    BY <2>4 DEF Refs
  <2>6. \A c \in Cards : \/ paintOf[c] = released.paintOf[c]
                         \/ paintOf[c] = 0 /\ \A i \in Living(released) : released.tasks[i].paint # c
    BY <1>3, <2>3, <2>4, TasksAssumption
  <2>7. \A c \in Cards : paintOf[c] # rt.active
    <3> SUFFICES ASSUME NEW c \in Cards, c # task.paint, released.paintOf[c] = rt.active PROVE FALSE
      BY <1>3, <2>4
    <3>1. TaskAt(released, released.active).paint = c
      BY <1>3, <2>2, <2>4 DEF Sound, Marks, PaintPlaces
    <3>2. ActiveTask(released).paint = task.paint
      BY <1>3, <2>2 DEF Good, Keeps
    <3> QED
      BY <3>1, <3>2 DEF ActiveTask
  <2>8. discarded = [released EXCEPT !.paintOf = paintOf]
    OBVIOUS
  <2> HIDE DEF paintOf
  <2>9. Good(released, discarded)
    BY <2>4, <2>5, <2>6, <2>8, Unpainted
  <2>10. discarded.active = rt.active /\ discarded.paintOf = paintOf
    BY <2>2, <2>4, <2>8 DEF Runtimes
  <2> HIDE DEF discarded
  <2>11. Unmarked(discarded)
    BY <2>7, <2>10 DEF Unmarked
  <2>12. /\ Sound(discarded) /\ ActiveTask(discarded).done /\ Quiet(discarded)
         /\ discarded.active \in {Gone} \cup DOMAIN discarded.tasks /\ discarded.active # 0
    BY <1>3, <2>2, <2>9, <2>10 DEF Good, Keeps, Sound, Core, Kinds
  <2> DEFINE s == ReleaseDeferredCardPaints(discarded, discarded.active)
  <2>13. Good(discarded, s) /\ ActiveTask(s).cards = <<>>
    BY <2>12, ReleaseDeferredGood
  <2>14. u = s
    BY <1>5, <2>10
  <2> HIDE DEF s, u
  <2>15. Leavable(s)
    BY <2>11, <2>12, <2>13, DoneLeavable DEF Good, Keeps
  <2> QED
    BY <1>1, <2>14, <2>15, SliceStops
<1>6. CASE ~task.bestEffort /\ (Living(finished) # {} \/ rt.presented)
  <2>1. u = ReleaseTerminatedTask(finished, finished.active)
    BY <1>3, <1>6
  <2>2. Leavable(u)
    BY <1>3, <2>1, TerminatedLeavable
  <2> QED
    BY <1>1, <2>2, SliceStops
<1>7. CASE ~task.bestEffort /\ ~(Living(finished) # {} \/ rt.presented)
  <2>1. u = Fail(rt, "exception")
    BY <1>7
  <2>2. Running(u, {})
    BY <1>2, <2>1, FailGood, GoodRunning
  <2>3. Leavable(u)
    BY <2>2, FitsLeavable DEF Running
  <2> QED
    BY <1>1, <2>3, SliceStops
<1> QED
  BY <1>5, <1>6, <1>7

-----------------------------------------------------------------------------
(* KTF: threads and cards. *)

LEMMA ContinueKeeps == ASSUME NEW r, Running(r, {}), Continue(r) PROVE RuntimeInv(rt')
  BY RunningGoesOn DEF Continue

LEMMA AsideRunning ==
  ASSUME NEW r, NEW s, NEW C, Running(r, C), IsAside(r, s) PROVE Running(s, C)
  BY Aside, GoodRunning DEF Running

\* A call after which the task gives its turn away, whatever it set of its own.
LEMMA ParkedYields ==
  ASSUME RuntimeInv(rt), NEW task \in TaskRecords, InTask,
         SameWork(task, ActiveTask(rt)), task.blocker = ActiveTask(rt).blocker,
         Yield(WithActive(rt, task))
  PROVE  RuntimeInv(rt')
<1> DEFINE s == WithActive(rt, task)
<1>1. Running(rt, {}) /\ rt.active \in {Gone} \cup DOMAIN rt.tasks
  BY InTaskRunning DEF Running, Sound, Core, Kinds
<1>2. IsEased(rt, s)
  BY <1>1, WithTaskEased DEF WithActive, ActiveTask, Running
<1> HIDE DEF s
<1>3. Sound(s) /\ Steady(rt, s) /\ Living(s) = Living(rt)
  BY <1>1, <1>2, Eased, EasedParts DEF Running
<1>4. s.active = rt.active /\ SameWork(ActiveTask(s), ActiveTask(rt))
  <2>1. s.active = rt.active
    BY <1>2 DEF IsEased
  <2> QED
    BY <1>1, <1>2, <2>1, EasedParts DEF ActiveTask, Running
<1>5. Quiet(rt) => Quiet(s)
  BY <1>1, <1>2 DEF Quiet, IsEased, Running
<1>6. s.active # 0 /\ ActiveFits(s, {})
  BY <1>1, <1>3, <1>4, <1>5 DEF Running, ActiveFits, SameWork, Steady
<1> QED
  BY <1>3, <1>6, YieldKeeps DEF Yield, s

LEMMA ActiveType ==
  ASSUME RuntimeInv(rt), InTask
  PROVE  /\ rt \in Runtimes /\ rt.active \in {Gone} \cup DOMAIN rt.tasks
         /\ ActiveTask(rt) \in TaskRecords
<1>1. rt \in Runtimes /\ rt.active \in {Gone} \cup DOMAIN rt.tasks
  BY InTaskRunning DEF Running, Sound, Core, Kinds
<1> QED
  BY <1>1, TableFields DEF ActiveTask, TaskAt

LEMMA JoinKeeps ==
  ASSUME RuntimeInv(rt), NEW h \in JavaThreads, JoinJavaThread(h) PROVE RuntimeInv(rt')
<1> DEFINE task == [ActiveTask(rt) EXCEPT !.join = h]
<1>1. ActiveTask(rt) \in TaskRecords /\ InTask
  BY ActiveType DEF JoinJavaThread
<1>2. task \in TaskRecords /\ SameWork(task, ActiveTask(rt)) /\ task.blocker = ActiveTask(rt).blocker
  BY <1>1 DEF TaskRecords, SameWork, ThreadOrNobody
<1>3. Yield(WithActive(rt, task))
  BY DEF JoinJavaThread
<1> HIDE DEF task
<1> QED
  BY <1>1, <1>2, <1>3, ParkedYields

LEMMA SleepKeeps ==
  ASSUME RuntimeInv(rt), NEW delay \in {0, 1}, SleepThread(delay) PROVE RuntimeInv(rt')
<1> DEFINE old == ActiveTask(rt)
           wake == IF delay = 0 THEN old.wake ELSE rt.tick + delay
           task == [old EXCEPT !.wake = wake]
<1>1. old \in TaskRecords /\ InTask /\ rt \in Runtimes
  BY ActiveType DEF SleepThread
<1>2. Yield(WithActive(rt, task))
  BY DEF SleepThread
<1> HIDE DEF old
<1>3. wake \in Nat
  BY <1>1 DEF TaskRecords, Runtimes
<1> HIDE DEF wake
<1>4. task \in TaskRecords /\ SameWork(task, old) /\ task.blocker = old.blocker
  BY <1>1, <1>3 DEF TaskRecords, SameWork
<1> HIDE DEF task
<1> QED
  BY <1>1, <1>2, <1>4, ParkedYields DEF old

LEMMA WaitKeeps ==
  ASSUME RuntimeInv(rt), NEW delay \in {0, 1}, WaitJavaObject(delay) PROVE RuntimeInv(rt')
<1> DEFINE old == ActiveTask(rt)
           wake == IF delay = 0 THEN 0 ELSE rt.tick + delay
           task == [old EXCEPT !.waits = TRUE, !.wake = wake]
<1>1. old \in TaskRecords /\ InTask /\ rt \in Runtimes
  BY ActiveType DEF WaitJavaObject
<1>2. Yield(WithActive(rt, task))
  BY DEF WaitJavaObject
<1> HIDE DEF old
<1>3. wake \in Nat
  BY <1>1 DEF Runtimes
<1> HIDE DEF wake
<1>4. task \in TaskRecords /\ SameWork(task, old) /\ task.blocker = old.blocker
  BY <1>1, <1>3 DEF TaskRecords, SameWork
<1> HIDE DEF task
<1> QED
  BY <1>1, <1>2, <1>4, ParkedYields DEF old

\* A call that sets only fields the invariant does not read, and yields.
LEMMA AsideYields ==
  ASSUME RuntimeInv(rt), NEW s, InTask, IsAside(rt, s), Yield(s) PROVE RuntimeInv(rt')
<1>1. Running(s, {})
  BY InTaskRunning, AsideRunning
<1> QED
  BY <1>1, YieldKeeps DEF Yield, Running

LEMMA AsideContinues ==
  ASSUME RuntimeInv(rt), NEW s, IsAside(rt, s), Continue(s) PROVE RuntimeInv(rt')
<1>1. InTask
  BY DEF Continue
<1>2. Running(s, {})
  BY <1>1, InTaskRunning, AsideRunning
<1> QED
  BY <1>2, ContinueKeeps

LEMMA BudgetKeeps ==
  ASSUME RuntimeInv(rt), NEW graceSpent \in BOOLEAN, BudgetEnds(graceSpent) PROVE RuntimeInv(rt')
<1>1. Running(rt, {}) /\ rt.active \in {Gone} \cup DOMAIN rt.tasks
  BY InTaskRunning DEF BudgetEnds, Running, Sound, Core, Kinds
<1>2. Running(ReleaseStartedThreads(rt, rt.active), {})
  BY <1>1, ReleaseStartedGood, GoodRunning DEF Running
<1> QED
  BY <1>1, <1>2, RunningGoesOn DEF BudgetEnds

LEMMA NotifyKeeps ==
  ASSUME RuntimeInv(rt), NEW all \in BOOLEAN, NotifyJavaObject(all) PROVE RuntimeInv(rt')
<1> DEFINE waiters == {i \in Living(rt) : rt.tasks[i].waits}
           woken == IF all THEN waiters ELSE {i \in waiters : \A j \in waiters : i <= j}
           Woken(i) == IF i \in woken THEN [rt.tasks[i] EXCEPT !.waits = FALSE, !.wake = 0] ELSE rt.tasks[i]
           tasks == [i \in DOMAIN rt.tasks |-> Woken(i)]
           s == [rt EXCEPT !.tasks = tasks]
<1>1. Continue(s)
  BY DEF NotifyJavaObject
<1> HIDE DEF woken
<1>2. Running(rt, {}) /\ rt \in Runtimes
  BY <1>1, InTaskRunning DEF Continue, Running, Sound
<1>3. Len(rt.tasks) \in Nat /\ DOMAIN rt.tasks = 1 .. Len(rt.tasks)
      /\ \A i \in DOMAIN rt.tasks : rt.tasks[i] \in TaskRecords
  BY <1>2, TableFields
<1>4. \A i \in DOMAIN rt.tasks :
        /\ Woken(i) \in TaskRecords /\ SameWork(Woken(i), rt.tasks[i])
        /\ Woken(i).blocker = rt.tasks[i].blocker /\ Woken(i).cards = rt.tasks[i].cards
        /\ Free(rt.tasks[i]) => Free(Woken(i))
  <2> SUFFICES ASSUME NEW i \in DOMAIN rt.tasks
               PROVE  /\ Woken(i) \in TaskRecords /\ SameWork(Woken(i), rt.tasks[i])
                      /\ Woken(i).blocker = rt.tasks[i].blocker /\ Woken(i).cards = rt.tasks[i].cards
                      /\ Free(rt.tasks[i]) => Free(Woken(i))
    OBVIOUS
  <2>1. CASE i \in woken
    BY <1>3, <2>1 DEF TaskRecords, SameWork, Free
  <2>2. CASE i \notin woken
    BY <1>3, <2>2 DEF SameWork
  <2> QED
    BY <2>1, <2>2
<1> HIDE DEF Woken
<1>5. tasks \in Seq(TaskRecords) /\ DOMAIN tasks = DOMAIN rt.tasks /\ \A i \in DOMAIN rt.tasks : tasks[i] = Woken(i)
  <2>1. tasks \in [1 .. Len(rt.tasks) -> TaskRecords] /\ \A i \in DOMAIN rt.tasks : tasks[i] = Woken(i)
    BY <1>3, <1>4
  <2> HIDE DEF tasks
  <2> QED
    BY <1>3, <2>1, TableType
<1> HIDE DEF tasks
<1>6. /\ s \in Runtimes /\ s.tasks = tasks /\ s.active = rt.active /\ s.detached = rt.detached
      /\ s.orphans = rt.orphans /\ s.pending = rt.pending /\ s.paintOf = rt.paintOf /\ s.timerOf = rt.timerOf
      /\ s.status = rt.status
  BY <1>2, <1>5 DEF Runtimes
<1> HIDE DEF s
<1>7. IsEased(rt, s)
  BY <1>4, <1>5, <1>6 DEF IsEased, SameWork
<1>8. ActiveFree(s)
  BY <1>2, <1>4, <1>5, <1>6, <1>7, EasedParts DEF ActiveFree, Running, Living
<1>9. Running(s, {})
  BY <1>2, <1>7, <1>8, EasedRunning
<1> QED
  BY <1>1, <1>9, ContinueKeeps

LEMMA StartKeeps ==
  ASSUME RuntimeInv(rt), NEW h \in JavaThreads, StartJavaThread(h) PROVE RuntimeInv(rt')
<1> DEFINE started == [rt EXCEPT !.threads = @ \cup {h}]
           place == FreePlace(rt, BackgroundLimit)
           thread == [PlainTask EXCEPT !.thread = h]
           parent == ActiveTask(rt)
           held == [thread EXCEPT !.blocker = rt.active]
           grace == [parent EXCEPT !.grace = TRUE]
           graced == WithActive(started, grace)
           s == IF place = 0 THEN Deferred(started, PendingCall(h))
                ELSE IF parent.done THEN Queued(started, BackgroundLimit, thread)
                ELSE Queued(graced, BackgroundLimit, held)
<1>1. InTask /\ Continue(s)
  BY DEF StartJavaThread
<1>2. Running(rt, {}) /\ rt \in Runtimes /\ rt.active \in {Gone} \cup DOMAIN rt.tasks
      /\ ActiveTask(rt) \in TaskRecords
  BY <1>1, InTaskRunning, ActiveType
<1>3. IsAside(rt, started)
  BY <1>2 DEF IsAside, Runtimes
<1> HIDE DEF started
<1>4. Running(started, {}) /\ ActiveTask(started) = parent /\ started.active = rt.active
      /\ FreePlace(started, BackgroundLimit) = place /\ started.tasks = rt.tasks /\ started \in Runtimes
  BY <1>2, <1>3, AsideRunning DEF IsAside, ActiveTask, TaskAt, FreePlace
<1>5. Sound(started)
  BY <1>4 DEF Running
<1>6. CASE place = 0
  <2>1. PendingCall(h) \in CallRecords /\ PendingCall(h).timer = Nobody
    BY DEF PendingCall, CallRecords, ThreadOrNobody, TimerOrNobody
  <2>2. Follows(started, Deferred(started, PendingCall(h)))
    BY <1>5, <2>1, DeferredFollows
  <2>3. Running(s, {})
    BY <1>4, <1>6, <2>2, FollowsRunning
  <2> QED
    BY <1>1, <2>3, ContinueKeeps
<1>7. h \in ThreadOrNobody
  BY DEF ThreadOrNobody
<1>8. CASE place # 0 /\ parent.done
  <2>1. Good(started, Queued(started, BackgroundLimit, thread))
    BY <1>4, <1>5, <1>7, <1>8, ThreadFits, QueuedGood, Limits
  <2>2. Running(s, {})
    BY <1>4, <1>8, <2>1, GoodRunning
  <2> QED
    BY <1>1, <2>2, ContinueKeeps
<1>9. CASE place # 0 /\ ~parent.done
  <2>1. grace \in TaskRecords /\ SameWork(grace, parent) /\ grace.blocker = parent.blocker
        /\ (Free(parent) => Free(grace))
    BY <1>2 DEF TaskRecords, SameWork, Free
  <2> HIDE DEF grace
  <2>2. Running(graced, {})
    BY <1>4, <2>1, ActiveChanges
  <2>3. rt.active \in Living(rt)
    BY <1>2, <1>9 DEF Running, ActiveFits
  <2>4. /\ graced \in Runtimes /\ DOMAIN graced.tasks = DOMAIN rt.tasks
        /\ graced.active = rt.active
        /\ TaskAt(graced, rt.active) = grace
        /\ \A k \in {Gone} \cup DOMAIN rt.tasks : k # rt.active => TaskAt(graced, k) = TaskAt(rt, k)
    <3>1. \A k : TaskAt(started, k) = TaskAt(rt, k)
      BY <1>3 DEF TaskAt, IsAside
    <3>2. graced = WithTask(started, rt.active, grace)
      BY <1>4 DEF WithActive
    <3> HIDE DEF graced
    <3>3. rt.active \in {Gone} \cup DOMAIN started.tasks
      BY <1>2, <1>4
    <3>4. /\ graced \in Runtimes /\ DOMAIN graced.tasks = DOMAIN started.tasks
          /\ graced.active = started.active
          /\ TaskAt(graced, rt.active) = grace
          /\ \A k \in {Gone} \cup DOMAIN started.tasks : k # rt.active => TaskAt(graced, k) = TaskAt(started, k)
      BY <1>4, <2>1, <3>2, <3>3, WithTaskIs
    <3> QED
      BY <1>4, <3>1, <3>4
  <2> HIDE DEF graced
  <2>5. Gone \notin DOMAIN rt.tasks /\ Len(rt.tasks) \in Nat /\ DOMAIN rt.tasks = 1 .. Len(rt.tasks)
        /\ Len(graced.tasks) \in Nat /\ DOMAIN graced.tasks = 1 .. Len(graced.tasks)
    BY <1>2, <2>4, TableFields
  <2>6. \A k \in DOMAIN rt.tasks : graced.tasks[k].done = rt.tasks[k].done
    <3>1. \A k \in DOMAIN rt.tasks : k # rt.active => graced.tasks[k] = rt.tasks[k]
      BY <2>4, <2>5 DEF TaskAt
    <3>2. graced.tasks[rt.active] = grace /\ rt.tasks[rt.active] = parent
      BY <2>3, <2>4, <2>5 DEF TaskAt, ActiveTask, Living
    <3> QED
      BY <2>1, <3>1, <3>2 DEF SameWork
  <2>7. Len(graced.tasks) = Len(rt.tasks)
    <3> DEFINE m == Len(graced.tasks)
               n == Len(rt.tasks)
    <3>1. m \in Nat /\ n \in Nat /\ 1 .. m = 1 .. n
      BY <2>4, <2>5
    <3> HIDE DEF m, n
    <3>2. m = n
      BY <3>1
    <3> QED
      BY <3>2 DEF m, n
  <2>8. FreePlace(graced, BackgroundLimit) # 0
    <3>1. {i \in DOMAIN graced.tasks : graced.tasks[i].done /\ i <= BackgroundLimit}
            = {i \in DOMAIN rt.tasks : rt.tasks[i].done /\ i <= BackgroundLimit}
      BY <2>4, <2>6
    <3>2. FreePlace(graced, BackgroundLimit) = FreePlace(rt, BackgroundLimit)
      BY <2>7, <3>1, Zenon DEF FreePlace
    <3> QED
      BY <1>9, <3>2
  <2>9. /\ held \in TaskRecords /\ ~held.done /\ ~held.started /\ held.cards = <<>> /\ held.blocker = rt.active
        /\ held.timer = Nobody /\ held.paint = Nobody /\ ~held.wipic /\ held.key = Nobody
    <3>1. rt.active \in Refs
      BY <1>2, RuntimeFields
    <3> QED
      BY <1>7, <3>1, PlainFields DEF TaskRecords
  <2> HIDE DEF held
  <2>10. graced.active \in Living(graced)
    BY <2>3, <2>4, <2>6 DEF Living
  <2>11. Fits(graced, held)
    BY <2>4, <2>9, <2>10 DEF Fits
  <2>12. IsGrown(graced, Queued(graced, BackgroundLimit, held), FreePlace(graced, BackgroundLimit), held)
    BY <2>2, <2>8, <2>9, <2>11, Limits, QueuedIsGrown DEF Running
  <2>13. held.blocker # 0
    BY <2>9, <1>2 DEF Running
  <2>14. Running(Queued(graced, BackgroundLimit, held), {})
    BY <2>2, <2>11, <2>12, <2>13, Grown DEF Running
  <2>15. Running(s, {})
    BY <1>9, <2>14
  <2> QED
    BY <1>1, <2>15, ContinueKeeps
<1> QED
  BY <1>6, <1>8, <1>9

LEMMA RepaintKeeps == ASSUME RuntimeInv(rt), NEW c \in Cards, Repaint(c) PROVE RuntimeInv(rt')
<1> DEFINE s == [rt EXCEPT !.dirty = @ \cup {c}]
<1>1. Continue(DeferCardPaint(s, rt.active, c, FALSE)) /\ Running(rt, {}) /\ rt \in Runtimes
  BY InTaskRunning, ActiveType DEF Repaint
<1>2. IsAside(rt, s)
  BY <1>1 DEF IsAside, Runtimes
<1> HIDE DEF s
<1>3. Running(s, {}) /\ s.active = rt.active
  BY <1>1, <1>2, AsideRunning DEF IsAside
<1>4. Running(DeferCardPaint(s, rt.active, c, FALSE), {})
  BY <1>3, DeferRunning
<1> QED
  BY <1>1, <1>4, ContinueKeeps

LEMMA ServiceKeeps == ASSUME RuntimeInv(rt), NEW c \in Cards, ServiceRepaints(c) PROVE RuntimeInv(rt')
<1> DEFINE s == [rt EXCEPT !.dirty = @ \ {c}, !.painted = @ \cup {c}, !.presented = TRUE]
           u == [rt EXCEPT !.dirty = @ \ {c}]
<1>1. InTask /\ (Yield(s) \/ Continue(u)) /\ rt \in Runtimes
  BY ActiveType DEF ServiceRepaints
<1>2. IsAside(rt, s) /\ IsAside(rt, u)
  BY <1>1 DEF IsAside, Runtimes
<1> HIDE DEF s, u
<1> QED
  BY <1>1, <1>2, AsideYields, AsideContinues

LEMMA PushKeeps == ASSUME RuntimeInv(rt), NEW c \in Cards, PushCard(c) PROVE RuntimeInv(rt')
<1> DEFINE s == [rt EXCEPT !.card = c, !.display = TRUE, !.dirty = @ \cup {c}]
<1>1. Continue(DeferCardPaint(s, rt.active, c, TRUE)) /\ Running(rt, {}) /\ rt \in Runtimes
  BY InTaskRunning, ActiveType DEF PushCard
<1>2. IsAside(rt, s)
  BY <1>1 DEF IsAside, Runtimes, CardOrNobody
<1> HIDE DEF s
<1>3. Running(s, {}) /\ s.active = rt.active
  BY <1>1, <1>2, AsideRunning DEF IsAside
<1>4. Running(DeferCardPaint(s, rt.active, c, TRUE), {})
  BY <1>3, DeferRunning
<1> QED
  BY <1>1, <1>4, ContinueKeeps

LEMMA CardsKeep ==
  ASSUME RuntimeInv(rt), RemoveCards \/ \E c \in Cards : SetDockedCard(c) PROVE RuntimeInv(rt')
<1>1. ASSUME RemoveCards PROVE RuntimeInv(rt')
  <2> DEFINE s == [rt EXCEPT !.card = Nobody]
  <2>1. Continue(s) /\ rt \in Runtimes
    BY <1>1, ActiveType DEF RemoveCards, Continue
  <2>2. IsAside(rt, s)
    BY <2>1 DEF IsAside, Runtimes, CardOrNobody
  <2> HIDE DEF s
  <2> QED
    BY <2>1, <2>2, AsideContinues
<1>2. ASSUME NEW c \in Cards, SetDockedCard(c) PROVE RuntimeInv(rt')
  <2> DEFINE s == [rt EXCEPT !.card = c, !.display = TRUE, !.dirty = @ \cup {c}]
  <2>1. Continue(s) /\ rt \in Runtimes
    BY <1>2, ActiveType DEF SetDockedCard, Continue
  <2>2. IsAside(rt, s)
    BY <2>1 DEF IsAside, Runtimes, CardOrNobody
  <2> HIDE DEF s
  <2> QED
    BY <2>1, <2>2, AsideContinues
<1> QED
  BY <1>1, <1>2

LEMMA SeriallyKeeps == ASSUME RuntimeInv(rt), CallSerially PROVE RuntimeInv(rt')
<1> DEFINE place == FreePlace(rt, BackgroundLimit)
           painting == rt.card # Nobody /\ PaintIsLive(rt, rt.card) /\ place # 0
           task == [PlainTask EXCEPT !.after = rt.paintOf[rt.card]]
           s == IF painting THEN Queued(rt, BackgroundLimit, task) ELSE QueueJavaVirtual(rt)
<1>1. Continue(s)
  BY DEF CallSerially
<1>2. Running(rt, {}) /\ Sound(rt) /\ rt \in Runtimes
  BY <1>1, InTaskRunning, ActiveType DEF Continue, Running
<1>3. CASE painting
  <2>1. rt.paintOf[rt.card] \in Refs
    BY <1>2, <1>3 DEF Runtimes, CardOrNobody
  <2>2. /\ task \in TaskRecords /\ ~task.done /\ ~task.started /\ task.cards = <<>> /\ task.blocker = 0
        /\ task.timer = Nobody /\ task.paint = Nobody /\ ~task.wipic /\ task.key = Nobody
    BY <2>1, PlainFields DEF TaskRecords
  <2> HIDE DEF task
  <2>3. Fits(rt, task)
    BY <2>2 DEF Fits
  <2>4. Good(rt, Queued(rt, BackgroundLimit, task))
    BY <1>2, <1>3, <2>2, <2>3, QueuedGood, Limits
  <2>5. Running(s, {})
    BY <1>2, <1>3, <2>4, GoodRunning
  <2> QED
    BY <1>1, <2>5, ContinueKeeps
<1>4. CASE ~painting
  <2>1. Running(s, {})
    BY <1>2, <1>4, QueueVirtualFollows, FollowsRunning
  <2> QED
    BY <1>1, <2>1, ContinueKeeps
<1> QED
  BY <1>3, <1>4

-----------------------------------------------------------------------------
(* KTF: timers, native calls, the host and the end of a title. *)

LEMMA ScheduleKeeps ==
  ASSUME RuntimeInv(rt), NEW t \in TimerTasks, NEW delay \in {0, 1}, NEW period \in Periods,
         Schedule(t, delay, period)
  PROVE  RuntimeInv(rt')
<1> DEFINE deadline == rt.tick + delay
           wake == IF delay = 0 THEN 0 ELSE deadline
           call == TimerCall(t, period, deadline, wake)
           scheduled == [rt EXCEPT !.status[t] = "scheduled"]
           s == QueueJavaTimerTask(scheduled, call)
<1>1. Continue(s) /\ rt.status[t] = "new"
  BY Zenon DEF Schedule
<1>2. Running(rt, {}) /\ Sound(rt) /\ rt \in Runtimes
  BY <1>1, InTaskRunning, ActiveType DEF Continue, Running
<1>3. call \in CallRecords /\ call.timer = t
  <2>1. deadline \in Nat /\ period \in Nat
    BY <1>2, TasksAssumption DEF Runtimes
  <2>2. wake \in Nat
    BY <2>1
  <2> HIDE DEF deadline, wake
  <2> QED
    BY <2>1, <2>2 DEF TimerCall, CallRecords, ThreadOrNobody, TimerOrNobody
<1> HIDE DEF call
<1>4. /\ rt.status \in [TimerTasks -> {"new", "scheduled", "executed", "cancelled"}]
      /\ rt.pending \in Seq(CallRecords)
  BY <1>2, RuntimeFields
<1>5. /\ scheduled \in Runtimes
      /\ scheduled.tasks = rt.tasks /\ scheduled.active = rt.active /\ scheduled.detached = rt.detached
      /\ scheduled.orphans = rt.orphans /\ scheduled.pending = rt.pending /\ scheduled.paintOf = rt.paintOf
      /\ scheduled.timerOf = rt.timerOf /\ scheduled.status = [rt.status EXCEPT ![t] = "scheduled"]
  BY <1>2 DEF Runtimes
<1> HIDE DEF scheduled
<1>6. ASSUME NEW i \in Living(rt), rt.tasks[i].timer # Nobody
      PROVE  rt.tasks[i].timer # t /\ Known(scheduled, i)
  <2>1. rt.tasks[i].timer \in TimerTasks /\ Known(rt, i)
    BY <1>2, <1>6, TableFields, TaskFields DEF Sound, Core, Callbacks, TimerOrNobody
  <2>2. rt.tasks[i].timer # t
    BY <1>1, <2>1 DEF Known
  <2> QED
    BY <1>4, <1>5, <2>1, <2>2 DEF Known
<1>7. ASSUME NEW k \in DOMAIN rt.pending, rt.pending[k].timer # Nobody
      PROVE  rt.pending[k].timer # t /\ scheduled.status[rt.pending[k].timer] = "scheduled"
  <2>1. rt.status[rt.pending[k].timer] = "scheduled"
    BY <1>2, <1>7 DEF Sound, Core, WaitingTimers
  <2>2. rt.pending[k].timer # t
    BY <1>1, <2>1
  <2> QED
    BY <1>4, <1>5, <2>1, <2>2
<1>8. Follows(rt, scheduled)
  <2>1. \A u \in TimerTasks : rt.status[u] = "cancelled" => scheduled.status[u] = "cancelled"
    BY <1>1, <1>4, <1>5
  <2>2. \A u \in TimerTasks : scheduled.timerOf[u] \in {0, rt.timerOf[u]}
    BY <1>5
  <2> QED
    BY <1>2, <1>5, <1>6, <1>7, <2>1, <2>2, Retimed
<1>9. Unused(scheduled, t) /\ scheduled.status[t] = "scheduled"
  <2>1. t # Nobody /\ Living(scheduled) = Living(rt)
    BY <1>5, TasksAssumption DEF Living
  <2> QED
    BY <1>4, <1>5, <1>6, <1>7, <2>1 DEF Unused
<1>10. Follows(scheduled, s)
  BY <1>3, <1>8, <1>9, QueueTimerFollows DEF Follows
<1>11. Running(s, {})
  BY <1>2, <1>8, <1>10, FollowsChain, FollowsRunning
<1> QED
  BY <1>1, <1>11, ContinueKeeps

LEMMA CancelTaskKeeps ==
  ASSUME RuntimeInv(rt), NEW t \in TimerTasks, CancelTimerTask(t) PROVE RuntimeInv(rt')
<1> DEFINE u == CancelledCallback(rt, t)
           w == WithoutPendingTimers(u, {t})
           s == [w EXCEPT !.status[t] = "cancelled"]
           status == [v \in TimerTasks |-> IF v \in {t} THEN "cancelled" ELSE u.status[v]]
<1>1. Continue(s)
  BY DEF CancelTimerTask
<1>2. Running(rt, {})
  BY <1>1, InTaskRunning DEF Continue
<1>3. Running(u, {} \cup {t}) /\ Steady(rt, u) /\ u.timerOf[t] = 0
  BY <1>2, CancelledCallbackRunning
<1> HIDE DEF u
<1>4. {} \cup {t} = {t} /\ Sound(u) /\ u \in Runtimes
  BY <1>3 DEF Running, Sound
<1>5. w.status = u.status /\ u.status \in [TimerTasks -> {"new", "scheduled", "executed", "cancelled"}]
  BY <1>4, WithoutPending, RuntimeFields
<1> HIDE DEF w
<1>6. [w.status EXCEPT ![t] = "cancelled"] = status
  BY <1>5
<1>7. s = [w EXCEPT !.status = status]
  BY <1>6
<1> HIDE DEF status
<1>8. Running([w EXCEPT !.status = status], {})
  <2> DEFINE D == {t}
  <2>1. status = [v \in TimerTasks |-> IF v \in D THEN "cancelled" ELSE u.status[v]]
    BY DEF status
  <2>2. D \in SUBSET TimerTasks /\ D \subseteq D /\ Running(u, D)
        /\ \A v \in D : u.timerOf[v] = 0
        /\ \A k \in DOMAIN u.pending : u.pending[k].timer \in D => u.pending[k].timer \in D
    BY <1>3, <1>4
  <2>3. w = WithoutPendingTimers(u, D)
    BY DEF w
  <2> HIDE DEF D
  <2> QED
    BY <2>1, <2>2, <2>3, CancelEnds
<1> QED
  BY <1>1, <1>7, <1>8, ContinueKeeps

LEMMA CancelTimerKeeps ==
  ASSUME RuntimeInv(rt), NEW order, CancelTimer(order) PROVE RuntimeInv(rt')
<1> DEFINE waiting == {rt.pending[k].timer : k \in DOMAIN rt.pending} \cap TimerTasks
           D == ToSet(order) \cup waiting
           C == ToSet(order)
           dead == [rt EXCEPT !.timerDead = TRUE]
           ended == CancelledOneByOne(dead, order)
           w == WithoutPendingTimers(ended, waiting)
           s == [w EXCEPT !.status = [t \in TimerTasks |-> IF t \in D THEN "cancelled" ELSE @[t]]]
           status == [t \in TimerTasks |-> IF t \in D THEN "cancelled" ELSE ended.status[t]]
<1>1. Continue(s) /\ order \in SetToSeqs({t \in TimerTasks : rt.timerOf[t] # 0})
  BY Zenon DEF CancelTimer, CancelledOneByOne
<1>2. Running(rt, {}) /\ rt \in Runtimes
  BY <1>1, InTaskRunning, ActiveType DEF Continue
<1>3. order \in Seq(TimerTasks)
  <2> DEFINE S == {t \in TimerTasks : rt.timerOf[t] # 0}
             n == Cardinality(S)
  <2>1. n \in Nat
    <3>1. IsFiniteSet(TimerTasks) /\ S \in SUBSET TimerTasks
      BY TasksAssumption
    <3> HIDE DEF S
    <3> QED
      BY <3>1, FS_Subset, FS_CardinalityType
  <2>2. order \in [1 .. n -> TimerTasks]
    BY <1>1 DEF SetToSeqs
  <2> HIDE DEF n
  <2> QED
    BY <2>1, <2>2, TableType
<1>4. IsAside(rt, dead)
  BY <1>2 DEF IsAside, Runtimes
<1> HIDE DEF dead
<1>5. Running(dead, C) /\ dead.pending = rt.pending
  <2>1. Running(dead, {})
    BY <1>2, <1>4, AsideRunning
  <2> HIDE DEF C
  <2> QED
    BY <1>4, <2>1 DEF Running, ActiveFits, IsAside
<1>6. /\ Running(ended, C) /\ Steady(dead, ended)
      /\ \A t \in C : ended.timerOf[t] = 0
  BY <1>3, <1>5, CancelledAll
<1> HIDE DEF ended
<1>7. ended.pending = rt.pending /\ Sound(ended) /\ ended \in Runtimes
  BY <1>5, <1>6 DEF Steady, Running, Sound
<1>8. w.status = ended.status /\ w \in Runtimes
  BY <1>7, WithoutPending DEF Sound
<1>9. C \in SUBSET TimerTasks
  BY <1>3 DEF ToSet
<1>10. D = C \cup waiting
  OBVIOUS
<1> HIDE DEF C, D
<1>11. ASSUME NEW t \in D PROVE ended.timerOf[t] = 0 \/ \A i \in Living(ended) : ended.tasks[i].timer # t
  <2>1. CASE t \in C
    BY <1>6, <2>1
  <2>2. CASE t \in waiting
    <3>1. PICK k \in DOMAIN rt.pending : t = rt.pending[k].timer
      BY <2>2
    <3>2. t # Nobody
      BY <2>2, TasksAssumption
    <3> QED
      BY <1>7, <3>1, <3>2 DEF Sound, Core, WaitingTimers
  <2> QED
    BY <1>10, <1>11, <2>1, <2>2
<1>12. \A k \in DOMAIN ended.pending : ended.pending[k].timer \in D => ended.pending[k].timer \in waiting
  BY <1>7, <1>9, <1>10
<1>13. D \in SUBSET TimerTasks /\ C \subseteq D
  BY <1>9, <1>10
<1>14. s = [w EXCEPT !.status = status]
  BY <1>8
<1> HIDE DEF waiting
<1>15. Running([w EXCEPT !.status = status], {})
  <2>1. status = [t \in TimerTasks |-> IF t \in D THEN "cancelled" ELSE ended.status[t]]
    OBVIOUS
  <2> HIDE DEF status
  <2> QED
    BY <1>6, <1>11, <1>12, <1>13, <2>1, CancelEnds
<1> HIDE DEF s, status, w
<1> QED
  BY <1>1, <1>14, <1>15, ContinueKeeps

LEMMA NativeKeeps == ASSUME RuntimeInv(rt), NativeCalls PROVE RuntimeInv(rt')
<1>1. ASSUME NEW delay \in {0, 1}, SetTimer(delay) PROVE RuntimeInv(rt')
  <2> DEFINE due == rt.tick + delay
             s == [rt EXCEPT !.wipicTimer = due]
  <2>1. Continue(s) /\ rt \in Runtimes
    BY <1>1, ActiveType DEF SetTimer, Continue
  <2>2. due \in Int
    BY <2>1 DEF Runtimes
  <2> HIDE DEF due
  <2>3. IsAside(rt, s)
    BY <2>1, <2>2 DEF IsAside, Runtimes
  <2> HIDE DEF s
  <2> QED
    BY <2>1, <2>3, AsideContinues
<1>2. ASSUME UnsetTimer PROVE RuntimeInv(rt')
  <2> DEFINE s == [rt EXCEPT !.wipicTimer = Off]
  <2>1. Continue(s) /\ rt \in Runtimes
    BY <1>2, ActiveType DEF UnsetTimer, Continue
  <2>2. Off \in Int
    BY DEF Off
  <2>3. IsAside(rt, s)
    BY <2>1, <2>2 DEF IsAside, Runtimes
  <2> HIDE DEF s
  <2> QED
    BY <2>1, <2>3, AsideContinues
<1>3. ASSUME ConnectNetwork PROVE RuntimeInv(rt')
  <2> DEFINE carrier == rt.carrier + 1
             s == [rt EXCEPT !.carrier = carrier]
  <2>1. Continue(s) /\ rt \in Runtimes
    BY <1>3, ActiveType DEF ConnectNetwork, Continue
  <2>2. carrier \in Nat
    BY <2>1 DEF Runtimes
  <2> HIDE DEF carrier
  <2>3. IsAside(rt, s)
    BY <2>1, <2>2 DEF IsAside, Runtimes
  <2> HIDE DEF s
  <2> QED
    BY <2>1, <2>3, AsideContinues
<1>4. ASSUME Present PROVE RuntimeInv(rt')
  <2> DEFINE s == [rt EXCEPT !.presented = TRUE]
  <2>1. InTask /\ Yield(s) /\ rt \in Runtimes
    BY <1>4, ActiveType DEF Present
  <2>2. IsAside(rt, s)
    BY <2>1 DEF IsAside, Runtimes
  <2> HIDE DEF s
  <2> QED
    BY <2>1, <2>2, AsideYields
<1> QED
  BY <1>1, <1>2, <1>3, <1>4 DEF NativeCalls

LEMMA MediaKeeps == ASSUME RuntimeInv(rt), CompleteMedia PROVE RuntimeInv(rt')
<1>1. Sound(rt) /\ rt.active = 0 /\ rt \in Runtimes
  BY InvSound DEF CompleteMedia, BetweenSlices, Sound
<1>2. ASSUME NEW s, Sound(s), s.active = 0 PROVE RuntimeInv(s)
  BY <1>2 DEF RuntimeInv, Sound
<1>3. CASE rt' = QueueJavaVirtual(rt)
  <2>1. Sound(QueueJavaVirtual(rt)) /\ QueueJavaVirtual(rt).active = 0
    BY <1>1, QueueVirtualFollows DEF Follows, Keeps
  <2> QED
    BY <1>2, <1>3, <2>1
<1>4. CASE rt' = [rt EXCEPT !.carrier = @ + 1]
  <2> DEFINE carrier == rt.carrier + 1
             s == [rt EXCEPT !.carrier = carrier]
  <2>1. carrier \in Nat
    BY <1>1 DEF Runtimes
  <2>2. rt' = s
    BY <1>4
  <2> HIDE DEF carrier
  <2>3. IsAside(rt, s)
    BY <1>1, <2>1 DEF IsAside, Runtimes
  <2> HIDE DEF s
  <2>4. Sound(s) /\ s.active = 0
    BY <1>1, <2>3, Aside DEF Good, IsAside
  <2> QED
    BY <1>2, <2>2, <2>4
<1> QED
  BY <1>3, <1>4 DEF CompleteMedia

LEMMA TickKeeps == ASSUME RuntimeInv(rt), AdvanceTick PROVE RuntimeInv(rt')
<1> DEFINE tick == rt.tick + 1
           s == [rt EXCEPT !.tick = tick]
<1>1. Sound(rt) /\ rt.active = 0 /\ rt \in Runtimes /\ rt' = s
  BY InvSound DEF AdvanceTick, BetweenSlices, Sound
<1>2. tick \in Nat
  BY <1>1 DEF Runtimes
<1> HIDE DEF tick
<1>3. IsAside(rt, s)
  BY <1>1, <1>2 DEF IsAside, Runtimes
<1> HIDE DEF s
<1>4. Sound(s) /\ s.active = 0
  BY <1>1, <1>3, Aside DEF Good, IsAside
<1> QED
  BY <1>1, <1>4 DEF RuntimeInv, Sound

LEMMA StartedInv == RuntimeInv(StartedTitle)
<1> DEFINE task == [PlainTask EXCEPT !.layout = TRUE]
           r == StartedTitle
<1>1. /\ task \in TaskRecords /\ ~task.done /\ task.timer = Nobody /\ task.paint = Nobody
      /\ ~task.wipic /\ task.key = Nobody /\ task.blocker = 0
  BY PlainFields DEF TaskRecords
<1>2. r.tasks = <<task>> /\ r.active = 0 /\ r.orphans = {} /\ r.pending = <<>> /\ r.fault = "none"
      /\ r.detached = FinishedTask
      /\ r.paintOf = [c \in Cards |-> 0] /\ r.timerOf = [t \in TimerTasks |-> 0]
  BY DEF StartedTitle
<1>3. r \in Runtimes
  <2>1. <<task>> \in Seq(TaskRecords) /\ <<>> \in Seq(CallRecords) /\ Off \in Int
    BY <1>1 DEF Off
  <2> HIDE DEF task
  <2> QED
    BY <2>1, PlainFields DEF StartedTitle, Runtimes, Refs, CardOrNobody, TimerOrNobody, task
<1> HIDE DEF task, r
<1>4. DOMAIN r.tasks = {1} /\ r.tasks[1] = task /\ Living(r) = {1}
  BY <1>1, <1>2 DEF Living
<1>5. FinishedTask.timer = Nobody
  BY PlainFields DEF FinishedTask, PlainTask
<1>6. Kinds(r) /\ Turns(r) /\ Paints(r) /\ Pointers(r) /\ Callbacks(r) /\ WaitingTimers(r) /\ Blocks(r)
  <2>1. Kinds(r)
    BY <1>1, <1>2, <1>4, <1>5 DEF Kinds
  <2>2. Turns(r) /\ Paints(r) /\ Pointers(r)
    BY <1>1, <1>2, <1>4 DEF Turns, Paints, Pointers
  <2>3. Callbacks(r) /\ WaitingTimers(r) /\ Blocks(r)
    BY <1>1, <1>2, <1>4 DEF Callbacks, WaitingTimers, Blocks
  <2> QED
    BY <2>1, <2>2, <2>3
<1>7. Marks(r)
  BY <1>1, <1>2, <1>4 DEF Marks, PaintPlaces, Leftovers
<1>8. RuntimeInv(r)
  BY <1>2, <1>3, <1>6, <1>7 DEF RuntimeInv, Core
<1> QED
  BY <1>8 DEF r

LEMMA TerminationKeeps == ASSUME RuntimeInv(rt), RequestTermination PROVE RuntimeInv(rt')
<1> DEFINE Cleared(p) == IF p \in DOMAIN rt.tasks THEN 0 ELSE p
           Ended(task) == [task EXCEPT !.done = TRUE, !.blocker = Cleared(task.blocker), !.grace = FALSE,
                                       !.cards = <<>>, !.shown = {}]
           tasks == [i \in DOMAIN rt.tasks |-> Ended(rt.tasks[i])]
           paintOf == [c \in Cards |-> Cleared(rt.paintOf[c])]
           pending == <<>>
           s == [rt EXCEPT !.tasks = tasks, !.paintOf = paintOf, !.pending = pending, !.ended = TRUE]
<1>1. rt' = EndSlice(s) /\ InTask
  BY DEF RequestTermination
<1>2. /\ Running(rt, {}) /\ Sound(rt) /\ rt \in Runtimes /\ rt.fault = "none"
      /\ rt.active \in {Gone} \cup DOMAIN rt.tasks /\ rt.active # 0
  BY <1>1, InTaskRunning, ActiveType DEF Running
<1>3. /\ Len(rt.tasks) \in Nat /\ DOMAIN rt.tasks = 1 .. Len(rt.tasks)
      /\ \A i \in DOMAIN rt.tasks : rt.tasks[i] \in TaskRecords
      /\ Gone \notin DOMAIN rt.tasks /\ 0 \notin DOMAIN rt.tasks /\ Gone # 0
      /\ Living(rt) \subseteq DOMAIN rt.tasks
      /\ rt.paintOf \in [Cards -> Refs]
  BY <1>2, TableFields, RuntimeFields
<1>4. rt.active = Gone => Quiet(rt) /\ ActiveTask(rt).timer \in TimerTasks
        /\ rt.status[ActiveTask(rt).timer] = "cancelled"
  BY <1>2, <1>3 DEF Running, ActiveFits
<1>5. \A i \in DOMAIN rt.tasks : Cleared(rt.tasks[i].blocker) = 0
  <2> SUFFICES ASSUME NEW i \in DOMAIN rt.tasks, rt.tasks[i].blocker # 0 PROVE rt.tasks[i].blocker \in DOMAIN rt.tasks
    OBVIOUS
  <2>1. rt.tasks[i].blocker = rt.active \/ rt.tasks[i].blocker \in Living(rt)
    BY <1>2 DEF Sound, Core, Blocks
  <2> QED
    BY <1>2, <1>3, <1>4, <2>1 DEF Quiet
<1>6. \A c \in Cards : paintOf[c] = 0
  <2> SUFFICES ASSUME NEW c \in Cards, rt.paintOf[c] # 0 PROVE rt.paintOf[c] \in DOMAIN rt.tasks
    OBVIOUS
  <2>1. (rt.paintOf[c] = rt.active \/ rt.paintOf[c] \in Living(rt)) /\ TaskAt(rt, rt.paintOf[c]).paint = c
    BY <1>2 DEF Sound, Marks, PaintPlaces
  <2>2. ASSUME rt.active = Gone PROVE ActiveTask(rt).paint = Nobody
    BY <1>2, <1>3, <1>4, <2>2, TasksAssumption DEF Sound, Core, Kinds, ActiveTask, TaskAt
  <2> QED
    BY <1>2, <1>3, <2>1, <2>2, TasksAssumption DEF ActiveTask
<1>7. \A i \in DOMAIN rt.tasks :
        /\ Ended(rt.tasks[i]) \in TaskRecords /\ Ended(rt.tasks[i]).done
        /\ Ended(rt.tasks[i]).blocker = 0 /\ Ended(rt.tasks[i]).cards = <<>>
        /\ Ended(rt.tasks[i]).timer = rt.tasks[i].timer /\ Ended(rt.tasks[i]).paint = rt.tasks[i].paint
  <2> SUFFICES ASSUME NEW i \in DOMAIN rt.tasks
               PROVE  /\ Ended(rt.tasks[i]) \in TaskRecords /\ Ended(rt.tasks[i]).done
                      /\ Ended(rt.tasks[i]).blocker = 0 /\ Ended(rt.tasks[i]).cards = <<>>
                      /\ Ended(rt.tasks[i]).timer = rt.tasks[i].timer
                      /\ Ended(rt.tasks[i]).paint = rt.tasks[i].paint
    OBVIOUS
  <2> DEFINE task == rt.tasks[i]
             blocker == Cleared(task.blocker)
  <2>1. task \in TaskRecords /\ blocker = 0 /\ 0 \in Refs /\ <<>> \in Seq(Cards)
    BY <1>3, <1>5 DEF Refs
  <2> HIDE DEF task, blocker
  <2>2. LET ended == [task EXCEPT !.done = TRUE, !.blocker = blocker, !.grace = FALSE, !.cards = <<>>, !.shown = {}]
        IN  /\ ended \in TaskRecords /\ ended.done /\ ended.blocker = 0 /\ ended.cards = <<>>
            /\ ended.timer = task.timer /\ ended.paint = task.paint
    BY <2>1 DEF TaskRecords
  <2> QED
    BY <2>2 DEF task, blocker
<1> HIDE DEF Ended, Cleared
<1>8. tasks \in Seq(TaskRecords) /\ DOMAIN tasks = DOMAIN rt.tasks
      /\ \A i \in DOMAIN rt.tasks : tasks[i] = Ended(rt.tasks[i])
  <2>1. tasks \in [1 .. Len(rt.tasks) -> TaskRecords] /\ \A i \in DOMAIN rt.tasks : tasks[i] = Ended(rt.tasks[i])
    BY <1>3, <1>7
  <2> HIDE DEF tasks
  <2> QED
    BY <1>3, <2>1, TableType
<1>9. paintOf \in [Cards -> Refs] /\ pending \in Seq(CallRecords) /\ DOMAIN pending = {}
  <2>1. DOMAIN paintOf = Cards /\ paintOf = [c \in Cards |-> paintOf[c]] /\ 0 \in Refs
    BY DEF Refs
  <2> HIDE DEF paintOf
  <2> QED
    BY <1>6, <2>1
<1> HIDE DEF tasks, paintOf, pending
<1>10. /\ s \in Runtimes
       /\ s.tasks = tasks /\ s.active = rt.active /\ s.detached = rt.detached /\ s.orphans = rt.orphans
       /\ s.pending = pending /\ s.paintOf = paintOf /\ s.timerOf = rt.timerOf /\ s.status = rt.status
  BY <1>2, <1>8, <1>9 DEF Runtimes
<1> HIDE DEF s
<1>11. Living(s) = {}
  BY <1>7, <1>8, <1>10 DEF Living
<1>12. Core(s)
  <2>1. Kinds(s)
    BY <1>2, <1>7, <1>8, <1>10 DEF Sound, Core, Kinds
  <2>2. Turns(s) /\ Paints(s) /\ Callbacks(s)
    BY <1>11 DEF Turns, Paints, Callbacks
  <2>3. Pointers(s)
    BY <1>2, <1>7, <1>8, <1>10 DEF Sound, Core, Pointers
  <2>4. WaitingTimers(s) /\ Blocks(s)
    BY <1>7, <1>8, <1>9, <1>10 DEF WaitingTimers, Blocks
  <2> QED
    BY <2>1, <2>2, <2>3, <2>4 DEF Core
<1>13. Marks(s)
  BY <1>2, <1>6, <1>7, <1>8, <1>10 DEF Sound, Marks, PaintPlaces, Leftovers, Cancelled
<1>14. Quiet(s) /\ Unmarked(s)
  BY <1>2, <1>6, <1>7, <1>8, <1>10 DEF Quiet, Unmarked
<1>15. ActiveTask(s).cards # <<>> => Cancelled(s, ActiveTask(s).timer)
  <2>1. CASE rt.active = Gone
    BY <1>4, <1>10, <2>1 DEF ActiveTask, TaskAt, Cancelled
  <2>2. CASE rt.active # Gone
    BY <1>2, <1>7, <1>8, <1>10, <2>2 DEF ActiveTask, TaskAt
  <2> QED
    BY <2>1, <2>2
<1>16. Leavable(s)
  BY <1>10, <1>12, <1>13, <1>14, <1>15 DEF Leavable
<1> QED
  BY <1>1, <1>16, SliceEnds

-----------------------------------------------------------------------------
(* KTF: the steps of a title. *)

LEMMA HostCallKeeps ==
  ASSUME RuntimeInv(rt),
         \/ \E graceSpent \in BOOLEAN : BudgetEnds(graceSpent)
         \/ \E delay \in {0, 1} : SleepThread(delay)
         \/ ThreadCalls \/ TimerCalls \/ CardCalls \/ NativeCalls
  PROVE  RuntimeInv(rt')
<1>1. ASSUME NEW graceSpent \in BOOLEAN, BudgetEnds(graceSpent) PROVE RuntimeInv(rt')
  BY <1>1, BudgetKeeps
<1>2. ASSUME NEW delay \in {0, 1}, SleepThread(delay) PROVE RuntimeInv(rt')
  BY <1>2, SleepKeeps
<1>3. ASSUME ThreadCalls PROVE RuntimeInv(rt')
  <2>1. ASSUME NEW h \in JavaThreads, StartJavaThread(h) PROVE RuntimeInv(rt')
    BY <2>1, StartKeeps
  <2>2. ASSUME NEW h \in JavaThreads, JoinJavaThread(h) PROVE RuntimeInv(rt')
    BY <2>2, JoinKeeps
  <2>3. ASSUME NEW delay \in {0, 1}, WaitJavaObject(delay) PROVE RuntimeInv(rt')
    BY <2>3, WaitKeeps
  <2>4. ASSUME NEW all \in BOOLEAN, NotifyJavaObject(all) PROVE RuntimeInv(rt')
    BY <2>4, NotifyKeeps
  <2> QED
    BY <1>3, <2>1, <2>2, <2>3, <2>4 DEF ThreadCalls
<1>4. ASSUME TimerCalls PROVE RuntimeInv(rt')
  <2>1. ASSUME NEW t \in TimerTasks, CancelTimerTask(t) PROVE RuntimeInv(rt')
    BY <2>1, CancelTaskKeeps
  <2>2. ASSUME NEW t \in TimerTasks, NEW delay \in {0, 1}, NEW period \in Periods,
               Schedule(t, delay, period)
        PROVE  RuntimeInv(rt')
    BY <2>2, ScheduleKeeps
  <2>3. ASSUME NEW order, CancelTimer(order) PROVE RuntimeInv(rt')
    BY <2>3, CancelTimerKeeps
  <2> QED
    BY <1>4, <2>1, <2>2, <2>3 DEF TimerCalls
<1>5. ASSUME CardCalls PROVE RuntimeInv(rt')
  <2>1. ASSUME NEW c \in Cards, Repaint(c) PROVE RuntimeInv(rt')
    BY <2>1, RepaintKeeps
  <2>2. ASSUME NEW c \in Cards, ServiceRepaints(c) PROVE RuntimeInv(rt')
    BY <2>2, ServiceKeeps
  <2>3. ASSUME NEW c \in Cards, PushCard(c) PROVE RuntimeInv(rt')
    BY <2>3, PushKeeps
  <2> QED
    BY <1>5, <2>1, <2>2, <2>3, CardsKeep, SeriallyKeeps DEF CardCalls
<1> QED
  BY <1>1, <1>2, <1>3, <1>4, <1>5, NativeKeeps

\* The keys that are under way and the calls stay numbers.
Counters == keysHeld \in Nat /\ keysOnBus \in Seq(Nat) /\ calls \in Nat /\ uses \in Titles

LEMMA SliceCounts ==
  ASSUME Counters, RuntimeInv(rt), NEW due, Slice(due), UNCHANGED uses PROVE Counters'
<1> DEFINE dropped == keysHeld > 0 /\ rt.display /\ ~CanAwaitEvents(rt)
           offered == keysHeld > 0 /\ ~dropped /\ CanQueueKeyEvent(rt)
           held == IF dropped \/ offered THEN keysHeld - 1 ELSE keysHeld
           bus == IF offered THEN Append(keysOnBus, due) ELSE keysOnBus
           told == [rt EXCEPT !.inputWaiting = held > 0]
           delivered == bus # <<>> /\ Head(bus) <= rt.tick /\ CanQueueKeyEvent(told)
<1>1. keysHeld' = held /\ keysOnBus' = (IF delivered THEN Tail(bus) ELSE bus) /\ calls' = calls
  BY Zenon DEF Slice
<1>2. due \in {rt.tick, rt.tick + 1}
  BY DEF Slice
<1>3. rt.tick \in Nat
  BY DEF RuntimeInv, Runtimes
<1>4. due \in Nat
  BY <1>2, <1>3
<1>5. (dropped => keysHeld > 0) /\ (offered => keysHeld > 0)
  OBVIOUS
<1>6. delivered => bus # <<>>
  OBVIOUS
<1> HIDE DEF dropped, offered, delivered
<1>7. held \in Nat
  BY <1>5 DEF Counters
<1>8. bus \in Seq(Nat)
  BY <1>4 DEF Counters
<1> HIDE DEF bus, held
<1>9. keysOnBus' \in Seq(Nat)
  BY <1>1, <1>6, <1>8
<1> QED
  BY <1>1, <1>7, <1>9 DEF Counters

LEMMA CallCounts == ASSUME Counters, CountCall PROVE calls' \in Nat
  BY DEF Counters, CountCall

LEMMA ContinueCounts ==
  ASSUME Counters, UNCHANGED uses, NEW r, Continue(r) \/ Yield(r) PROVE Counters'
<1>1. CountCall /\ keysHeld' = keysHeld /\ keysOnBus' = keysOnBus
  BY DEF Continue, Yield
<1> QED
  BY <1>1, CallCounts DEF Counters

LEMMA HostCallCounts ==
  ASSUME Counters, UNCHANGED uses,
         \/ \E delay \in {0, 1} : SleepThread(delay)
         \/ ThreadCalls \/ TimerCalls \/ CardCalls \/ NativeCalls
  PROVE  Counters'
<1>1. SUFFICES \E r : Continue(r) \/ Yield(r)
  BY <1>1, ContinueCounts
<1>2. ASSUME NEW delay, SleepThread(delay) \/ WaitJavaObject(delay) PROVE \E r : Continue(r) \/ Yield(r)
  BY <1>2 DEF SleepThread, WaitJavaObject
<1>3. ASSUME NEW h, StartJavaThread(h) \/ JoinJavaThread(h) PROVE \E r : Continue(r) \/ Yield(r)
  BY Zenon, <1>3 DEF StartJavaThread, JoinJavaThread
<1>4. ASSUME NEW all, NotifyJavaObject(all) PROVE \E r : Continue(r) \/ Yield(r)
  BY Zenon, <1>4 DEF NotifyJavaObject
<1>5. ASSUME TimerCalls PROVE \E r : Continue(r) \/ Yield(r)
  <2>1. ASSUME NEW t, CancelTimerTask(t) PROVE \E r : Continue(r) \/ Yield(r)
    BY Zenon, <2>1 DEF CancelTimerTask
  <2>2. ASSUME NEW t, NEW delay, NEW period, Schedule(t, delay, period) PROVE \E r : Continue(r) \/ Yield(r)
    BY Zenon, <2>2 DEF Schedule
  <2>3. ASSUME NEW order, CancelTimer(order) PROVE \E r : Continue(r) \/ Yield(r)
    BY Zenon, <2>3 DEF CancelTimer
  <2> QED
    BY Zenon, <1>5, <2>1, <2>2, <2>3 DEF TimerCalls
<1>6. ASSUME CardCalls PROVE \E r : Continue(r) \/ Yield(r)
  <2>1. ASSUME NEW c, Repaint(c) \/ PushCard(c) \/ SetDockedCard(c) PROVE \E r : Continue(r) \/ Yield(r)
    BY Zenon, <2>1 DEF Repaint, PushCard, SetDockedCard
  <2>2. ASSUME NEW c, ServiceRepaints(c) PROVE \E r : Continue(r) \/ Yield(r)
    BY Zenon, <2>2 DEF ServiceRepaints
  <2>3. ASSUME RemoveCards \/ CallSerially PROVE \E r : Continue(r) \/ Yield(r)
    BY Zenon, <2>3 DEF RemoveCards, CallSerially
  <2> QED
    BY Zenon, <1>6, <2>1, <2>2, <2>3 DEF CardCalls
<1>7. ASSUME NativeCalls PROVE \E r : Continue(r) \/ Yield(r)
  BY Zenon, <1>7 DEF NativeCalls, SetTimer, UnsetTimer, ConnectNetwork, Present
<1>8. ASSUME ThreadCalls PROVE \E r : Continue(r) \/ Yield(r)
  BY Zenon, <1>2, <1>3, <1>4, <1>8 DEF ThreadCalls
<1> QED
  BY Zenon, <1>2, <1>5, <1>6, <1>7, <1>8

LEMMA TasksStep == TasksInv /\ [TasksNext]_taskVars => TasksInv'
<1> SUFFICES ASSUME TasksInv, [TasksNext]_taskVars PROVE RuntimeInv(rt') /\ Counters'
  BY DEF TasksInv, Counters
<1> USE DEF TasksInv
<1>1. RuntimeInv(rt) /\ Counters
  BY DEF Counters
<1>2. CASE UNCHANGED taskVars
  <2>1. rt' = rt /\ UNCHANGED <<keysHeld, keysOnBus, calls, uses>>
    BY <1>2 DEF taskVars
  <2>2. Counters'
    BY <1>1, <2>1 DEF Counters
  <2>3. RuntimeInv(rt')
    BY <1>1, <2>1
  <2> QED
    BY <2>2, <2>3
<1>3. ASSUME TasksNext PROVE RuntimeInv(rt') /\ Counters'
  <2>1. UNCHANGED uses
    BY <1>3 DEF TasksNext
  <2>2. ASSUME NEW due, Slice(due) PROVE RuntimeInv(rt') /\ Counters'
    BY <1>1, <2>1, <2>2, SliceKeeps, SliceCounts
  <2>3. ASSUME UNCHANGED <<keysHeld, keysOnBus, calls>> PROVE Counters'
    BY <1>1, <2>1, <2>3 DEF Counters
  <2>4. CASE TaskReturns \/ TaskThrows \/ RequestTermination
    <3>1. RuntimeInv(rt')
      BY <1>1, <2>4, TaskReturnsKeeps, TaskThrowsKeeps, TerminationKeeps
    <3>2. UNCHANGED <<keysHeld, keysOnBus, calls>>
      BY <2>4 DEF TaskReturns, TaskThrows, RequestTermination
    <3> QED
      BY <2>3, <3>1, <3>2
  <2>5. ASSUME NEW graceSpent \in BOOLEAN, BudgetEnds(graceSpent) PROVE RuntimeInv(rt') /\ Counters'
    <3>1. UNCHANGED <<keysHeld, keysOnBus, calls>>
      BY <2>5 DEF BudgetEnds
    <3> QED
      BY <1>1, <2>3, <2>5, <3>1, BudgetKeeps
  <2>6. CASE \/ \E delay \in {0, 1} : SleepThread(delay)
             \/ ThreadCalls \/ TimerCalls \/ CardCalls \/ NativeCalls
    BY <1>1, <2>1, <2>6, HostCallKeeps, HostCallCounts
  <2>7. CASE CompleteMedia
    <3>1. CountCall /\ keysHeld' = keysHeld /\ keysOnBus' = keysOnBus
      BY <2>7 DEF CompleteMedia
    <3>2. Counters'
      BY <1>1, <2>1, <3>1, CallCounts DEF Counters
    <3> QED
      BY <1>1, <2>7, <3>2, MediaKeeps
  <2>8. CASE PressKey
    <3>1. CountCall /\ keysHeld' = keysHeld + 1 /\ keysOnBus' = keysOnBus /\ rt' = rt
      BY <2>8 DEF PressKey
    <3>2. Counters'
      BY <1>1, <2>1, <3>1, CallCounts DEF Counters
    <3>3. RuntimeInv(rt')
      BY <1>1, <3>1
    <3> QED
      BY <3>2, <3>3
  <2>9. CASE AdvanceTick
    <3>1. UNCHANGED <<keysHeld, keysOnBus, calls>>
      BY <2>9 DEF AdvanceTick
    <3> QED
      BY <1>1, <2>3, <2>9, <3>1, TickKeeps
  <2>10. CASE RestartTitle
    <3>1. rt' = StartedTitle /\ keysHeld' = 0 /\ keysOnBus' = <<>> /\ calls' = 0
      BY <2>10 DEF RestartTitle
    <3>2. Counters'
      BY <1>1, <2>1, <3>1 DEF Counters
    <3>3. RuntimeInv(rt')
      BY <3>1, StartedInv
    <3> QED
      BY <3>2, <3>3
  <2> QED
    BY Zenon, <1>3, <2>2, <2>4, <2>5, <2>6, <2>7, <2>8, <2>9, <2>10 DEF TasksNext
<1> QED
  BY <1>2, <1>3

\* The inductive invariant of a KTF title: what RunTaskSlice, the host calls of
\* the task it runs and the host itself keep true of the table, the pending calls,
\* the timers and the paints, however tasks park, throw, cancel and end.
THEOREM TasksInvariant == TasksSpec => []TasksInv
<1>1. TasksInit => TasksInv
  <2> SUFFICES ASSUME TasksInit PROVE TasksInv
    OBVIOUS
  <2>1. rt = StartedTitle /\ keysHeld = 0 /\ keysOnBus = <<>> /\ calls = 0 /\ uses \in Titles
    BY DEF TasksInit
  <2>2. RuntimeInv(rt)
    BY <2>1, StartedInv
  <2> QED
    BY <2>1, <2>2 DEF TasksInv
<1> QED
  BY <1>1, TasksStep, PTL DEF TasksSpec

-----------------------------------------------------------------------------
(* KTF: what the invariant says of the title. *)

LEMMA AtMostOne ==
  ASSUME NEW S, \A i, j \in S : i = j
  PROVE  Cardinality(S) \in {0, 1} /\ (Cardinality(S) = 0 <=> S = {})
<1>1. CASE S = {}
  BY <1>1, FS_EmptySet
<1>2. CASE S # {}
  <2>1. PICK x : S = {x}
    BY <1>2
  <2>2. Cardinality(S) = 1
    BY <2>1, FS_Singleton
  <2> QED
    BY <1>2, <2>2
<1> QED
  BY <1>1, <1>2

\* However the WIPI-C callbacks and the key handlers of a title sleep, wait and
\* yield, a card never has two of them alive, so that none of them runs inside
\* another (canQueueCardKeyEvent and activateDueWIPICTimers ask before they
\* queue one).
THEOREM KTFCallbacksTakeTurns == TasksSpec => []CallbacksTakeTurns
<1>1. TasksInv => CallbacksTakeTurns
  <2> SUFFICES ASSUME Turns(rt) PROVE CallbacksTakeTurns
    BY DEF TasksInv, RuntimeInv, Core
  <2>1. Cardinality(WipicTasks(rt)) \in {0, 1} /\ (Cardinality(WipicTasks(rt)) = 0 <=> WipicTasks(rt) = {})
    <3>1. \A i, j \in WipicTasks(rt) : i = j
      BY DEF Turns, WipicTasks
    <3> QED
      BY <3>1, AtMostOne
  <2>2. ASSUME NEW c \in Cards PROVE Cardinality(KeyTasks(rt, c)) + Cardinality(WipicTasks(rt)) <= 1
    <3>1. c # Nobody
      BY TasksAssumption
    <3>2. \A i, j \in KeyTasks(rt, c) : i = j
      BY <3>1 DEF Turns, KeyTasks
    <3>3. /\ Cardinality(KeyTasks(rt, c)) \in {0, 1}
          /\ Cardinality(KeyTasks(rt, c)) = 0 <=> KeyTasks(rt, c) = {}
      BY <3>2, AtMostOne
    <3>4. WipicTasks(rt) = {} \/ KeyTasks(rt, c) = {}
      BY <3>1 DEF Turns, KeyTasks, WipicTasks
    <3> QED
      BY <2>1, <3>3, <3>4
  <2> QED
    BY <2>1, <2>2 DEF CallbacksTakeTurns
<1> QED
  BY <1>1, TasksInvariant, PTL

\* A java.util.Timer runs its TimerTasks one at a time, and a TimerTask has one
\* callback, even if callbacks sleep, schedule and cancel one another while they
\* run (canRunJavaTimerTask, beginJavaTimerTask, completeJavaTimerTask).
THEOREM KTFOneWorkerPerTimer == TasksSpec => []OneWorkerPerTimer
<1>1. TasksInv => OneWorkerPerTimer
  <2> SUFFICES ASSUME Callbacks(rt) PROVE OneWorkerPerTimer
    BY DEF TasksInv, RuntimeInv, Core
  <2> DEFINE callbacks == {i \in Living(rt) : rt.tasks[i].timer # Nobody}
             begun == {i \in callbacks : rt.tasks[i].started}
  <2>1. \A i, j \in callbacks : rt.tasks[i].timer = rt.tasks[j].timer => i = j
    BY DEF Callbacks
  <2>2. \A i, j \in begun : i = j
    BY DEF Callbacks
  <2>3. Cardinality(begun) \in {0, 1}
    BY <2>2, AtMostOne
  <2>4. Cardinality(begun) <= 1
    <3> HIDE DEF begun
    <3> QED
      BY <2>3
  <2> QED
    BY <2>1, <2>4 DEF OneWorkerPerTimer
<1> QED
  BY <1>1, TasksInvariant, PTL

\* What is free to run is runnable at the next look of the scheduler.
LEMMA FreeRuns ==
  ASSUME NEW r \in Runtimes, Callbacks(r), NEW i \in Living(r), Free(r.tasks[i])
  PROVE  Runnable(r, i)
<1>1. i \in DOMAIN r.tasks /\ ~r.tasks[i].done
  BY DEF Living
<1>2. Free(Looked(r, i)) /\ Looked(r, i).done = r.tasks[i].done
  BY <1>1, LookedIs DEF SameWork
<1>3. HasTheWorker(r, i)
  <2> SUFFICES ASSUME r.tasks[i].timer # Nobody,
                      NEW j \in Living(r), r.tasks[j].timer # Nobody
               PROVE  \/ r.tasks[i].started # r.tasks[j].started /\ r.tasks[i].started
                      \/ r.tasks[i].started = r.tasks[j].started
                         /\ (\/ r.tasks[i].deadline < r.tasks[j].deadline
                             \/ r.tasks[i].deadline = r.tasks[j].deadline /\ i <= j)
    BY DEF HasTheWorker
  <2>1. r.tasks[i].started
    BY DEF Free
  <2>2. CASE r.tasks[j].started
    <3>1. i = j
      BY <2>1, <2>2 DEF Callbacks
    <3>2. i <= i
      BY <1>1, TableFields
    <3> QED
      BY <2>1, <2>2, <3>1, <3>2
  <2>3. CASE ~r.tasks[j].started
    BY <2>1, <2>3
  <2> QED
    BY <2>2, <2>3
<1> QED
  BY <1>1, <1>2, <1>3 DEF Runnable, Free

\* A thread that is held back until the task that started it lets it go waits for
\* a task that runs or can run: a yield, a park, a return, an exception and the end
\* of its grace all let it go (releaseStartedThreads).
THEOREM KTFBlockersCanRun == TasksSpec => []BlockersCanRun
<1>1. TasksInv => BlockersCanRun
  <2> SUFFICES ASSUME TasksInv, NEW i \in Living(rt), rt.tasks[i].blocker # 0
               PROVE  LET p == rt.tasks[i].blocker
                      IN  p # Gone /\ p # i /\ (p = rt.active \/ Runnable(rt, p))
    BY DEF BlockersCanRun
  <2> DEFINE p == rt.tasks[i].blocker
  <2>1. rt \in Runtimes /\ Core(rt) /\ i \in DOMAIN rt.tasks
    BY DEF TasksInv, RuntimeInv, Living
  <2>2. Gone \notin DOMAIN rt.tasks /\ 0 \notin DOMAIN rt.tasks /\ Living(rt) \subseteq DOMAIN rt.tasks
    BY <2>1, TableFields DEF Gone, Living
  <2>3. CASE p = rt.active
    <3>1. ActiveFits(rt, {}) /\ ActiveFree(rt)
      BY <2>3 DEF TasksInv, RuntimeInv
    <3>2. ~Quiet(rt)
      BY <2>1, <2>3 DEF Quiet
    <3>3. rt.active \in Living(rt) /\ Free(rt.tasks[rt.active])
      BY <3>1, <3>2 DEF ActiveFits, ActiveFree
    <3> QED
      BY <2>2, <2>3, <3>3 DEF Free
  <2>4. CASE p \in Living(rt) /\ Free(rt.tasks[p])
    <3>1. Runnable(rt, p)
      BY <2>1, <2>4, FreeRuns DEF Core
    <3> QED
      BY <2>2, <2>4, <3>1 DEF Free
  <2> QED
    BY <2>1, <2>3, <2>4 DEF Core, Blocks
<1> QED
  BY <1>1, TasksInvariant, PTL

\* A card has at most one paint under way, the one that PaintTasks names, also when
\* that paint sleeps or asks for a repaint itself (paintCard).
THEOREM KTFOnePaintPerCard == TasksSpec => []OnePaintPerCard
<1>1. TasksInv => OnePaintPerCard
  BY DEF TasksInv, RuntimeInv, Core, Paints, OnePaintPerCard
<1> QED
  BY <1>1, TasksInvariant, PTL

\* A save taken between slices numbers only tasks that are in the table, and its
\* timers are such as readJavaTimerState accepts, but for a callback that cancelled
\* its own TimerTask and a one-shot that is still running (writeState).
THEOREM KTFOnlyTimerTasksSpoilASave == TasksSpec => []OnlyTimerTasksSpoilASave
<1>1. TasksInv => OnlyTimerTasksSpoilASave
  <2> SUFFICES ASSUME TasksInv, CanBeSaved
               PROVE  /\ \A i \in DOMAIN rt.tasks : rt.tasks[i].blocker # Gone
                      /\ \A c \in Cards : rt.paintOf[c] # Gone
                      /\ \A t \in rt.orphans : t # Nobody /\ rt.status[t] = "cancelled"
                      /\ \A i \in Living(rt) : rt.tasks[i].timer # Nobody =>
                           \/ rt.status[rt.tasks[i].timer] = "scheduled"
                           \/ rt.tasks[i].started /\ rt.tasks[i].period = 0
    BY DEF OnlyTimerTasksSpoilASave
  <2>1. rt \in Runtimes /\ Core(rt) /\ Marks(rt) /\ rt.active = 0
    BY DEF TasksInv, RuntimeInv, CanBeSaved
  <2>2. Gone \notin Living(rt) /\ Gone # 0
    BY <2>1, TableFields DEF Gone, Living
  <2>3. \A i \in DOMAIN rt.tasks : rt.tasks[i].blocker # Gone
    BY <2>1, <2>2 DEF Core, Blocks
  <2>4. \A c \in Cards : rt.paintOf[c] # Gone
    BY <2>1, <2>2 DEF Marks, PaintPlaces
  <2>5. \A t \in rt.orphans : t # Nobody /\ rt.status[t] = "cancelled"
    BY <2>1, TasksAssumption DEF Marks, Leftovers, Cancelled
  <2>6. \A i \in Living(rt) : rt.tasks[i].timer # Nobody =>
          \/ rt.status[rt.tasks[i].timer] = "scheduled"
          \/ rt.tasks[i].started /\ rt.tasks[i].period = 0
    BY <2>1 DEF Core, Callbacks, Known
  <2> QED
    BY <2>3, <2>4, <2>5, <2>6
<1> QED
  BY <1>1, TasksInvariant, PTL
=============================================================================
