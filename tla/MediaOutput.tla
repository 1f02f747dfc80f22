---------------------------- MODULE MediaOutput ----------------------------
(***************************************************************************)
(* The mixed output the host drains (runtime/media.go advanceLocked,       *)
(* Drain, invalidateOutput; runtime/media_output.go): a bounded queue of   *)
(* frames and, beside it, spans that say at which guest time each run of   *)
(* frames was mixed.  Slow hosts lose the oldest frames, and advances of   *)
(* less than a frame carry a remainder.                                    *)
(*                                                                         *)
(* One output channel, so a sample is a frame; a frame lasts FrameTicks.   *)
(* The queue holds, for every frame, the guest time it belongs to (a ghost *)
(* of the sample), or Unknown once the machine was loaded from a save.     *)
(***************************************************************************)
EXTENDS Integers, Sequences

CONSTANTS FrameTicks, Retention, Deltas, MaxTime, Unknown

\* The machines advance by frames, or by the positive parts a KTF quantum is cut into.
ASSUME MediaOutputAssumption ==
  /\ FrameTicks \in Nat \ {0} /\ Retention \in Nat \ {0}
  /\ Deltas \subseteq Nat \ {0} /\ MaxTime \in Nat

VARIABLES
  now,
  queuedPCM16,       \* the queue, oldest frame first
  queuedAudioSpans,  \* [start, end, firstFrame, samples] of its timed part
  untimedSamples,    \* frames at its front that no span describes
  outputRemainder    \* ticks mixed of a frame that is not complete

vars == <<now, queuedPCM16, queuedAudioSpans, untimedSamples, outputRemainder>>

Init ==
  /\ now = 0
  /\ queuedPCM16 = <<>> /\ queuedAudioSpans = <<>>
  /\ untimedSamples = 0 /\ outputRemainder = 0

DropFirst(s, n) == SubSeq(s, n + 1, Len(s))
Least(a, b) == IF a <= b THEN a ELSE b

\* Mutant: a span that lost its first frames keeps its anchor.
TrimmedKeepsAnchor(span, drop) == [span EXCEPT !.samples = @ - drop]

Trimmed(span, drop) == [span EXCEPT !.samples = @ - drop, !.firstFrame = @ + drop]

\* How many frames the first i spans have: the queue's offset of the next one.
Ends(spans) ==
  LET end[i \in 0 .. Len(spans)] == IF i = 0 THEN 0 ELSE end[i - 1] + spans[i].samples
  IN  end

\* trimAudioSpans: whole spans from the front, and a part of the one after them.
TrimAudioSpans(spans, samples) ==
  LET end == Ends(spans)
      whole == CHOOSE n \in 0 .. Len(spans) :
                 /\ end[n] <= samples
                 /\ n = Len(spans) \/ samples < end[n + 1]
      rest == DropFirst(spans, whole)
  IN  IF rest = <<>> THEN rest
      ELSE [rest EXCEPT ![1] = Trimmed(rest[1], samples - end[whole])]

\* A block that follows the last span without a gap extends it.
AddSpan(spans, start, end, firstFrame, samples) ==
  LET last == Len(spans)
  IN  IF spans # <<>> /\ firstFrame = 0 /\ spans[last].end = start
        THEN [spans EXCEPT ![last].end = end, ![last].samples = @ + samples]
        ELSE Append(spans, [start |-> start, end |-> end, firstFrame |-> firstFrame,
                            samples |-> samples])

\* queueOutput, for blocks whose first frame already respects the retention.
QueueOutput(mixed, start, end, firstFrame) ==
  LET overflow == Len(queuedPCM16) + Len(mixed) - Retention
      lost == IF Len(mixed) >= Retention THEN Len(queuedPCM16)
              ELSE IF overflow > 0 THEN overflow ELSE 0
      untimedLost == Least(lost, untimedSamples)
  IN  /\ queuedPCM16' = DropFirst(queuedPCM16, lost) \o mixed
      /\ untimedSamples' = untimedSamples - untimedLost
      /\ queuedAudioSpans' = AddSpan(TrimAudioSpans(queuedAudioSpans, lost - untimedLost),
                                     start, end, firstFrame, Len(mixed))

\* advanceLocked: some voice is decoded (active), and one of those is neither
\* muted nor silent (audible).
Advance(delta, active, audible) ==
  LET ticks == outputRemainder + delta
      frameCount == IF active THEN ticks \div FrameTicks ELSE 0
      firstFrame == IF audible /\ frameCount > Retention THEN frameCount - Retention ELSE 0
      mixed == [k \in 1 .. (IF audible THEN frameCount - firstFrame ELSE 0) |->
                  now - outputRemainder + (firstFrame + k - 1) * FrameTicks]
      last == Len(queuedAudioSpans)
  IN  /\ now + delta <= MaxTime
      /\ audible => active
      /\ now' = now + delta
      /\ outputRemainder' = IF active THEN ticks % FrameTicks ELSE 0
      /\ \/ /\ mixed # <<>>
            /\ QueueOutput(mixed, now, now + delta, firstFrame)
         \/ /\ mixed = <<>>
            /\ queuedAudioSpans' =
                 IF audible /\ last # 0 /\ queuedAudioSpans[last].end = now
                 THEN [queuedAudioSpans EXCEPT ![last].end = now + delta] ELSE queuedAudioSpans
            /\ UNCHANGED <<queuedPCM16, untimedSamples>>

\* Pause, seek, a change of gain and the like make the queue stale.
InvalidateOutput ==
  /\ queuedPCM16' = <<>> /\ queuedAudioSpans' = <<>>
  /\ untimedSamples' = 0 /\ outputRemainder' = 0
  /\ UNCHANGED now

Drain ==
  /\ queuedPCM16' = <<>> /\ queuedAudioSpans' = <<>> /\ untimedSamples' = 0
  /\ UNCHANGED <<now, outputRemainder>>

\* The oldest span, after the untimed frames before it were discarded.
DrainTimed ==
  /\ untimedSamples' = 0
  /\ \/ /\ queuedAudioSpans = <<>>
        /\ queuedPCM16' = DropFirst(queuedPCM16, untimedSamples)
        /\ UNCHANGED queuedAudioSpans
     \/ /\ queuedAudioSpans # <<>>
        /\ queuedPCM16' = DropFirst(queuedPCM16, untimedSamples + Head(queuedAudioSpans).samples)
        /\ queuedAudioSpans' = Tail(queuedAudioSpans)
  /\ UNCHANGED <<now, outputRemainder>>

\* A load keeps the frames and forgets their times.
SaveAndLoad ==
  /\ queuedPCM16' = [i \in 1 .. Len(queuedPCM16) |-> Unknown]
  /\ queuedAudioSpans' = <<>>
  /\ untimedSamples' = Len(queuedPCM16)
  /\ UNCHANGED <<now, outputRemainder>>

Next ==
  \/ \E delta \in Deltas, active, audible \in BOOLEAN : Advance(delta, active, audible)
  \/ InvalidateOutput
  \/ Drain
  \/ DrainTimed
  \/ SaveAndLoad

Spec == Init /\ [][Next]_vars

-----------------------------------------------------------------------------
(* Properties. *)

\* Every queued frame is accounted for, as untimed or by exactly one span, so that
\* DrainTimed never reads past the queue (which would crash the host) nor leaves
\* frames no span will ever release; and the anchor it reports for a span is, for
\* every frame in it, less than one frame away from the time the frame was mixed
\* for: losing old frames, merging blocks and carrying remainders never add up to a
\* drift.
SpansTellTheFrames ==
  LET end == Ends(queuedAudioSpans)
  IN  /\ untimedSamples + end[Len(queuedAudioSpans)] = Len(queuedPCM16)
      /\ Len(queuedPCM16) <= Retention
      /\ \A i \in DOMAIN queuedAudioSpans :
           LET span == queuedAudioSpans[i]
               offset == untimedSamples + end[i - 1]
           IN  /\ span.samples > 0
               /\ \A k \in 1 .. span.samples :
                    LET mixedFor == queuedPCM16[offset + k]
                        anchor == span.start + (span.firstFrame + k - 1) * FrameTicks
                    IN  mixedFor <= anchor /\ anchor - mixedFor < FrameTicks
=============================================================================
