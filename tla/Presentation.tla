---------------------------- MODULE Presentation ----------------------------
(***************************************************************************)
(* How a KTF or WIPI machine hands its mixed audio to a host               *)
(* (application/audio_presentation.go and its callers in machine.go,       *)
(* state.go, machine_ktf.go and machine_wipi.go).  The emulation goroutine *)
(* advances the services, drains the media queue (MediaOutput) and         *)
(* publishes the frames as a chunk under audioMu; the host's audio thread  *)
(* takes chunks under audioMu alone, between any two steps.  A chunk is    *)
(* placed by guest time and by a sample index within its generation; every *)
(* discontinuity starts a new generation, and so do a pause, a stop and a  *)
(* switch of the audio policy, which are none.                             *)
(*                                                                         *)
(* One channel and one sample rate.  The consumed prefix of the published  *)
(* slice is not kept (compactPublishedAudioLocked).  A chunk also carries  *)
(* two ghosts: the era its frames were mixed in, which changes with every  *)
(* discontinuity of the guest's audio, and what guest time they are of.    *)
(***************************************************************************)
EXTENDS MediaOutput, Functions

CONSTANTS
  Slack,           \* audioCursorSlack, in frames
  PublishedLimit,  \* publishedAudioRetention, in frames
  MaxStepTime,     \* bound on the clock, below MediaOutput's
  MaxEras,         \* bound on the discontinuities
  MaxPauses        \* bound: generation from which pauses and the like begin none

ASSUME PresentationAssumption ==
  /\ Slack \in Nat \ {0} /\ PublishedLimit \in Nat \ {0}
  /\ MaxStepTime \in Nat /\ MaxEras \in Nat /\ MaxPauses \in Nat

VARIABLES
  phase,               \* idle; advanced: between Advance and publish; loading
  stepStart,           \* the clock before the advance
  outputRevision,      \* of the media service
  mediaOutputRevision, \* the last one published under
  audio,               \* generation, pending, epoch, cursor and its validity
  publishedAudio, publishedSamples,
  savedMedia,          \* the clock and the remainder of a save
  era,                 \* ghost
  heard                \* ghost: the last generation the host was told of, and of
                       \* which generation, era and end the last PCM it took was

presentationVars ==
  <<vars, phase, stepStart, outputRevision, mediaOutputRevision, audio, publishedAudio,
    publishedSamples, savedMedia, era, heard>>

PresentationInit ==
  /\ Init
  /\ phase = "idle" /\ stepStart = 0
  /\ outputRevision = 0 /\ mediaOutputRevision = 0
  /\ audio = [generation |-> 0, pending |-> FALSE, epoch |-> 0, cursor |-> 0, valid |-> FALSE]
  /\ publishedAudio = <<>> /\ publishedSamples = 0
  /\ savedMedia = [now |-> 0, remainder |-> 0]
  /\ era = 0
  /\ heard = [generation |-> 0, pcm |-> [generation |-> 0, end |-> 0, era |-> 0]]

-----------------------------------------------------------------------------
(* Generations.  A board is what audioMu guards: the generation's record,  *)
(* the published chunks and their number of frames.                        *)

Board == [audio |-> audio, chunks |-> publishedAudio, samples |-> publishedSamples]

Post(board) ==
  /\ audio' = board.audio
  /\ publishedAudio' = board.chunks
  /\ publishedSamples' = board.samples

\* nextAudioGenerationLocked: what was published becomes unreachable.
NextGeneration(board, epoch) ==
  [audio |-> [generation |-> board.audio.generation + 1, pending |-> TRUE,
              epoch |-> epoch, cursor |-> 0, valid |-> FALSE],
   chunks |-> <<>>, samples |-> 0]

EnsureGeneration(board) ==
  [board EXCEPT !.audio.generation = IF @ = 0 THEN 1 ELSE @]

SampleCursor(elapsed) == IF elapsed <= 0 THEN 0 ELSE elapsed \div FrameTicks

\* Mutant: every chunk is placed by its rounded guest time.
StartSampleByTime(a, start) == SampleCursor(start - a.epoch)

\* audioStartSampleLocked: the running cursor, unless it is off by more than
\* the slack.
StartSample(a, start) ==
  LET anchor == SampleCursor(start - a.epoch)
      off == IF anchor >= a.cursor THEN anchor - a.cursor ELSE a.cursor - anchor
  IN  IF a.valid /\ off <= Slack THEN a.cursor ELSE anchor

\* Mutant: a chunk that lost its first frames keeps its place.
CutKeepsStart(chunk, n) == [chunk EXCEPT !.frames = DropFirst(@, n)]

\* advanceChunkStart and the cut that goes with it.
Cut(chunk, n) ==
  [chunk EXCEPT !.frames = DropFirst(@, n), !.sample = @ + n, !.start = @ + n * FrameTicks]

DropOldest(board, n) ==
  [board EXCEPT !.chunks = DropFirst(@, n),
                !.samples = @ - SumFunctionOnSet([i \in DOMAIN board.chunks |->
                                                    Len(board.chunks[i].frames)], 1 .. n)]

\* retainPublishedAudioLocked: an oversized chunk loses its oldest frames, then
\* the oldest chunks make room.
Retain(board, chunk) ==
  LET excess == Len(chunk.frames) - PublishedLimit
      kept == IF excess > 0 THEN Cut(chunk, excess) ELSE chunk
      fits(n) == DropOldest(board, n).samples + Len(kept.frames) <= PublishedLimit
      n == CHOOSE n \in 0 .. Len(board.chunks) :
             /\ fits(n) \/ n = Len(board.chunks)
             /\ \A k \in 0 .. n - 1 : ~fits(k)
      room == DropOldest(board, n)
  IN  [audio |-> [board.audio EXCEPT !.cursor = kept.sample + Len(kept.frames), !.valid = TRUE],
       chunks |-> Append(room.chunks, kept),
       samples |-> room.samples + Len(kept.frames)]

\* publishAudioBufferLocked.
PublishBuffer(board, frames, start, mixedIn) ==
  LET ensured == EnsureGeneration(board)
      current == IF start < ensured.audio.epoch THEN NextGeneration(ensured, start) ELSE ensured
      chunk == [generation |-> current.audio.generation, start |-> start,
                sample |-> StartSample(current.audio, start), frames |-> frames, era |-> mixedIn]
  IN  IF frames = <<>> THEN board ELSE Retain(current, chunk)

-----------------------------------------------------------------------------
(* The emulation goroutine.  Steps are shorter than what the queue holds.  *)

AdvanceServices(delta, active, audible) ==
  /\ phase = "idle" /\ delta <= Retention * FrameTicks /\ now + delta <= MaxStepTime
  /\ Advance(delta, active, audible)
  /\ stepStart' = now /\ phase' = "advanced"
  /\ UNCHANGED <<outputRevision, mediaOutputRevision, audio, publishedAudio, publishedSamples,
                 savedMedia, era, heard>>

\* Mutant: a changed revision starts no new generation.
PublishIgnoringRevision ==
  /\ phase = "advanced" /\ phase' = "idle"
  /\ Drain
  /\ Post(PublishBuffer(Board, queuedPCM16, stepStart, era))
  /\ mediaOutputRevision' = outputRevision /\ stepStart' = 0
  /\ UNCHANGED <<outputRevision, savedMedia, era, heard>>

\* publishAudioFromMedia.
PublishAudioFromMedia ==
  /\ phase = "advanced" /\ phase' = "idle"
  /\ Drain
  /\ Post(PublishBuffer(IF outputRevision = mediaOutputRevision THEN Board
                        ELSE NextGeneration(Board, stepStart), queuedPCM16, stepStart, era))
  /\ mediaOutputRevision' = outputRevision /\ stepStart' = 0
  /\ UNCHANGED <<outputRevision, savedMedia, era, heard>>

Discontinuity == era < MaxEras /\ era' = era + 1

\* The guest seeks, changes a gain, and so on.
GuestInvalidates ==
  /\ phase = "idle" /\ Discontinuity
  /\ InvalidateOutput /\ outputRevision' = outputRevision + 1
  /\ UNCHANGED <<phase, stepStart, mediaOutputRevision, audio, publishedAudio, publishedSamples,
                 savedMedia, heard>>

-----------------------------------------------------------------------------
(* The frontend.  Pause, Stop and SetAudioMixMode need the machine's lock only, *)
(* so they may fall between the two halves of a KTF step, and not in a load.    *)

\* beginAudioGeneration at the guest's time: the sound itself goes on.
GenerationFromNow ==
  /\ audio.generation < MaxPauses
  /\ Post(NextGeneration(Board, now))
  /\ UNCHANGED <<vars, phase, stepStart, outputRevision, mediaOutputRevision, savedMedia, era,
                 heard>>

PauseOrStop == phase # "loading" /\ GenerationFromNow

\* A switch of the audio policy, which the media service only remembers.
SetAudioMixMode == phase # "loading" /\ GenerationFromNow

SaveMedia ==
  /\ phase = "idle"
  /\ savedMedia' = [now |-> now, remainder |-> outputRemainder]
  /\ UNCHANGED <<vars, phase, stepStart, outputRevision, mediaOutputRevision, audio,
                 publishedAudio, publishedSamples, era, heard>>

\* New services take over, with a media service that counts revisions afresh.
ReplaceServices(clock, remainder, revision) ==
  /\ now' = clock /\ outputRemainder' = remainder /\ outputRevision' = revision
  /\ queuedPCM16' = <<>> /\ queuedAudioSpans' = <<>> /\ untimedSamples' = 0

\* Reset; one that fails has started a generation and kept the services.
ResetMachine(succeeds) ==
  /\ phase = "idle" /\ Discontinuity
  /\ Post(NextGeneration(Board, 0))
  /\ IF succeeds THEN ReplaceServices(0, 0, 0) ELSE UNCHANGED <<vars, outputRevision>>
  /\ UNCHANGED <<phase, stepStart, mediaOutputRevision, savedMedia, heard>>

\* LoadState, to the first change it makes.
BeginLoad ==
  /\ phase = "idle" /\ Discontinuity
  /\ Post(NextGeneration(Board, 0)) /\ phase' = "loading"
  /\ UNCHANGED <<vars, stepStart, outputRevision, mediaOutputRevision, savedMedia, heard>>

\* ... and the rest: the media service was restored once.
EndLoad ==
  /\ phase = "loading" /\ phase' = "idle"
  /\ ReplaceServices(savedMedia.now, savedMedia.remainder, 1)
  /\ audio' = [EnsureGeneration(Board).audio EXCEPT !.epoch = savedMedia.now,
                                                    !.cursor = 0, !.valid = FALSE]
  /\ UNCHANGED <<stepStart, mediaOutputRevision, publishedAudio, publishedSamples, savedMedia,
                 era, heard>>

\* A load that fails half way leaves the old services or the new ones.
FailLoad(replaced) ==
  /\ phase = "loading" /\ phase' = "idle"
  /\ IF replaced THEN ReplaceServices(savedMedia.now, savedMedia.remainder, 1)
     ELSE UNCHANGED <<vars, outputRevision>>
  /\ UNCHANGED <<stepStart, mediaOutputRevision, audio, publishedAudio, publishedSamples,
                 savedMedia, era, heard>>

-----------------------------------------------------------------------------
(* The host's audio thread. *)

\* What is checked of a chunk once the host has it.
Summary(chunk) ==
  [generation |-> chunk.generation, end |-> chunk.sample + Len(chunk.frames), era |-> chunk.era]
Hear(chunk) == [generation |-> chunk.generation, pcm |-> Summary(chunk)]

\* Mutant: taking a chunk leaves the change pending.
DrainKeepsPending ==
  /\ publishedAudio # <<>>
  /\ Post(DropOldest(Board, 1))
  /\ heard' = Hear(Head(publishedAudio))
  /\ UNCHANGED <<vars, phase, stepStart, outputRevision, mediaOutputRevision, savedMedia, era>>

\* DrainPublishedAudio: the oldest chunk, or else the marker of a new generation.
DrainChunk ==
  /\ publishedAudio # <<>>
  /\ Post(DropOldest([Board EXCEPT !.audio.pending = FALSE], 1))
  /\ heard' = Hear(Head(publishedAudio))
  /\ UNCHANGED <<vars, phase, stepStart, outputRevision, mediaOutputRevision, savedMedia, era>>

DrainMarker ==
  /\ publishedAudio = <<>> /\ audio.pending
  /\ audio' = [audio EXCEPT !.pending = FALSE]
  /\ heard' = [heard EXCEPT !.generation = audio.generation]
  /\ UNCHANGED <<vars, phase, stepStart, outputRevision, mediaOutputRevision, publishedAudio,
                 publishedSamples, savedMedia, era>>

\* DrainAudio with nothing published drains the media service itself, and does not
\* look at its revision.  Between steps that queue is empty; a KTF step does not hold
\* the machine's lock.
DrainAudio ==
  /\ phase = "advanced"
  /\ publishedAudio = <<>> /\ ~audio.pending /\ queuedPCM16 # <<>>
  /\ LET duration == Len(queuedPCM16) * FrameTicks
         start == IF duration > now THEN 0 ELSE now - duration
     IN  Post(PublishBuffer(Board, queuedPCM16, start, era))
  /\ Drain
  /\ UNCHANGED <<phase, stepStart, outputRevision, mediaOutputRevision, savedMedia, era, heard>>

PresentationNext ==
  \/ \E delta \in Deltas, active, audible \in BOOLEAN : AdvanceServices(delta, active, audible)
  \/ PublishAudioFromMedia
  \/ GuestInvalidates
  \/ PauseOrStop
  \/ SetAudioMixMode
  \/ SaveMedia
  \/ \E succeeds \in BOOLEAN : ResetMachine(succeeds)
  \/ BeginLoad
  \/ EndLoad
  \/ \E replaced \in BOOLEAN : FailLoad(replaced)
  \/ DrainChunk
  \/ DrainMarker

PresentationSpec == PresentationInit /\ [][PresentationNext]_presentationVars

\* The host calls DrainAudio without waiting for a step to end.
ConcurrentSpec == PresentationInit /\ [][PresentationNext \/ DrainAudio]_presentationVars

-----------------------------------------------------------------------------
(* Properties. *)

\* What precedes the i-th published chunk in what the host hears.
Before(i) == IF i = 1 THEN heard.pcm ELSE Summary(publishedAudio[i - 1])

\* The stream a host hears only moves forward: no chunk of an older generation
\* follows one of a newer, and within a generation no sample index is used
\* twice, whatever was dropped, rounded or cut in between.
StreamMovesForward ==
  \A i \in DOMAIN publishedAudio :
    LET c == publishedAudio[i]
    IN  \/ Before(i).generation < c.generation
        \/ Before(i).generation = c.generation /\ Before(i).end <= c.sample

\* Audio from before a discontinuity (a seek, a change of gain, a reset, a load; not
\* a pause or a switch of the audio policy, which leave the sound as it is) never
\* shares a generation with audio from after it, so a host that discards
\* its buffer when the generation changes plays none of it too late.
OneEraPerGeneration ==
  \A i \in DOMAIN publishedAudio :
    Before(i).generation = publishedAudio[i].generation => Before(i).era = publishedAudio[i].era

\* The time a chunk carries is the guest time of its first frame, less than a
\* frame late, and its index agrees with that time to within the slack: the
\* running cursor hides rounding, and never a drift.
ChunksAreWhereTheySay ==
  \A i \in DOMAIN publishedAudio :
    LET c == publishedAudio[i]
        byTime == SampleCursor(c.start - audio.epoch)
    IN  /\ c.frames[1] <= c.start /\ c.start - c.frames[1] < FrameTicks
        /\ c.sample <= byTime + Slack /\ byTime <= c.sample + Slack

\* "Producers report a pending change once, either in new PCM or in an empty
\* marker": the change is pending exactly as long as the host has not been told
\* of the generation; the first one may start without a report.
ChangesAreReportedOnce ==
  /\ audio.pending => heard.generation # audio.generation
  /\ audio.generation > 1 /\ heard.generation # audio.generation => audio.pending
=============================================================================
