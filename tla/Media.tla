------------------------------- MODULE Media -------------------------------
(***************************************************************************)
(* The clip timeline of the shared media service (runtime/media.go): a     *)
(* guest fills a clip's encoded buffer piece by piece, plays, pauses,      *)
(* seeks and stops it; an advance moves every sounding clip and announces  *)
(* completions; a save is decoded again when it is loaded.                 *)
(*                                                                         *)
(* An encoded buffer is abstracted to what the decoders say of it:         *)
(*   empty    no bytes                                                     *)
(*   wave     a WAV file decodeWavePCM16 accepts                           *)
(*   score    a complete SMAF or SMF container that decodes                *)
(*   broken   a complete container that does not                           *)
(*   prefix   the beginning of a container (looksLikeSequencedPrefix)      *)
(*   partial  anything else                                                *)
(* What was mixed for the host is the subject of MediaOutput.              *)
(***************************************************************************)
EXTENDS Integers, FiniteSets, FiniteSetsExt

CONSTANTS
  ClipIDs,      \* 1 .. n, handed out in order and never again
  MaxClips,     \* limit on the clips alive at once
  Length,       \* duration of anything that decodes
  MaxPosition,  \* bound on the positions a guest seeks to
  ClipDeltas,   \* what an advance moves by
  PlayCounts,   \* the play counts Play is called with, beside Loop
  MaxEvents,    \* room on the event bus
  None

ASSUME MediaAssumption ==
  /\ ClipIDs \subseteq Nat \ {0} /\ MaxClips \in Nat \ {0}
  /\ Length \in Nat \ {0} /\ MaxPosition \in Nat /\ ClipDeltas \subseteq Nat
  /\ PlayCounts \subseteq Nat \ {0}
  /\ MaxEvents \in Nat

VARIABLES
  clips,       \* by ID: None, or the clip
  nextClip,    \* the ID the registry hands out next
  bgmVoice,    \* None, or the loop that plays on after its clip was stopped
  preserveStoppedLoops,
  completed,   \* by ID: completion events not yet taken off the bus
  tickFailed,  \* an advance met a playing clip with no decoder
  starved      \* ghost: clips that lost their decoder to an AppendSource while paused

clipVars == <<clips, nextClip, bgmVoice, preserveStoppedLoops, completed, tickFailed, starved>>

Loop == -1

Sources == {"empty", "wave", "score", "broken", "prefix", "partial"}

DecodesAsWave(source) == source = "wave"
DecodesAsScore(source) == source = "score"
Decodes(source) == DecodesAsWave(source) \/ DecodesAsScore(source)
LooksLikePrefix(source) == source \in {"prefix", "score", "broken"}

\* What a buffer may be once more bytes are appended to it.  An opening tag is
\* four bytes, so fewer are still partial; a container whose header is there may
\* gain or lose its events with the next track; a WAV file is parsed to the last
\* byte.
Extended ==
  [empty |-> Sources \ {"empty"}, wave |-> {"wave", "partial"},
   score |-> {"score", "broken"}, broken |-> {"broken", "score"},
   prefix |-> {"prefix", "score", "broken"}, partial |-> Sources \ {"empty"}]

\* mediaClip; what is missing is no clip.
ClipRecords ==
  [source : Sources, position : Nat, state : {"stopped", "playing", "paused"},
   plays : Nat \cup {Loop}, decoded : BOOLEAN, waiting : BOOLEAN]

ASSUME NoneAssumption == None \notin ClipRecords

NewClip == [source |-> "empty", position |-> 0, state |-> "stopped", plays |-> 0,
            decoded |-> FALSE, waiting |-> FALSE]

Alive == {c \in ClipIDs : clips[c] # None}
Playing == {c \in Alive : clips[c].state = "playing"}
Sounding == {c \in Alive : clips[c].state # "stopped"}

ClipsInit ==
  /\ clips = [c \in ClipIDs |-> None] /\ nextClip = 1
  /\ bgmVoice = None /\ preserveStoppedLoops \in BOOLEAN
  /\ completed = [c \in ClipIDs |-> 0]
  /\ tickFailed = FALSE /\ starved = {}

\* An operation that changes one clip only.
Update(c, clip) ==
  /\ clips' = [clips EXCEPT ![c] = clip]
  /\ UNCHANGED <<nextClip, preserveStoppedLoops, completed, tickFailed>>

-----------------------------------------------------------------------------
CreateClip ==
  /\ nextClip \in ClipIDs /\ Cardinality(Alive) < MaxClips
  /\ clips' = [clips EXCEPT ![nextClip] = NewClip]
  /\ nextClip' = nextClip + 1
  /\ UNCHANGED <<bgmVoice, preserveStoppedLoops, completed, tickFailed, starved>>

DestroyClip(c) ==
  /\ c \in Alive /\ clips[c].state = "stopped"
  /\ clips' = [clips EXCEPT ![c] = None]
  /\ completed' = [completed EXCEPT ![c] = 0]
  /\ starved' = starved \ {c}
  /\ UNCHANGED <<nextClip, bgmVoice, preserveStoppedLoops, tickFailed>>

\* Mutant: a clip that waits for the rest of its score is not decoded again.
ScoreWantedOnlyIfDecoded(clip) == clip.decoded

\* A score is decoded on AppendSource only if the clip already played one or waits
\* for it.
ScoreWanted(clip) == clip.decoded \/ clip.waiting

\* Mutant: only the beginning of a score is waited for.
WaitsForScore(clip, source, decoded) ==
  ~decoded /\ ((clip.state = "playing" /\ LooksLikePrefix(source)) \/ clip.waiting)

\* A playing clip that stops decoding waits, whatever its bytes look like.
Waits(clip, source, decoded) == ~decoded /\ (clip.state = "playing" \/ clip.waiting)

AppendSource(c, source) ==
  /\ c \in Alive /\ source \in Extended[clips[c].source]
  /\ LET clip == clips[c]
         decoded == DecodesAsWave(source) \/ (ScoreWanted(clip) /\ DecodesAsScore(source))
     IN  /\ Update(c, [clip EXCEPT
              !.source = source,
              !.decoded = decoded,
              !.waiting = Waits(clip, source, decoded),
              !.position = IF decoded /\ clip.position > Length THEN Length ELSE clip.position])
         /\ starved' = IF clip.state = "paused" /\ ~decoded /\ ~clip.waiting
                       THEN starved \cup {c} ELSE IF decoded THEN starved \ {c} ELSE starved
  /\ UNCHANGED bgmVoice

\* ReplaceSource, and Clear with no bytes.
ReplaceSource(c, source) ==
  /\ c \in Alive /\ clips[c].state = "stopped"
  /\ Update(c, [NewClip EXCEPT !.source = source, !.decoded = DecodesAsWave(source)])
  /\ UNCHANGED <<bgmVoice, starved>>

\* Reading removes bytes from the front of what playback has not consumed.  What
\* is left may be anything: streamed tracks lie behind each other.
TakeBuffered(c, rest) ==
  /\ c \in Alive /\ clips[c].state = "stopped" /\ clips[c].source # "empty"
  /\ ~(clips[c].decoded /\ clips[c].position >= Length)
  /\ Update(c, [clips[c] EXCEPT !.source = rest, !.position = 0,
                                !.decoded = DecodesAsWave(rest), !.waiting = FALSE])
  /\ UNCHANGED <<bgmVoice, starved>>

ResetForReconcile(c) ==
  /\ c \in Alive
  /\ Update(c, NewClip)
  /\ starved' = starved \ {c}
  /\ UNCHANGED bgmVoice

Prepare(c) ==
  /\ c \in Alive /\ clips[c].state = "stopped"
  /\ clips[c].decoded \/ DecodesAsScore(clips[c].source)
  /\ Update(c, [clips[c] EXCEPT !.decoded = TRUE])
  /\ UNCHANGED <<bgmVoice, starved>>

\* The beginning of a score may be played: the clip waits for the rest.
Play(c, plays) ==
  /\ c \in Alive /\ clips[c].state = "stopped"
  /\ LET clip == clips[c]
         decoded == clip.decoded \/ DecodesAsScore(clip.source)
     IN  /\ decoded \/ LooksLikePrefix(clip.source)
         /\ Update(c, [clip EXCEPT
              !.decoded = decoded,
              !.waiting = ~decoded \/ clip.waiting,
              !.position = IF decoded /\ clip.position >= Length THEN 0 ELSE clip.position,
              !.plays = plays,
              !.state = "playing"])
  /\ bgmVoice' = IF plays = Loop THEN None ELSE bgmVoice
  /\ UNCHANGED starved

Pause(c) ==
  /\ c \in Playing
  /\ Update(c, [clips[c] EXCEPT !.state = "paused"])
  /\ UNCHANGED <<bgmVoice, starved>>

Resume(c) ==
  /\ c \in Sounding \ Playing
  /\ Update(c, [clips[c] EXCEPT !.state = "playing"])
  /\ UNCHANGED <<bgmVoice, starved>>

\* Stop and StopOnTimeline keep a playing loop as the background voice when the
\* title's policy says so; StopForRelease and StopWithoutPreservation never do.
Stop(c, keepLoop) ==
  /\ c \in Sounding
  /\ bgmVoice' = IF keepLoop /\ c \in Playing /\ clips[c].plays = Loop /\ clips[c].decoded
                 THEN [source |-> clips[c].source, position |-> clips[c].position] ELSE bgmVoice
  /\ Update(c, [clips[c] EXCEPT !.state = "stopped", !.plays = 0, !.waiting = FALSE])
  /\ starved' = starved \ {c}

Seek(c, position) ==
  /\ c \in Alive /\ position # clips[c].position
  /\ clips[c].decoded => position <= Length
  /\ Update(c, [clips[c] EXCEPT !.position = position])
  /\ UNCHANGED <<bgmVoice, starved>>

SetStoppedLoopPreservation(on) ==
  /\ preserveStoppedLoops # on
  /\ preserveStoppedLoops' = on
  /\ bgmVoice' = IF on THEN bgmVoice ELSE None
  /\ UNCHANGED <<clips, nextClip, completed, tickFailed, starved>>

-----------------------------------------------------------------------------
(* Advancing. *)

Wraps(clip, delta) == (clip.position + delta) \div Length

Completes(clip, delta) ==
  /\ clip.state = "playing" /\ clip.decoded /\ clip.plays # Loop
  /\ Wraps(clip, delta) # 0 /\ Wraps(clip, delta) >= clip.plays

\* advanceClipTimeline; a clip that waits for data stands still.
Moved(clip, delta) ==
  IF clip.state # "playing" \/ ~clip.decoded THEN clip
  ELSE IF Completes(clip, delta)
    THEN [clip EXCEPT !.position = Length, !.state = "stopped", !.plays = 0]
  ELSE IF Wraps(clip, delta) = 0 THEN [clip EXCEPT !.position = @ + delta]
  ELSE [clip EXCEPT !.position = (@ + delta) % Length,
                    !.plays = IF @ = Loop THEN Loop ELSE @ - Wraps(clip, delta)]

Broken == {c \in Playing : ~clips[c].decoded /\ ~clips[c].waiting}

AdvanceClips(delta) ==
  LET ends == {c \in Alive : Completes(clips[c], delta)}
  IN  /\ Broken = {}
      /\ SumFunction(completed) + Cardinality(ends) <= MaxEvents
      /\ clips' = [c \in ClipIDs |-> IF c \in Alive THEN Moved(clips[c], delta) ELSE None]
      /\ completed' = [c \in ClipIDs |-> completed[c] + (IF c \in ends THEN 1 ELSE 0)]
      /\ bgmVoice' = IF bgmVoice = None THEN None
                     ELSE [bgmVoice EXCEPT !.position = (@ + delta) % Length]
      /\ starved' = starved \ ends
      /\ UNCHANGED <<nextClip, preserveStoppedLoops, tickFailed>>

\* "playing clip has no decoder": the tick is undone and the machine faults.
AdvanceFails ==
  /\ Broken # {}
  /\ tickFailed' = TRUE
  /\ UNCHANGED <<clips, nextClip, bgmVoice, preserveStoppedLoops, completed, starved>>

TakeCompletion(c) ==
  /\ completed[c] > 0
  /\ completed' = [completed EXCEPT ![c] = @ - 1]
  /\ UNCHANGED <<clips, nextClip, bgmVoice, preserveStoppedLoops, tickFailed, starved>>

-----------------------------------------------------------------------------
(* Snapshot and Restore: the decoder state is not saved but found again.     *)

\* The checks of Restore on a clip.
CountsAccepted(clip) == (clip.state = "stopped") = (clip.plays = 0)
PositionAccepted(voice) == Decodes(voice.source) => voice.position <= Length

Reloaded(clip) ==
  [clip EXCEPT !.decoded = Decodes(clip.source),
               !.waiting = ~Decodes(clip.source) /\ clip.state # "stopped"]

SaveAndLoadClips ==
  /\ \A c \in Alive : CountsAccepted(clips[c]) /\ PositionAccepted(clips[c])
  /\ bgmVoice # None => preserveStoppedLoops /\ PositionAccepted(bgmVoice)
  /\ clips' = [c \in ClipIDs |-> IF c \in Alive THEN Reloaded(clips[c]) ELSE None]
  /\ starved' = {}
  /\ UNCHANGED <<nextClip, bgmVoice, preserveStoppedLoops, completed, tickFailed>>

ClipsNext ==
  \/ CreateClip
  \/ \E c \in ClipIDs :
       \/ DestroyClip(c)
       \/ \E source \in Sources : AppendSource(c, source) \/ ReplaceSource(c, source)
                                  \/ TakeBuffered(c, source)
       \/ ResetForReconcile(c)
       \/ Prepare(c)
       \/ \E plays \in PlayCounts \cup {Loop} : Play(c, plays)
       \/ Pause(c)
       \/ Resume(c)
       \/ Stop(c, preserveStoppedLoops)
       \/ Stop(c, FALSE)
       \/ \E position \in 0 .. MaxPosition : Seek(c, position)
       \/ TakeCompletion(c)
  \/ \E on \in BOOLEAN : SetStoppedLoopPreservation(on)
  \/ \E delta \in ClipDeltas : AdvanceClips(delta)
  \/ AdvanceFails
  \/ SaveAndLoadClips

ClipsSpec == ClipsInit /\ [][ClipsNext]_clipVars

-----------------------------------------------------------------------------
(* Properties. *)

\* A playing clip without a decoder is a stall, never a fault: it waits for the
\* rest of its data, so no advance fails on it.  (The comment in AppendSource says so;
\* a clip that loses its decoder while paused breaks it.)
PlayingClipsCanAdvance == ~tickFailed

\* The only playing clips an advance cannot move lost their decoder to an AppendSource
\* made while they were paused: every other mix of appending, waiting, pausing,
\* stopping and loading keeps them decodable or waiting.
OnlyPausedAppendsStarve == Broken \subseteq starved

\* A save goes on sounding, or waiting, exactly where it was: loading finds for
\* every sounding clip the decoder it had, save for clips that lost it while paused;
\* the play counts and the background voice are ones Restore accepts; and the
\* completions on the bus belong to clips that still exist ("queued audio event").
ClipSnapshotLoads ==
  /\ \A c \in Sounding \ starved : Reloaded(clips[c]) = clips[c]
  /\ \A c \in Alive : CountsAccepted(clips[c])
  /\ bgmVoice # None => /\ preserveStoppedLoops
                        /\ Decodes(bgmVoice.source) /\ PositionAccepted(bgmVoice)
  /\ \A c \in ClipIDs : completed[c] > 0 => c \in Alive

\* Restore accepts the position of every clip the guest can leave behind: what
\* is saved can be loaded.  (A seek on a score that is not decoded yet breaks it.)
PositionsLoad == \A c \in Alive : PositionAccepted(clips[c])
=============================================================================
