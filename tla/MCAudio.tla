------------------------------ MODULE MCAudio ------------------------------
(* Frames of two ticks, a media queue of three, a backlog of two.  A        *)
(* behaviour explores the clips; the media queue on its own, with any host; *)
(* or that queue as the part of a machine that publishes what it drains.    *)
EXTENDS Presentation, Media

VARIABLE part

\* The clips' one choice of initial state is made where they move.
MCInit ==
  /\ PresentationInit /\ ClipsInit /\ part \in {"clips", "queue", "machine"}
  /\ preserveStoppedLoops => part = "clips"

MCNext ==
  /\ UNCHANGED part
  /\ \/ part = "clips" /\ ClipsNext /\ UNCHANGED presentationVars
     \/ /\ part = "queue" /\ Next
        /\ UNCHANGED <<phase, stepStart, outputRevision, mediaOutputRevision, audio,
                       publishedAudio, publishedSamples, savedMedia, era, heard, clipVars>>
     \/ part = "machine" /\ PresentationNext /\ UNCHANGED clipVars

MCSpec == MCInit /\ [][MCNext]_<<presentationVars, clipVars, part>>
=============================================================================
