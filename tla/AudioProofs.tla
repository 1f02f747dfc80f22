---------------------------- MODULE AudioProofs ----------------------------
(* What the host is given to play, for any frame length, retention, slack   *)
(* and steps: the published stream moves forward and is where it says; the  *)
(* clips that are mixed can be decoded and saved; and the spans of the      *)
(* media queue tell when its frames were mixed.                             *)
EXTENDS Presentation, Media, SelectionProofs

Recordings == [generation : Nat, pending : BOOLEAN, epoch : Nat, cursor : Nat, valid : BOOLEAN]
PublishedChunks ==
  [generation : Nat, start : Nat, sample : Nat, frames : Seq(Int), era : Nat]
Hearings == [generation : Nat, pcm : [generation : Nat, end : Nat, era : Nat]]

\* The number of frames on a board is left open.
IsBoard(b) ==
  /\ b = [audio |-> b.audio, chunks |-> b.chunks, samples |-> b.samples]
  /\ b.audio \in Recordings /\ b.chunks \in Seq(PublishedChunks)

\* A chunk lies in the generation of the recording a, where and when it says.
ChunkOK(a, c) ==
  /\ c.generation = a.generation /\ c.frames # <<>> /\ a.epoch <= c.start
  /\ c.frames[1] <= c.start /\ c.start - c.frames[1] < FrameTicks
  /\ c.sample <= SampleCursor(c.start - a.epoch) + Slack
  /\ SampleCursor(c.start - a.epoch) <= c.sample + Slack

Consecutive(frames) ==
  \A k \in 1 .. Len(frames) : frames[k] = frames[1] + (k - 1) * FrameTicks

\* The next chunk comes after the summary s, which is of this generation.
Precedes(s, a) == a.valid /\ s.end <= a.cursor

InGeneration(s, a) == a.generation # 0 /\ s.generation = a.generation

\* A host that heard h can be given what is on the board b.
StreamOK(h, b) ==
  /\ h.generation <= b.audio.generation /\ h.pcm.generation <= b.audio.generation
  /\ b.audio.pending => h.generation # b.audio.generation
  /\ b.audio.generation > 1 /\ h.generation # b.audio.generation => b.audio.pending
  /\ b.audio.generation = 0 => b.chunks = <<>>
  /\ InGeneration(h.pcm, b.audio) => Precedes(h.pcm, b.audio)
  /\ \A i \in DOMAIN b.chunks :
       /\ ChunkOK(b.audio, b.chunks[i]) /\ Precedes(Summary(b.chunks[i]), b.audio)
       /\ InGeneration(h.pcm, b.audio) =>
            h.pcm.end <= b.chunks[i].sample /\ h.pcm.era = b.chunks[i].era
  /\ \A i, j \in DOMAIN b.chunks :
       i < j => Summary(b.chunks[i]).end <= b.chunks[j].sample /\ b.chunks[i].era = b.chunks[j].era

\* The running cursor of the recording a is less than a frame ahead of the guest
\* time that was mixed.
CursorOK(a, mixed) == a.valid => a.cursor * FrameTicks + a.epoch < mixed + FrameTicks

\* Audio of this generation is of the era e, if the media service has not
\* invalidated its output since.
ErasOK(h, b, revision, published, e) ==
  LET ok(c) == published <= revision /\ (revision = published => c.era = e)
  IN  /\ InGeneration(h.pcm, b.audio) => ok(h.pcm)
      /\ \A i \in DOMAIN b.chunks : ok(b.chunks[i])

TypesOK ==
  /\ now \in Nat /\ stepStart \in Nat /\ outputRemainder \in 0 .. FrameTicks - 1
  /\ queuedPCM16 \in Seq(Int)
  /\ phase \in {"idle", "advanced", "loading"}
  /\ outputRevision \in Nat /\ mediaOutputRevision \in Nat /\ era \in Nat
  /\ audio \in Recordings /\ publishedAudio \in Seq(PublishedChunks) /\ heard \in Hearings
  /\ savedMedia \in [now : Nat, remainder : 0 .. FrameTicks - 1]

\* Outside a step the queue is empty; in one it begins where the step began.
StepOK ==
  /\ phase # "advanced" => queuedPCM16 = <<>>
  /\ queuedPCM16 # <<>> =>
       /\ queuedPCM16[1] <= stepStart /\ stepStart - queuedPCM16[1] < FrameTicks
       /\ queuedPCM16[1] + Len(queuedPCM16) * FrameTicks = now - outputRemainder
       /\ Consecutive(queuedPCM16)
  /\ phase = "loading" => ~audio.valid

\* The guest time up to which everything was published.
Published == IF queuedPCM16 = <<>> THEN now - outputRemainder ELSE queuedPCM16[1]

PresentationInv ==
  /\ TypesOK /\ StepOK
  /\ StreamOK(heard, Board) /\ CursorOK(audio, Published)
  /\ ErasOK(heard, Board, outputRevision, mediaOutputRevision, era)
-----------------------------------------------------------------------------
(* Frames and ticks.                                                        *)

LEMMA DivisionFacts ==
  ASSUME NEW a \in Nat, NEW f \in Nat \ {0}
  PROVE  /\ a \div f \in Nat /\ a % f \in 0 .. f - 1
         /\ a = f * (a \div f) + (a % f)
         /\ \A n \in Nat : (a + n * f) \div f = (a \div f) + n
OBVIOUS

LEMMA SampleCursorFacts ==
  ASSUME NEW t \in Nat
  PROVE  /\ SampleCursor(t) \in Nat
         /\ SampleCursor(t) * FrameTicks <= t /\ t < SampleCursor(t) * FrameTicks + FrameTicks
         /\ \A n \in Nat : SampleCursor(t + n * FrameTicks) = SampleCursor(t) + n
<1>1. FrameTicks \in Nat \ {0}
  BY MediaOutputAssumption
<1> DEFINE F == FrameTicks
<1> HIDE DEF F
<1>2. F \in Nat \ {0}
  BY <1>1 DEF F
<1>3. \A a \in Nat : SampleCursor(a) = a \div F
  <2> TAKE a \in Nat
  <2>1. CASE a = 0
    <3>1. 0 \div F = 0
      BY <1>2
    <3> QED
      BY <2>1, <3>1 DEF SampleCursor, F
  <2>2. CASE a # 0
    BY <2>2 DEF SampleCursor, F
  <2> QED
    BY <2>1, <2>2
<1>4. t \div F \in Nat /\ t % F \in 0 .. F - 1 /\ t = F * (t \div F) + (t % F)
  BY <1>2, DivisionFacts
<1>5. (t \div F) * F <= t /\ t < (t \div F) * F + F
  BY <1>2, <1>4
<1>6. ASSUME NEW n \in Nat
      PROVE  SampleCursor(t + n * F) = SampleCursor(t) + n
  <2>1. t + n * F \in Nat
    BY <1>2
  <2>2. (t + n * F) \div F = (t \div F) + n
    BY <1>2, DivisionFacts
  <2> QED
    BY <1>3, <2>1, <2>2
<1> QED
  BY <1>3, <1>4, <1>5, <1>6 DEF F

\* The running cursor is never ahead of the time by more than a frame, so a chunk
\* never starts before it and is never further than the slack from its time.
LEMMA StartSampleFacts ==
  ASSUME NEW a \in Recordings, NEW start \in Nat, NEW mixed \in Int,
         CursorOK(a, mixed), a.epoch <= start, mixed <= start, start - mixed < FrameTicks
  PROVE  LET s == StartSample(a, start)
             byTime == SampleCursor(start - a.epoch)
         IN  /\ s \in Nat /\ byTime \in Nat
             /\ s <= byTime + Slack /\ byTime <= s + Slack
             /\ a.valid => a.cursor <= s
             /\ s * FrameTicks + a.epoch < mixed + FrameTicks
<1> DEFINE F == FrameTicks
           c == a.cursor
           e == a.epoch
           k == SampleCursor(start - a.epoch)
           s == StartSample(a, start)
           off == IF k >= c THEN k - c ELSE c - k
<1>1. c \in Nat /\ e \in Nat /\ F \in Nat \ {0} /\ Slack \in Nat \ {0} /\ e <= start
  BY MediaOutputAssumption, PresentationAssumption DEF Recordings
<1>2. start - e \in Nat
  BY <1>1
<1>3. k \in Nat /\ k * F <= start - e /\ start - e < k * F + F
  BY <1>2, SampleCursorFacts
<1>4. a.valid => c * F + e < mixed + F
  BY DEF CursorOK
<1>5. s = IF a.valid /\ off <= Slack THEN c ELSE k
  BY DEF StartSample
<1>6. start - mixed < F /\ mixed <= start
  OBVIOUS
<1> HIDE DEF F, c, e, k, s
<1>7. k * F + e < mixed + F
  <2>1. k * F \in Int
    BY <1>1, <1>3
  <2> QED
    BY <1>1, <1>3, <1>6, <2>1
<1>8. a.valid => c < k + 2
  <2> SUFFICES ASSUME a.valid, c >= k + 2
      PROVE  FALSE
    BY <1>1, <1>3
  <2>1. c * F >= (k + 2) * F
    BY <1>1, <1>3
  <2>2. (k + 2) * F = k * F + F + F /\ k * F \in Int /\ c * F \in Int
    BY <1>1, <1>3
  <2> QED
    BY <1>1, <1>3, <1>4, <1>6, <2>1, <2>2
<1>9. CASE a.valid /\ off <= Slack
  <2>1. s = c
    BY <1>5, <1>9
  <2>2. c <= k + Slack /\ k <= c + Slack
    BY <1>1, <1>3, <1>9
  <2> QED
    BY <1>1, <1>3, <1>4, <1>9, <2>1, <2>2 DEF F, c, e, k, s
<1>10. CASE ~(a.valid /\ off <= Slack)
  <2>1. s = k
    BY <1>5, <1>10
  <2>2. a.valid => c <= k
    BY <1>1, <1>3, <1>8, <1>10
  <2> QED
    BY <1>1, <1>3, <1>7, <2>1, <2>2 DEF F, c, e, k, s
<1> QED
  BY <1>9, <1>10
-----------------------------------------------------------------------------
(* Boards.                                                                  *)

LEMMA NewGeneration ==
  ASSUME NEW b, IsBoard(b), NEW h \in Hearings, StreamOK(h, b), NEW epoch \in Nat
  PROVE  LET n == NextGeneration(b, epoch)
         IN  /\ IsBoard(n) /\ StreamOK(h, n)
             /\ n.audio.epoch = epoch /\ ~n.audio.valid /\ n.audio.generation # 0
             /\ n.chunks = <<>> /\ ~InGeneration(h.pcm, n.audio)
<1> DEFINE n == NextGeneration(b, epoch)
           g == b.audio.generation
           a == [generation |-> g + 1, pending |-> TRUE, epoch |-> epoch, cursor |-> 0,
                 valid |-> FALSE]
<1>1. n = [audio |-> a, chunks |-> <<>>, samples |-> 0]
  BY DEF NextGeneration
<1>2. /\ g \in Nat /\ h.generation \in Nat /\ h.pcm.generation \in Nat
      /\ h.generation <= g /\ h.pcm.generation <= g
  BY DEF IsBoard, Recordings, Hearings, StreamOK
<1>3. a \in Recordings /\ a.generation = g + 1 /\ a.epoch = epoch /\ ~a.valid
  BY <1>2 DEF Recordings
<1>4. <<>> \in Seq(PublishedChunks)
  OBVIOUS
<1>5. IsBoard(n)
  BY <1>1, <1>3, <1>4 DEF IsBoard
<1>6. ~InGeneration(h.pcm, n.audio)
  BY <1>1, <1>2, <1>3 DEF InGeneration
<1>7. DOMAIN n.chunks = {} /\ n.audio = a /\ a.pending = TRUE /\ n.chunks = <<>>
  BY <1>1
<1> HIDE DEF n, a
<1>8. StreamOK(h, n)
  BY <1>2, <1>3, <1>6, <1>7 DEF StreamOK
<1> QED
  BY <1>2, <1>3, <1>5, <1>6, <1>7, <1>8 DEF n

LEMMA EnsuredGeneration ==
  ASSUME NEW b, IsBoard(b), NEW h \in Hearings, StreamOK(h, b)
  PROVE  LET n == EnsureGeneration(b)
         IN  /\ IsBoard(n) /\ StreamOK(h, n)
             /\ n.audio.generation \in Nat \ {0} /\ n.chunks = b.chunks
             /\ n.audio = [b.audio EXCEPT !.generation = n.audio.generation]
             /\ \/ n = b
                \/ n.chunks = <<>> /\ ~InGeneration(h.pcm, n.audio)
<1> DEFINE n == EnsureGeneration(b)
           g == b.audio.generation
<1>1. /\ b = [audio |-> b.audio, chunks |-> b.chunks, samples |-> b.samples]
      /\ b.audio \in Recordings /\ b.chunks \in Seq(PublishedChunks) /\ g \in Nat
  BY DEF IsBoard, Recordings
<1>2. CASE g # 0
  <2>1. [b.audio EXCEPT !.generation = g] = b.audio
    BY <1>1 DEF Recordings
  <2>2. n = b
    BY <1>1, <1>2, <2>1 DEF EnsureGeneration
  <2> QED
    BY <1>1, <1>2, <2>1, <2>2
<1>3. CASE g = 0
  <2> DEFINE a == [b.audio EXCEPT !.generation = 1]
  <2>1. n = [audio |-> a, chunks |-> b.chunks, samples |-> b.samples]
    BY <1>1, <1>3 DEF EnsureGeneration
  <2>2. /\ a \in Recordings /\ a.generation = 1 /\ a.pending = b.audio.pending
    BY <1>1 DEF Recordings
  <2>8. a = [b.audio EXCEPT !.generation = a.generation]
    BY <2>2
  <2>3. IsBoard(n)
    BY <1>1, <2>1, <2>2 DEF IsBoard
  <2>4. h.generation = 0 /\ h.pcm.generation = 0 /\ b.chunks = <<>> /\ ~b.audio.pending
    BY <1>3 DEF StreamOK, Hearings
  <2>5. n.audio = a /\ n.chunks = <<>> /\ DOMAIN n.chunks = {}
    BY <2>1, <2>4
  <2> HIDE DEF a, n
  <2>6. ~InGeneration(h.pcm, n.audio)
    BY <2>2, <2>4, <2>5 DEF InGeneration
  <2>7. StreamOK(h, n)
    BY <2>2, <2>4, <2>5, <2>6 DEF StreamOK
  <2>9. n.audio.generation \in Nat \ {0} /\ n.chunks = b.chunks
    BY <2>2, <2>4, <2>5
  <2>10. n.audio = [b.audio EXCEPT !.generation = n.audio.generation]
    BY <2>5, <2>8
  <2> QED
    BY <2>3, <2>5, <2>6, <2>7, <2>9, <2>10 DEF n
<1> QED
  BY <1>1, <1>2, <1>3

LEMMA DroppedFirst ==
  ASSUME NEW S, NEW s \in Seq(S), NEW n \in 0 .. Len(s)
  PROVE  /\ DropFirst(s, n) \in Seq(S) /\ Len(DropFirst(s, n)) = Len(s) - n
         /\ \A i \in 1 .. Len(s) - n : DropFirst(s, n)[i] = s[i + n]
<1>1. Len(s) \in Nat /\ n \in Nat
  OBVIOUS
<1>2. \A i \in n + 1 .. Len(s) : s[i] \in S
  BY <1>1, ElementOfSeq
<1> DEFINE m == n + 1
           l == Len(s)
<1>3. m \in Int /\ l \in Int /\ \A i \in m .. l : s[i] \in S
  BY <1>1, <1>2
<1> HIDE DEF m, l
<1>4. /\ SubSeq(s, m, l) \in Seq(S)
      /\ Len(SubSeq(s, m, l)) = IF m <= l THEN l - m + 1 ELSE 0
      /\ \A i \in 1 .. l - m + 1 : SubSeq(s, m, l)[i] = s[m + i - 1]
  BY <1>3, SubSeqProperties
<1>5. \A i \in 1 .. l - m + 1 : m + i - 1 = i + n
  BY <1>1 DEF m, l
<1>6. l - m + 1 = l - n /\ (IF m <= l THEN l - m + 1 ELSE 0) = l - n
  BY <1>1 DEF m, l
<1>7. DropFirst(s, n) = SubSeq(s, m, l)
  BY DEF DropFirst, m, l
<1>8. \A i \in 1 .. l - n : SubSeq(s, m, l)[i] = s[i + n]
  BY <1>4, <1>5, <1>6
<1>9. Len(SubSeq(s, m, l)) = l - n
  BY <1>4, <1>6
<1>10. /\ DropFirst(s, n) \in Seq(S) /\ Len(DropFirst(s, n)) = l - n
       /\ \A i \in 1 .. l - n : DropFirst(s, n)[i] = s[i + n]
  BY <1>4, <1>7, <1>8, <1>9, Zenon
<1> QED
  BY <1>10 DEF l

LEMMA DroppedChunks ==
  ASSUME NEW b, IsBoard(b), NEW h \in Hearings, StreamOK(h, b), NEW n \in 0 .. Len(b.chunks)
  PROVE  LET d == DropOldest(b, n)
         IN  /\ IsBoard(d) /\ StreamOK(h, d) /\ d.audio = b.audio
             /\ Len(d.chunks) = Len(b.chunks) - n
             /\ \A i \in DOMAIN d.chunks : i + n \in DOMAIN b.chunks /\ d.chunks[i] = b.chunks[i + n]
<1> DEFINE d == DropOldest(b, n)
<1>1. /\ b = [audio |-> b.audio, chunks |-> b.chunks, samples |-> b.samples]
      /\ b.audio \in Recordings /\ b.chunks \in Seq(PublishedChunks)
  BY DEF IsBoard
<1>2. d.audio = b.audio /\ d.chunks = DropFirst(b.chunks, n)
      /\ d = [audio |-> d.audio, chunks |-> d.chunks, samples |-> d.samples]
  <2> DEFINE x == DropFirst(b.chunks, n)
             y == b.samples - SumFunctionOnSet([i \in DOMAIN b.chunks |->
                                                  Len(b.chunks[i].frames)], 1 .. n)
  <2>1. d = [b EXCEPT !.chunks = x, !.samples = y]
    BY DEF DropOldest
  <2> HIDE DEF x, y, d
  <2>2. d = [audio |-> b.audio, chunks |-> x, samples |-> y]
    BY <1>1, <2>1
  <2> QED
    BY <2>2 DEF x
<1>3. /\ DropFirst(b.chunks, n) \in Seq(PublishedChunks)
      /\ Len(DropFirst(b.chunks, n)) = Len(b.chunks) - n
      /\ \A i \in 1 .. Len(b.chunks) - n : DropFirst(b.chunks, n)[i] = b.chunks[i + n]
  BY <1>1, DroppedFirst
<1>4. IsBoard(d) /\ d.audio = b.audio /\ d.chunks = DropFirst(b.chunks, n)
  <2>1. d.audio = b.audio /\ d.chunks = DropFirst(b.chunks, n)
    BY <1>2
  <2> QED
    BY <1>1, <1>2, <1>3, <2>1 DEF IsBoard
<1> HIDE DEF d
<1>5. /\ DOMAIN d.chunks = 1 .. Len(b.chunks) - n /\ Len(d.chunks) = Len(b.chunks) - n
      /\ DOMAIN b.chunks = 1 .. Len(b.chunks)
      /\ Len(b.chunks) \in Nat /\ n \in Nat
  BY <1>1, <1>3, <1>4
<1>6. /\ \A i \in DOMAIN d.chunks : i + n \in DOMAIN b.chunks /\ d.chunks[i] = b.chunks[i + n]
      /\ \A i, j \in DOMAIN d.chunks : i < j => i + n < j + n
  BY <1>3, <1>4, <1>5
<1>7. b.audio.generation = 0 => d.chunks = <<>>
  <2>1. SUFFICES ASSUME b.audio.generation = 0 PROVE d.chunks = <<>>
    OBVIOUS
  <2>2. b.chunks = <<>>
    BY <2>1 DEF StreamOK
  <2>3. Len(d.chunks) = 0 /\ d.chunks \in Seq(PublishedChunks)
    BY <1>3, <1>4, <1>5, <2>2
  <2> QED
    BY <2>3
<1>8. StreamOK(h, d)
  <2>1. \A i \in DOMAIN d.chunks :
          /\ ChunkOK(d.audio, d.chunks[i]) /\ Precedes(Summary(d.chunks[i]), d.audio)
          /\ InGeneration(h.pcm, d.audio) =>
               h.pcm.end <= d.chunks[i].sample /\ h.pcm.era = d.chunks[i].era
    BY <1>4, <1>6 DEF StreamOK
  <2>2. \A i, j \in DOMAIN d.chunks :
          i < j => /\ Summary(d.chunks[i]).end <= d.chunks[j].sample
                   /\ d.chunks[i].era = d.chunks[j].era
    BY <1>6 DEF StreamOK
  <2> QED
    BY <1>4, <1>7, <2>1, <2>2 DEF StreamOK
<1> QED
  BY <1>4, <1>5, <1>6, <1>8 DEF d

\* A chunk that is too long loses its first frames and its place moves with them.
LEMMA CutChunk ==
  ASSUME NEW c \in PublishedChunks, NEW a \in Recordings, ChunkOK(a, c), Consecutive(c.frames),
         NEW n \in Nat, n < Len(c.frames)
  PROVE  LET k == Cut(c, n)
         IN  /\ k \in PublishedChunks /\ ChunkOK(a, k)
             /\ k.era = c.era /\ k.generation = c.generation
             /\ k.sample \in Nat /\ c.sample <= k.sample
             /\ k.sample + Len(k.frames) = c.sample + Len(c.frames)
<1> DEFINE F == FrameTicks
           f == c.frames
           l == Len(f)
           x == DropFirst(f, n)
           y == c.sample + n
           z == c.start + n * F
           k == [c EXCEPT !.frames = x, !.sample = y, !.start = z]
           t == c.start - a.epoch
<1>1. /\ f \in Seq(Int) /\ l \in Nat /\ F \in Nat \ {0} /\ c.sample \in Nat /\ c.start \in Nat
      /\ a.epoch \in Nat /\ a.epoch <= c.start /\ n \in 0 .. l /\ n < l
  BY MediaOutputAssumption DEF PublishedChunks, Recordings, ChunkOK
<1>2. x \in Seq(Int) /\ Len(x) = l - n /\ \A i \in 1 .. l - n : x[i] = f[i + n]
  BY <1>1, DroppedFirst
<1>3. 1 \in 1 .. l - n /\ n + 1 \in 1 .. l /\ 1 + n = n + 1 /\ (n + 1) - 1 = n
  BY <1>1
<1>4. f[n + 1] = f[1] + ((n + 1) - 1) * F
  BY <1>3 DEF Consecutive
<1>5. x[1] = f[1] + n * F
  BY <1>2, <1>3, <1>4
<1>6. n * F \in Nat
  BY <1>1
<1>7. y \in Nat /\ z \in Nat
  BY <1>1, <1>6
<1>8. Cut(c, n) = k
  BY DEF Cut
<1>9. t \in Nat /\ z - a.epoch = t + n * F
  BY <1>1, <1>6
<1>10. SampleCursor(t) \in Nat /\ SampleCursor(t + n * F) = SampleCursor(t) + n
  BY <1>9, SampleCursorFacts
<1>11. /\ c.generation = a.generation
       /\ f[1] <= c.start /\ c.start - f[1] < F
       /\ c.sample <= SampleCursor(t) + Slack /\ SampleCursor(t) <= c.sample + Slack
  BY DEF ChunkOK
<1>12. f[1] \in Int /\ Slack \in Nat
  BY <1>1, ElementOfSeq, PresentationAssumption
<1>13. x[1] <= z /\ z - x[1] < F
  BY <1>1, <1>5, <1>6, <1>11, <1>12
<1> DEFINE u == SampleCursor(t)
<1>14. /\ y <= SampleCursor(z - a.epoch) + Slack /\ SampleCursor(z - a.epoch) <= y + Slack
  <2>1. SampleCursor(z - a.epoch) = u + n /\ u \in Nat
    BY <1>9, <1>10
  <2>2. c.sample <= u + Slack /\ u <= c.sample + Slack
    BY <1>11
  <2> HIDE DEF u
  <2>3. y <= (u + n) + Slack /\ u + n <= y + Slack
    BY <1>1, <1>12, <2>1, <2>2
  <2> QED
    BY <2>1, <2>3
<1>15. x # <<>> /\ a.epoch <= z
  BY <1>1, <1>2, <1>6
<1>16. y + Len(x) = c.sample + l /\ c.sample <= y
  <2>1. l - n \in Nat /\ Len(x) = l - n
    BY <1>1, <1>2
  <2> HIDE DEF x, l
  <2> QED
    BY <1>1, <2>1
<1> HIDE DEF x, y, z
<1>17. /\ k \in PublishedChunks /\ k.frames = x /\ k.sample = y /\ k.start = z
       /\ k.era = c.era /\ k.generation = c.generation
  BY <1>2, <1>7 DEF PublishedChunks
<1> HIDE DEF k
<1>18. ChunkOK(a, k)
  BY <1>11, <1>13, <1>14, <1>15, <1>17 DEF ChunkOK
<1> QED
  BY <1>7, <1>8, <1>16, <1>17, <1>18

LEMMA RetainedChunk ==
  ASSUME NEW b, IsBoard(b), NEW h \in Hearings, StreamOK(h, b), b.audio.generation # 0,
         NEW c \in PublishedChunks, ChunkOK(b.audio, c), Consecutive(c.frames),
         b.audio.valid => b.audio.cursor <= c.sample,
         InGeneration(h.pcm, b.audio) => h.pcm.era = c.era,
         \A i \in DOMAIN b.chunks : b.chunks[i].era = c.era
  PROVE  LET r == Retain(b, c)
         IN  /\ IsBoard(r) /\ StreamOK(h, r)
             /\ r.audio.generation = b.audio.generation /\ r.audio.epoch = b.audio.epoch
             /\ r.audio.cursor = c.sample + Len(c.frames)
             /\ \A i \in DOMAIN r.chunks : r.chunks[i].era = c.era
<1> DEFINE excess == Len(c.frames) - PublishedLimit
           kept == IF excess > 0 THEN Cut(c, excess) ELSE c
           last == Len(b.chunks)
           fits(m) == DropOldest(b, m).samples + Len(kept.frames) <= PublishedLimit
           n == CHOOSE m \in 0 .. last : /\ fits(m) \/ m = last
                                         /\ \A k \in 0 .. m - 1 : ~fits(k)
           room == DropOldest(b, n)
           cursor == kept.sample + Len(kept.frames)
           a == [b.audio EXCEPT !.cursor = cursor, !.valid = TRUE]
           r == Retain(b, c)
<1>1. /\ b.audio \in Recordings /\ b.chunks \in Seq(PublishedChunks)
      /\ last \in Nat /\ c.frames \in Seq(Int) /\ Len(c.frames) \in Nat /\ c.sample \in Nat
      /\ PublishedLimit \in Nat \ {0}
  BY PresentationAssumption DEF IsBoard, PublishedChunks
<1>2. /\ kept \in PublishedChunks /\ ChunkOK(b.audio, kept)
      /\ kept.era = c.era /\ kept.generation = c.generation
      /\ kept.sample \in Nat /\ c.sample <= kept.sample
      /\ kept.sample + Len(kept.frames) = c.sample + Len(c.frames)
  <2>1. CASE excess > 0
    <3>1. excess \in Nat /\ excess < Len(c.frames)
      BY <1>1, <2>1
    <3> HIDE DEF excess
    <3> QED
      BY <1>1, <2>1, <3>1, CutChunk
  <2>2. CASE ~(excess > 0)
    BY <1>1, <2>2
  <2> QED
    BY <2>1, <2>2
<1>3. n \in 0 .. last
  <2> HIDE DEF fits
  <2> DEFINE good == {m \in 0 .. last : fits(m) \/ m = last}
  <2>1. good \in SUBSET Nat /\ last \in good
    BY <1>1
  <2>2. PICK m \in good : \A k \in good : m <= k
    BY <2>1, LeastNumber
  <2>3. \A k \in 0 .. m - 1 : ~fits(k)
    <3> TAKE k \in 0 .. m - 1
    <3>1. m \in 0 .. last
      BY <2>2
    <3>2. k \in 0 .. last /\ ~(m <= k)
      BY <1>1, <3>1
    <3> QED
      BY <2>2, <3>2
  <2>4. m \in 0 .. last /\ (fits(m) \/ m = last)
    BY <2>2
  <2> QED
    BY <2>3, <2>4
<1>4. r = [audio |-> a, chunks |-> Append(room.chunks, kept),
           samples |-> room.samples + Len(kept.frames)]
  BY DEF Retain
<1> HIDE DEF n, kept
<1>5. /\ IsBoard(room) /\ StreamOK(h, room) /\ room.audio = b.audio
      /\ \A i \in DOMAIN room.chunks :
           i + n \in DOMAIN b.chunks /\ room.chunks[i] = b.chunks[i + n]
  BY <1>3, DroppedChunks
<1> DEFINE q == room.chunks
           l == Len(q)
           s == Append(q, kept)
<1>6. q \in Seq(PublishedChunks) /\ l \in Nat /\ DOMAIN q = 1 .. l
  BY <1>5 DEF IsBoard
<1> HIDE DEF room
<1>7. /\ s \in Seq(PublishedChunks) /\ DOMAIN s = 1 .. l + 1 /\ s[l + 1] = kept
      /\ \A i \in 1 .. l : s[i] = q[i]
  BY <1>2, <1>6
<1>8. cursor \in Nat /\ cursor = c.sample + Len(c.frames) /\ kept.sample <= cursor
  BY <1>1, <1>2 DEF PublishedChunks
<1> HIDE DEF cursor
<1>9. /\ a \in Recordings /\ a.cursor = cursor /\ a.valid = TRUE
      /\ a.generation = b.audio.generation /\ a.epoch = b.audio.epoch
      /\ a.pending = b.audio.pending
  BY <1>1, <1>8 DEF Recordings
<1> HIDE DEF a, q, s, r
<1>10. r.audio = a /\ r.chunks = s /\ IsBoard(r)
  <2>1. r.audio = a /\ r.chunks = s
    BY <1>4 DEF s, q
  <2> QED
    BY <1>4, <1>7, <1>9, <2>1 DEF IsBoard, s, q
<1>11. \A x : (InGeneration(x, a) <=> InGeneration(x, b.audio)) /\ (ChunkOK(a, x) <=> ChunkOK(b.audio, x))
  BY <1>9 DEF InGeneration, ChunkOK
<1>12. /\ b.audio.cursor \in Nat /\ b.audio.generation \in Nat
       /\ b.audio.valid => b.audio.cursor <= kept.sample /\ b.audio.cursor <= cursor
  BY <1>1, <1>2, <1>8 DEF Recordings
<1>13. /\ h.pcm.end \in Nat /\ h.generation \in Nat
       /\ InGeneration(h.pcm, a) =>
            b.audio.valid /\ h.pcm.end <= b.audio.cursor /\ h.pcm.end <= kept.sample /\ h.pcm.end <= cursor
  <2>1. h.pcm.end \in Nat /\ h.generation \in Nat
    BY DEF Hearings
  <2>2. InGeneration(h.pcm, a) => b.audio.valid /\ h.pcm.end <= b.audio.cursor
    BY <1>11 DEF StreamOK, Precedes
  <2> QED
    BY <1>2, <1>8, <1>12, <2>1, <2>2
<1>14. ASSUME NEW i \in 1 .. l
       PROVE  /\ ChunkOK(a, q[i]) /\ b.audio.valid /\ q[i].era = c.era
              /\ Summary(q[i]).end <= kept.sample /\ Summary(q[i]).end <= cursor
              /\ InGeneration(h.pcm, a) => h.pcm.end <= q[i].sample /\ h.pcm.era = q[i].era
  <2>1. /\ ChunkOK(b.audio, q[i]) /\ Precedes(Summary(q[i]), b.audio)
        /\ InGeneration(h.pcm, b.audio) => h.pcm.end <= q[i].sample /\ h.pcm.era = q[i].era
    BY <1>5, <1>6 DEF StreamOK, q
  <2>2. b.audio.valid /\ Summary(q[i]).end <= b.audio.cursor
    BY <2>1 DEF Precedes
  <2>3. Summary(q[i]).end \in Nat
    <3>1. q[i] \in PublishedChunks
      BY <1>6
    <3>2. q[i].sample \in Nat /\ q[i].frames \in Seq(Int)
      BY <3>1 DEF PublishedChunks
    <3> QED
      BY <3>2 DEF Summary
  <2>4. q[i].era = c.era
    BY <1>5, <1>6 DEF q
  <2>5. Summary(q[i]).end <= kept.sample /\ Summary(q[i]).end <= cursor
    BY <1>2, <1>8, <1>12, <2>2, <2>3
  <2> QED
    BY <1>11, <2>1, <2>2, <2>4, <2>5
<1>15. Summary(kept).end = cursor
  BY DEF Summary, cursor
<1>16. \A i \in 1 .. l + 1 :
         /\ ChunkOK(a, s[i]) /\ Precedes(Summary(s[i]), a) /\ s[i].era = c.era
         /\ InGeneration(h.pcm, a) => h.pcm.end <= s[i].sample /\ h.pcm.era = s[i].era
  <2> TAKE i \in 1 .. l + 1
  <2>1. CASE i = l + 1
    <3>1. s[i] = kept
      BY <1>7, <2>1
    <3>2. Precedes(Summary(kept), a)
      BY <1>8, <1>9, <1>15 DEF Precedes
    <3>3. InGeneration(h.pcm, a) => h.pcm.end <= kept.sample /\ h.pcm.era = kept.era
      BY <1>2, <1>11, <1>13
    <3> QED
      BY <1>2, <1>11, <3>1, <3>2, <3>3
  <2>2. CASE i \in 1 .. l
    <3>1. s[i] = q[i]
      BY <1>7, <2>2
    <3>2. Precedes(Summary(q[i]), a)
      BY <1>9, <1>14, <2>2 DEF Precedes
    <3> QED
      BY <1>14, <2>2, <3>1, <3>2
  <2> QED
    BY <1>6, <2>1, <2>2
<1>17. \A i, j \in 1 .. l + 1 : i < j => Summary(s[i]).end <= s[j].sample /\ s[i].era = s[j].era
  <2> SUFFICES ASSUME NEW i \in 1 .. l + 1, NEW j \in 1 .. l + 1, i < j
      PROVE  Summary(s[i]).end <= s[j].sample
    BY <1>16
  <2>1. i \in 1 .. l /\ s[i] = q[i]
    BY <1>6, <1>7
  <2>2. CASE j = l + 1
    BY <1>7, <1>14, <2>1, <2>2
  <2>3. CASE j \in 1 .. l
    <3>1. s[j] = q[j]
      BY <1>7, <2>3
    <3>2. Summary(q[i]).end <= q[j].sample
      BY <1>5, <1>6, <2>1, <2>3 DEF StreamOK, q
    <3> QED
      BY <2>1, <3>1, <3>2
  <2> QED
    BY <1>6, <2>2, <2>3
<1>18. StreamOK(h, r)
  <2>1. InGeneration(h.pcm, a) => Precedes(h.pcm, a)
    BY <1>9, <1>13 DEF Precedes
  <2>2. /\ h.generation <= a.generation /\ h.pcm.generation <= a.generation
        /\ a.pending => h.generation # a.generation
        /\ a.generation > 1 /\ h.generation # a.generation => a.pending
        /\ a.generation # 0
    BY <1>9 DEF StreamOK
  <2> QED
    BY <1>7, <1>10, <1>16, <1>17, <2>1, <2>2 DEF StreamOK
<1> QED
  BY <1>7, <1>8, <1>9, <1>10, <1>16, <1>18 DEF r

\* Frames of the era e join a board whose current generation is of that era.
OfEra(h, b, e) ==
  /\ InGeneration(h.pcm, b.audio) => h.pcm.era = e
  /\ \A i \in DOMAIN b.chunks : b.chunks[i].era = e

LEMMA PublishedBuffer ==
  ASSUME NEW b, IsBoard(b), NEW h \in Hearings, StreamOK(h, b), NEW frames \in Seq(Int),
         NEW start \in Nat, NEW e \in Nat, NEW mixed \in Int, CursorOK(b.audio, mixed),
         OfEra(h, b, e), Consecutive(frames),
         frames # <<>> => mixed = frames[1] /\ mixed <= start /\ start - mixed < FrameTicks
  PROVE  LET r == PublishBuffer(b, frames, start, e)
         IN  /\ IsBoard(r) /\ StreamOK(h, r) /\ OfEra(h, r, e)
             /\ CursorOK(r.audio, mixed + Len(frames) * FrameTicks)
<1> DEFINE F == FrameTicks
           ensured == EnsureGeneration(b)
           current == IF start < ensured.audio.epoch THEN NextGeneration(ensured, start) ELSE ensured
           sample == StartSample(current.audio, start)
           c == [generation |-> current.audio.generation, start |-> start, sample |-> sample,
                 frames |-> frames, era |-> e]
           r == PublishBuffer(b, frames, start, e)
<1>1. F \in Nat \ {0} /\ Slack \in Nat
  BY MediaOutputAssumption, PresentationAssumption
<1>2. CASE frames = <<>>
  <2>1. r = b
    BY <1>2 DEF PublishBuffer
  <2>2. mixed + Len(frames) * F = mixed
    BY <1>1, <1>2
  <2> QED
    BY <2>1, <2>2
<1>3. CASE frames # <<>>
  <2>1. r = Retain(current, c)
    BY <1>3 DEF PublishBuffer
  <2> HIDE DEF r
  <2>2. /\ IsBoard(ensured) /\ StreamOK(h, ensured)
        /\ ensured.audio.generation \in Nat \ {0} /\ ensured.chunks = b.chunks
        /\ ensured.audio = [b.audio EXCEPT !.generation = ensured.audio.generation]
        /\ \/ ensured = b
           \/ ensured.chunks = <<>> /\ ~InGeneration(h.pcm, ensured.audio)
    BY EnsuredGeneration
  <2> HIDE DEF ensured
  <2>3. CursorOK(ensured.audio, mixed) /\ OfEra(h, ensured, e)
    <3>1. b.audio \in Recordings
      BY DEF IsBoard
    <3>2. /\ ensured.audio.valid = b.audio.valid /\ ensured.audio.cursor = b.audio.cursor
          /\ ensured.audio.epoch = b.audio.epoch
      BY <2>2, <3>1 DEF Recordings
    <3>3. DOMAIN <<>> = {}
      OBVIOUS
    <3> QED
      BY <2>2, <3>2, <3>3 DEF CursorOK, OfEra
  <2>4. /\ IsBoard(current) /\ StreamOK(h, current) /\ current.audio.generation # 0
        /\ current.audio.epoch <= start /\ CursorOK(current.audio, mixed) /\ OfEra(h, current, e)
    <3>1. CASE start < ensured.audio.epoch
      <4>1. current = NextGeneration(ensured, start)
        BY <3>1
      <4>2. /\ IsBoard(current) /\ StreamOK(h, current)
            /\ current.audio.epoch = start /\ ~current.audio.valid
            /\ current.audio.generation # 0 /\ current.chunks = <<>>
            /\ ~InGeneration(h.pcm, current.audio)
        BY <2>2, <4>1, NewGeneration
      <4>3. DOMAIN <<>> = {} /\ start <= start
        OBVIOUS
      <4> HIDE DEF current
      <4> QED
        BY <4>2, <4>3 DEF CursorOK, OfEra
    <3>2. CASE ~(start < ensured.audio.epoch)
      <4>1. current = ensured
        BY <3>2
      <4>2. ensured.audio.epoch \in Nat
        BY <2>2 DEF IsBoard, Recordings
      <4>3. ensured.audio.epoch <= start
        BY <3>2, <4>2
      <4> HIDE DEF current
      <4> QED
        BY <2>2, <2>3, <4>1, <4>3
    <3> QED
      BY <3>1, <3>2
  <2> HIDE DEF current
  <2> DEFINE a == current.audio
             byTime == SampleCursor(start - a.epoch)
  <2>5. a \in Recordings /\ a.epoch <= start
    BY <2>4 DEF IsBoard
  <2>6. mixed = frames[1] /\ mixed <= start /\ start - mixed < F
    BY <1>3
  <2>7. /\ sample \in Nat /\ byTime \in Nat
        /\ sample <= byTime + Slack /\ byTime <= sample + Slack
        /\ a.valid => a.cursor <= sample
        /\ sample * F + a.epoch < mixed + F
    <3>1. CursorOK(a, mixed)
      BY <2>4
    <3> QED
      BY <2>5, <2>6, <3>1, StartSampleFacts
  <2> HIDE DEF sample
  <2>8. c \in PublishedChunks
    BY <2>5, <2>7 DEF PublishedChunks, Recordings
  <2>9. ChunkOK(a, c)
    BY <1>3, <2>5, <2>6, <2>7 DEF ChunkOK
  <2>10. c.frames = frames /\ c.era = e /\ c.sample = sample
    OBVIOUS
  <2> HIDE DEF c
  <2>11. /\ IsBoard(r) /\ StreamOK(h, r)
         /\ r.audio.generation = a.generation /\ r.audio.epoch = a.epoch
         /\ r.audio.cursor = sample + Len(frames)
         /\ \A i \in DOMAIN r.chunks : r.chunks[i].era = e
    <3>1. /\ IsBoard(current) /\ StreamOK(h, current) /\ current.audio.generation # 0
          /\ ChunkOK(current.audio, c) /\ Consecutive(c.frames)
          /\ current.audio.valid => current.audio.cursor <= c.sample
          /\ InGeneration(h.pcm, current.audio) => h.pcm.era = c.era
          /\ \A i \in DOMAIN current.chunks : current.chunks[i].era = c.era
      BY <2>4, <2>7, <2>9, <2>10 DEF OfEra
    <3> QED
      BY <2>1, <2>8, <2>10, <3>1, RetainedChunk
  <2>12. OfEra(h, r, e)
    BY <2>4, <2>11 DEF OfEra, InGeneration
  <2>13. CursorOK(r.audio, mixed + Len(frames) * F)
    <3> DEFINE l == Len(frames)
               p == a.epoch
    <3>1. l \in Nat /\ p \in Nat
      BY <2>5 DEF Recordings
    <3>2. r.audio.cursor = sample + l /\ r.audio.epoch = p
      BY <2>11
    <3>3. sample * F + p < mixed + F
      BY <2>7
    <3> HIDE DEF l, p, F
    <3>4. (sample + l) * F = sample * F + l * F /\ sample * F \in Int /\ l * F \in Int
      BY <1>1, <2>7, <3>1
    <3>5. (sample + l) * F + p < (mixed + l * F) + F
      BY <1>1, <3>1, <3>3, <3>4
    <3>6. CursorOK(r.audio, mixed + l * F)
      BY <3>2, <3>5 DEF CursorOK, F
    <3> QED
      BY <3>6 DEF l, F
  <2> QED
    BY <2>11, <2>12, <2>13 DEF r
<1> QED
  BY <1>2, <1>3

-----------------------------------------------------------------------------
(* The steps.                                                               *)

LEMMA PostedBoard ==
  ASSUME NEW b, IsBoard(b), Post(b)
  PROVE  /\ Board' = b /\ audio' = b.audio /\ publishedAudio' = b.chunks
         /\ audio' \in Recordings /\ publishedAudio' \in Seq(PublishedChunks)
BY DEF Post, Board, IsBoard

LEMMA CurrentBoard ==
  ASSUME TypesOK
  PROVE  /\ IsBoard(Board) /\ Board.audio = audio /\ Board.chunks = publishedAudio
         /\ heard \in Hearings
BY DEF TypesOK, Board, IsBoard

\* What a new generation leaves of the invariant.
LEMMA PostedGeneration ==
  ASSUME TypesOK, StreamOK(heard, Board), NEW epoch \in Nat,
         Post(NextGeneration(Board, epoch)), heard' = heard
  PROVE  /\ audio' \in Recordings /\ publishedAudio' \in Seq(PublishedChunks)
         /\ StreamOK(heard', Board') /\ ~audio'.valid
         /\ \A m : CursorOK(audio', m)
         /\ \A r, p, e : ErasOK(heard', Board', r, p, e)
<1> DEFINE n == NextGeneration(Board, epoch)
<1>1. IsBoard(Board) /\ heard \in Hearings
  BY CurrentBoard
<1>2. /\ IsBoard(n) /\ StreamOK(heard, n) /\ ~n.audio.valid /\ n.chunks = <<>>
      /\ ~InGeneration(heard.pcm, n.audio)
  BY <1>1, NewGeneration
<1> HIDE DEF n
<1>3. /\ Board' = n /\ audio' = n.audio /\ audio' \in Recordings
      /\ publishedAudio' \in Seq(PublishedChunks)
  BY <1>2, PostedBoard DEF n
<1>4. DOMAIN <<>> = {}
  OBVIOUS
<1>5. ASSUME NEW r, NEW p, NEW e PROVE ErasOK(heard, n, r, p, e)
  BY <1>2, <1>4 DEF ErasOK
<1>6. \A m : CursorOK(n.audio, m)
  BY <1>2 DEF CursorOK
<1> QED
  BY <1>2, <1>3, <1>5, <1>6

\* A recording that nobody wrote to since its generation began.
LEMMA UnheardGeneration ==
  ASSUME NEW h \in Hearings, NEW b, IsBoard(b), StreamOK(h, b), ~b.audio.valid
  PROVE  b.chunks = <<>> /\ ~InGeneration(h.pcm, b.audio)
<1>1. b.chunks \in Seq(PublishedChunks) /\ ~InGeneration(h.pcm, b.audio)
  BY DEF IsBoard, StreamOK, Precedes
<1>2. DOMAIN b.chunks = {}
  BY DEF StreamOK, Precedes
<1>3. b.chunks = <<>>
  <2> DEFINE q == b.chunks
  <2>1. q \in Seq(PublishedChunks) /\ DOMAIN q = {}
    BY <1>1, <1>2
  <2> HIDE DEF q
  <2>2. Len(q) \in Nat /\ 1 .. Len(q) = {}
    BY <2>1
  <2>3. Len(q) = 0
    BY <2>2
  <2>4. q = <<>>
    BY <2>1, <2>3
  <2> QED
    BY <2>4 DEF q
<1> QED
  BY <1>1, <1>3

LEMMA CursorLater ==
  ASSUME NEW a \in Recordings, NEW m \in Int, NEW n \in Int, m <= n, CursorOK(a, m)
  PROVE  CursorOK(a, n)
<1> SUFFICES ASSUME a.valid PROVE a.cursor * FrameTicks + a.epoch < n + FrameTicks
  BY DEF CursorOK
<1> DEFINE x == a.cursor * FrameTicks
<1>1. FrameTicks \in Nat /\ a.epoch \in Nat /\ a.cursor \in Nat
  BY MediaOutputAssumption DEF Recordings
<1>2. x \in Int
  BY <1>1
<1>3. x + a.epoch < m + FrameTicks
  BY DEF CursorOK
<1> HIDE DEF x
<1>4. x + a.epoch < n + FrameTicks
  BY <1>1, <1>2, <1>3
<1> QED
  BY <1>4 DEF x

LEMMA PublishedTypes ==
  ASSUME TypesOK
  PROVE  Published \in Int /\ now - outputRemainder \in Int
<1>1. now \in Nat /\ outputRemainder \in Int /\ queuedPCM16 \in Seq(Int)
  BY MediaOutputAssumption DEF TypesOK
<1>2. CASE queuedPCM16 = <<>>
  BY <1>1, <1>2 DEF Published
<1>3. CASE queuedPCM16 # <<>>
  <2>1. 1 \in 1 .. Len(queuedPCM16)
    BY <1>1, <1>3
  <2>2. queuedPCM16[1] \in Int
    BY <1>1, <2>1
  <2> QED
    BY <1>1, <1>3, <2>2 DEF Published
<1> QED
  BY <1>2, <1>3

\* A step mixes whole frames from where the last one ended, and no more than the
\* queue holds.
LEMMA MixedFrames ==
  ASSUME TypesOK, queuedPCM16 = <<>>, NEW delta \in Nat, delta <= Retention * FrameTicks,
         NEW active \in BOOLEAN, NEW audible \in BOOLEAN, Advance(delta, active, audible)
  PROVE  /\ now' = now + delta /\ outputRemainder' \in 0 .. FrameTicks - 1
         /\ queuedPCM16' \in Seq(Int)
         /\ now - outputRemainder <= now' - outputRemainder'
         /\ queuedPCM16' # <<>> =>
              /\ queuedPCM16'[1] = now - outputRemainder
              /\ queuedPCM16'[1] + Len(queuedPCM16') * FrameTicks = now' - outputRemainder'
              /\ Consecutive(queuedPCM16')
<1> DEFINE F == FrameTicks
           R == Retention
           ticks == outputRemainder + delta
           whole == ticks \div F
           frameCount == IF active THEN ticks \div F ELSE 0
           firstFrame == IF audible /\ frameCount > R THEN frameCount - R ELSE 0
           n == IF audible THEN frameCount - firstFrame ELSE 0
           base == now - outputRemainder
           mixed == [k \in 1 .. n |-> now - outputRemainder + (firstFrame + k - 1) * F]
<1>1. /\ F \in Nat \ {0} /\ R \in Nat \ {0} /\ now \in Nat /\ outputRemainder \in 0 .. F - 1
      /\ delta <= R * F
  BY MediaOutputAssumption DEF TypesOK
<1>2. /\ audible => active
      /\ now' = now + delta
      /\ outputRemainder' = IF active THEN ticks % F ELSE 0
      /\ \/ mixed # <<>> /\ QueueOutput(mixed, now, now + delta, firstFrame)
         \/ mixed = <<>> /\ queuedPCM16' = queuedPCM16
  BY DEF Advance
<1>3. ticks \in Nat /\ base \in Int
  BY <1>1
<1>4. whole \in Nat /\ ticks % F \in 0 .. F - 1 /\ ticks = F * whole + (ticks % F)
  BY <1>1, <1>3, DivisionFacts
<1>5. whole <= R
  <2> SUFFICES ASSUME whole >= R + 1 PROVE FALSE
    BY <1>1, <1>4
  <2>1. F * whole >= F * (R + 1)
    BY <1>1, <1>4
  <2>2. F * (R + 1) = R * F + F /\ F * whole \in Int /\ R * F \in Int
    BY <1>1, <1>4
  <2> QED
    BY <1>1, <1>4, <2>1, <2>2
<1> DEFINE product == F * whole
<1>6. product \in Nat /\ product = whole * F
  BY <1>1, <1>4
<1>7. frameCount \in Nat /\ frameCount <= R /\ firstFrame = 0
  BY <1>1, <1>4, <1>5
<1>8. n \in Nat /\ (n # 0 => n = whole /\ audible /\ active) /\ n <= R
  <2>1. active => frameCount = whole
    OBVIOUS
  <2>2. n = IF audible THEN frameCount - firstFrame ELSE 0
    OBVIOUS
  <2> HIDE DEF n, frameCount, firstFrame, whole
  <2>3. n = IF audible THEN frameCount ELSE 0
    BY <1>7, <2>2
  <2> QED
    BY <1>1, <1>2, <1>7, <2>1, <2>3
<1>9. /\ outputRemainder' \in 0 .. F - 1
      /\ active => now' - outputRemainder' = base + product
      /\ base <= now' - outputRemainder'
  <2> DEFINE remainder == ticks % F
  <2>1. remainder \in 0 .. F - 1 /\ ticks = product + remainder
    BY <1>4
  <2> HIDE DEF remainder, product, whole
  <2>2. outputRemainder' = IF active THEN remainder ELSE 0
    BY <1>2 DEF remainder
  <2>3. now' = now + delta
    BY <1>2
  <2> QED
    BY <1>1, <1>6, <2>1, <2>2, <2>3
<1> HIDE DEF ticks, whole, frameCount, firstFrame, n, product
<1>10. mixed = [k \in 1 .. n |-> base + (k - 1) * F]
  <2>1. \A k \in 1 .. n : firstFrame + k - 1 = k - 1
    BY <1>7, <1>8
  <2> QED
    BY <2>1
<1>11. /\ mixed \in Seq(Int) /\ Len(mixed) = n
       /\ \A k \in 1 .. n : mixed[k] = base + (k - 1) * F
  <2>1. \A k \in 1 .. n : base + (k - 1) * F \in Int
    BY <1>1, <1>3
  <2> QED
    BY <1>8, <1>10, <2>1
<1> HIDE DEF mixed
<1>12. queuedPCM16' = mixed
  <2>1. CASE mixed = <<>>
    BY <1>2, <2>1 DEF QueueOutput
  <2>2. CASE mixed # <<>>
    <3> DEFINE overflow == Len(queuedPCM16) + Len(mixed) - R
               lost == IF Len(mixed) >= R THEN Len(queuedPCM16)
                       ELSE IF overflow > 0 THEN overflow ELSE 0
    <3>1. queuedPCM16' = DropFirst(queuedPCM16, lost) \o mixed
      BY <1>2, <2>2 DEF QueueOutput
    <3>2. Len(queuedPCM16) = 0
      OBVIOUS
    <3>3. lost = 0
      BY <1>1, <1>8, <1>11, <3>2
    <3>4. DropFirst(<<>>, 0) = <<>>
      BY DEF DropFirst
    <3> HIDE DEF lost
    <3> QED
      BY <1>11, <3>1, <3>3, <3>4
  <2> QED
    BY <2>1, <2>2
<1>13. ASSUME mixed # <<>>
       PROVE  /\ mixed[1] = base /\ mixed[1] + Len(mixed) * F = now' - outputRemainder'
              /\ Consecutive(mixed)
  <2>1. n # 0
    BY <1>8, <1>11, <1>13
  <2>2. 1 \in 1 .. n /\ (1 - 1) * F = 0
    BY <1>1, <1>8, <2>1
  <2>3. mixed[1] = base
    BY <1>3, <1>11, <2>2
  <2>4. base + n * F = now' - outputRemainder'
    BY <1>6, <1>8, <1>9, <2>1
  <2>5. Consecutive(mixed)
    BY <1>11, <2>3 DEF Consecutive
  <2> QED
    BY <1>11, <2>3, <2>4, <2>5
<1> QED
  BY <1>2, <1>9, <1>11, <1>12, <1>13

\* The steps that begin a generation keep the invariant ...
LEMMA GenerationKeeps ==
  ASSUME PresentationInv, NEW epoch \in Nat, Post(NextGeneration(Board, epoch)), heard' = heard,
         now' \in Nat, stepStart' \in Nat, outputRemainder' \in 0 .. FrameTicks - 1,
         queuedPCM16' \in Seq(Int), phase' \in {"idle", "advanced", "loading"},
         outputRevision' \in Nat, mediaOutputRevision' \in Nat, era' \in Nat,
         savedMedia' = savedMedia,
         \/ queuedPCM16' = <<>>
         \/ UNCHANGED <<phase, queuedPCM16, stepStart, now, outputRemainder>>
  PROVE  PresentationInv'
<1>1. /\ audio' \in Recordings /\ publishedAudio' \in Seq(PublishedChunks)
      /\ StreamOK(heard', Board') /\ ~audio'.valid
      /\ \A m : CursorOK(audio', m)
      /\ \A r, p, e : ErasOK(heard', Board', r, p, e)
  BY PostedGeneration DEF PresentationInv
<1>2. TypesOK'
  BY <1>1 DEF PresentationInv, TypesOK
<1>3. StepOK'
  BY <1>1 DEF PresentationInv, StepOK
<1> QED
  BY <1>1, <1>2, <1>3 DEF PresentationInv

\* ... and those that leave the board and who heard of it alone.
LEMMA BoardStays ==
  ASSUME PresentationInv, UNCHANGED <<audio, publishedAudio, publishedSamples, heard>>,
         NEW m \in Int, Published <= m, Published' = m,
         ErasOK(heard, Board, outputRevision', mediaOutputRevision', era')
  PROVE  /\ audio' \in Recordings /\ publishedAudio' \in Seq(PublishedChunks) /\ heard' \in Hearings
         /\ StreamOK(heard', Board') /\ CursorOK(audio', Published')
         /\ ErasOK(heard', Board', outputRevision', mediaOutputRevision', era')
<1>1. Board' = Board
  BY DEF Board
<1>2. Published \in Int /\ audio \in Recordings
  BY PublishedTypes DEF PresentationInv, TypesOK
<1>3. CursorOK(audio, m)
  BY <1>2, CursorLater DEF PresentationInv
<1> QED
  BY <1>1, <1>3 DEF PresentationInv, TypesOK

LEMMA AdvanceServicesKeeps ==
  ASSUME PresentationInv, NEW delta \in Deltas, NEW active \in BOOLEAN, NEW audible \in BOOLEAN,
         AdvanceServices(delta, active, audible)
  PROVE  PresentationInv'
<1> DEFINE base == now - outputRemainder
<1>1. /\ phase = "idle" /\ delta <= Retention * FrameTicks /\ Advance(delta, active, audible)
      /\ stepStart' = now /\ phase' = "advanced"
      /\ UNCHANGED <<outputRevision, mediaOutputRevision, audio, publishedAudio, publishedSamples,
                     savedMedia, era, heard>>
  BY DEF AdvanceServices
<1>2. TypesOK /\ queuedPCM16 = <<>> /\ delta \in Nat
  BY <1>1, MediaOutputAssumption DEF PresentationInv, StepOK
<1>3. /\ now' = now + delta /\ outputRemainder' \in 0 .. FrameTicks - 1
      /\ queuedPCM16' \in Seq(Int)
      /\ base <= now' - outputRemainder'
      /\ queuedPCM16' # <<>> =>
           /\ queuedPCM16'[1] = base
           /\ queuedPCM16'[1] + Len(queuedPCM16') * FrameTicks = now' - outputRemainder'
           /\ Consecutive(queuedPCM16')
  BY <1>1, <1>2, MixedFrames
<1>4. now \in Nat /\ outputRemainder \in 0 .. FrameTicks - 1 /\ FrameTicks \in Nat \ {0}
  BY <1>2, MediaOutputAssumption DEF TypesOK
<1>5. base \in Int /\ now' \in Nat /\ now' - outputRemainder' \in Int
  BY <1>2, <1>3, <1>4
<1>6. Published = base
  BY <1>2 DEF Published
<1> DEFINE m == IF queuedPCM16' = <<>> THEN now' - outputRemainder' ELSE base
<1>7. m \in Int /\ Published <= m /\ Published' = m
  BY <1>3, <1>5, <1>6 DEF Published
<1>8. ErasOK(heard, Board, outputRevision', mediaOutputRevision', era')
  BY <1>1 DEF PresentationInv
<1> HIDE DEF m
<1>9. /\ audio' \in Recordings /\ publishedAudio' \in Seq(PublishedChunks) /\ heard' \in Hearings
      /\ StreamOK(heard', Board') /\ CursorOK(audio', Published')
      /\ ErasOK(heard', Board', outputRevision', mediaOutputRevision', era')
  BY <1>1, <1>7, <1>8, BoardStays
<1>10. TypesOK'
  BY <1>1, <1>2, <1>3, <1>4, <1>5, <1>9 DEF TypesOK
<1>11. base <= stepStart' /\ stepStart' - base < FrameTicks
  BY <1>1, <1>4
<1> HIDE DEF base
<1>12. StepOK'
  BY <1>1, <1>3, <1>11, Zenon DEF StepOK
<1> QED
  BY <1>9, <1>10, <1>12 DEF PresentationInv

LEMMA PublishKeeps ==
  ASSUME PresentationInv, PublishAudioFromMedia
  PROVE  PresentationInv'
<1> DEFINE b == IF outputRevision = mediaOutputRevision THEN Board
                ELSE NextGeneration(Board, stepStart)
           r == PublishBuffer(b, queuedPCM16, stepStart, era)
           reached == now - outputRemainder
<1>1. /\ phase' = "idle" /\ queuedPCM16' = <<>> /\ UNCHANGED <<now, outputRemainder>>
      /\ Post(r) /\ mediaOutputRevision' = outputRevision /\ stepStart' = 0
      /\ UNCHANGED <<outputRevision, savedMedia, era, heard>>
  BY DEF PublishAudioFromMedia, Drain
<1>2. /\ TypesOK /\ StepOK /\ IsBoard(Board) /\ Board.audio = audio /\ heard \in Hearings
      /\ StreamOK(heard, Board) /\ CursorOK(audio, Published)
      /\ ErasOK(heard, Board, outputRevision, mediaOutputRevision, era)
      /\ Published \in Int /\ stepStart \in Nat /\ era \in Nat /\ queuedPCM16 \in Seq(Int)
      /\ outputRevision \in Nat
  BY CurrentBoard, PublishedTypes DEF PresentationInv, TypesOK
<1>3. IsBoard(b) /\ StreamOK(heard, b) /\ CursorOK(b.audio, Published) /\ OfEra(heard, b, era)
  <2>1. CASE outputRevision = mediaOutputRevision
    <3>1. OfEra(heard, Board, era)
      BY <1>2, <2>1 DEF ErasOK, OfEra
    <3> QED
      BY <1>2, <2>1, <3>1
  <2>2. CASE outputRevision # mediaOutputRevision
    <3>1. b = NextGeneration(Board, stepStart)
      BY <2>2
    <3> HIDE DEF b
    <3>2. /\ IsBoard(b) /\ StreamOK(heard, b) /\ ~b.audio.valid /\ b.chunks = <<>>
          /\ ~InGeneration(heard.pcm, b.audio)
      BY <1>2, <3>1, NewGeneration
    <3>3. DOMAIN <<>> = {}
      OBVIOUS
    <3> QED
      BY <3>2, <3>3 DEF CursorOK, OfEra
  <2> QED
    BY <2>1, <2>2
<1> HIDE DEF b
<1>4. /\ queuedPCM16 # <<>> => /\ Published = queuedPCM16[1] /\ Published <= stepStart
                               /\ stepStart - Published < FrameTicks
      /\ Consecutive(queuedPCM16)
      /\ Published + Len(queuedPCM16) * FrameTicks = reached
  <2>1. CASE queuedPCM16 # <<>>
    BY <1>2, <2>1 DEF StepOK, Published
  <2>2. CASE queuedPCM16 = <<>>
    <3>1. Len(queuedPCM16) = 0 /\ Published = reached /\ 1 .. 0 = {}
      BY <2>2 DEF Published
    <3>2. FrameTicks \in Nat /\ 0 * FrameTicks = 0
      BY MediaOutputAssumption
    <3>3. Consecutive(queuedPCM16)
      BY <3>1 DEF Consecutive
    <3>4. Published + 0 = reached
      BY <1>2, <3>1
    <3> QED
      BY <2>2, <3>1, <3>2, <3>3, <3>4
  <2> QED
    BY <2>1, <2>2
<1>5. /\ IsBoard(r) /\ StreamOK(heard, r) /\ OfEra(heard, r, era) /\ CursorOK(r.audio, reached)
  BY <1>2, <1>3, <1>4, PublishedBuffer
<1> HIDE DEF r
<1>6. /\ Board' = r /\ audio' = r.audio
      /\ audio' \in Recordings /\ publishedAudio' \in Seq(PublishedChunks)
  BY <1>1, <1>5, PostedBoard
<1>7. TypesOK'
  BY <1>1, <1>2, <1>6 DEF TypesOK
<1>8. StepOK' /\ Published' = reached
  BY <1>1 DEF StepOK, Published
<1>9. ErasOK(heard', Board', outputRevision', mediaOutputRevision', era')
  BY <1>1, <1>2, <1>5, <1>6 DEF ErasOK, OfEra
<1> QED
  BY <1>1, <1>5, <1>6, <1>7, <1>8, <1>9 DEF PresentationInv

\* Seeks, changes of gain and changes of the policy make the output stale.
LEMMA InvalidatedOutput ==
  ASSUME TypesOK, InvalidateOutput
  PROVE  /\ now' = now /\ outputRemainder' = 0 /\ queuedPCM16' = <<>>
         /\ 0 \in 0 .. FrameTicks - 1 /\ <<>> \in Seq(Int) /\ now' \in Nat
         /\ Published' = now /\ now - outputRemainder <= now
BY MediaOutputAssumption DEF TypesOK, InvalidateOutput, Published

LEMMA GuestInvalidatesKeeps ==
  ASSUME PresentationInv, GuestInvalidates
  PROVE  PresentationInv'
<1>1. /\ phase = "idle" /\ era' = era + 1 /\ InvalidateOutput
      /\ outputRevision' = outputRevision + 1
      /\ UNCHANGED <<phase, stepStart, mediaOutputRevision, audio, publishedAudio,
                     publishedSamples, savedMedia, heard>>
  BY DEF GuestInvalidates, Discontinuity
<1>2. TypesOK /\ StepOK /\ queuedPCM16 = <<>>
  BY <1>1 DEF PresentationInv, StepOK
<1>3. /\ now' = now /\ outputRemainder' = 0 /\ queuedPCM16' = <<>>
      /\ 0 \in 0 .. FrameTicks - 1 /\ <<>> \in Seq(Int) /\ now' \in Nat
      /\ Published' = now /\ now - outputRemainder <= now
  BY <1>1, <1>2, InvalidatedOutput
<1>4. Published <= now /\ now \in Int
  BY <1>2, <1>3 DEF Published, TypesOK
<1>5. outputRevision \in Nat /\ mediaOutputRevision \in Nat /\ era \in Nat
  BY <1>2 DEF TypesOK
<1>7. ErasOK(heard, Board, outputRevision', mediaOutputRevision', era')
  <2>1. mediaOutputRevision <= outputRevision =>
          /\ mediaOutputRevision' <= outputRevision' /\ outputRevision' # mediaOutputRevision'
    BY <1>1, <1>5
  <2>2. ErasOK(heard, Board, outputRevision, mediaOutputRevision, era)
    BY DEF PresentationInv
  <2> QED
    BY <2>1, <2>2 DEF ErasOK
<1>8. /\ audio' \in Recordings /\ publishedAudio' \in Seq(PublishedChunks) /\ heard' \in Hearings
      /\ StreamOK(heard', Board') /\ CursorOK(audio', Published')
      /\ ErasOK(heard', Board', outputRevision', mediaOutputRevision', era')
  BY <1>1, <1>3, <1>4, <1>7, BoardStays
<1>9. TypesOK'
  BY <1>1, <1>2, <1>3, <1>5, <1>8 DEF TypesOK
<1>10. StepOK'
  BY <1>1, <1>2, <1>3 DEF StepOK
<1> QED
  BY <1>8, <1>9, <1>10 DEF PresentationInv

LEMMA SaveMediaKeeps ==
  ASSUME PresentationInv, SaveMedia
  PROVE  PresentationInv'
<1>1. /\ UNCHANGED <<now, queuedPCM16, outputRemainder, phase, stepStart, outputRevision,
                     mediaOutputRevision, audio, publishedAudio, publishedSamples, era, heard>>
      /\ savedMedia' = [now |-> now, remainder |-> outputRemainder]
  BY DEF SaveMedia, vars
<1>2. TypesOK'
  BY <1>1 DEF PresentationInv, TypesOK
<1>3. StepOK' /\ Board' = Board /\ Published' = Published
  BY <1>1 DEF PresentationInv, StepOK, Board, Published
<1> QED
  BY <1>1, <1>2, <1>3 DEF PresentationInv

LEMMA StartKeeps ==
  ASSUME PresentationInv,
         \/ PauseOrStop \/ SetAudioMixMode \/ BeginLoad
         \/ \E succeeds \in BOOLEAN : ResetMachine(succeeds)
  PROVE  PresentationInv'
<1>1. /\ TypesOK /\ StepOK /\ now \in Nat /\ stepStart \in Nat
      /\ outputRemainder \in 0 .. FrameTicks - 1 /\ queuedPCM16 \in Seq(Int)
      /\ phase \in {"idle", "advanced", "loading"} /\ outputRevision \in Nat
      /\ mediaOutputRevision \in Nat /\ era \in Nat /\ outputRevision + 1 \in Nat
      /\ era + 1 \in Nat /\ 0 \in Nat
      /\ 0 \in 0 .. FrameTicks - 1 /\ <<>> \in Seq(Int)
  BY MediaOutputAssumption DEF PresentationInv, TypesOK
<1>2. CASE PauseOrStop \/ SetAudioMixMode
  BY <1>1, <1>2, GenerationKeeps DEF PauseOrStop, SetAudioMixMode, GenerationFromNow, vars
<1>3. CASE BeginLoad
  <2>1. phase = "idle" /\ queuedPCM16 = <<>> /\ era' = era + 1
    BY <1>1, <1>3 DEF BeginLoad, StepOK, Discontinuity
  <2> QED
    BY <1>1, <1>3, <2>1, GenerationKeeps DEF BeginLoad, vars
<1>4. ASSUME NEW succeeds \in BOOLEAN, ResetMachine(succeeds)
      PROVE  PresentationInv'
  <2>1. phase = "idle" /\ queuedPCM16 = <<>> /\ era' = era + 1
    BY <1>1, <1>4 DEF ResetMachine, StepOK, Discontinuity
  <2>2. CASE succeeds
    BY <1>1, <1>4, <2>1, <2>2, GenerationKeeps DEF ResetMachine, ReplaceServices
  <2>3. CASE ~succeeds
    BY <1>1, <1>4, <2>1, <2>3, GenerationKeeps DEF ResetMachine, vars
  <2> QED
    BY <2>2, <2>3
<1> QED
  BY <1>2, <1>3, <1>4

LEMMA FinishLoadKeeps ==
  ASSUME PresentationInv,
         \/ EndLoad
         \/ \E replaced \in BOOLEAN : FailLoad(replaced)
  PROVE  PresentationInv'
<1> DEFINE clock == savedMedia.now
<1>1. /\ TypesOK /\ StepOK /\ IsBoard(Board) /\ Board.audio = audio /\ heard \in Hearings
      /\ Board.chunks = publishedAudio /\ StreamOK(heard, Board)
      /\ clock \in Nat /\ savedMedia.remainder \in 0 .. FrameTicks - 1
      /\ 0 \in 0 .. FrameTicks - 1 /\ <<>> \in Seq(Int)
  BY CurrentBoard, MediaOutputAssumption DEF PresentationInv, TypesOK
<1>2. /\ phase = "loading" /\ phase' = "idle" /\ queuedPCM16 = <<>>
      /\ UNCHANGED <<stepStart, mediaOutputRevision, publishedAudio, publishedSamples, savedMedia,
                     era, heard>>
  BY <1>1 DEF EndLoad, FailLoad, StepOK
<1>3. publishedAudio = <<>> /\ ~InGeneration(heard.pcm, audio) /\ ~audio.valid
  <2>1. ~audio.valid
    BY <1>1, <1>2 DEF StepOK
  <2> QED
    BY <1>1, <2>1, UnheardGeneration
<1>4. /\ queuedPCM16' = <<>> /\ now' \in Nat /\ outputRemainder' \in 0 .. FrameTicks - 1
      /\ outputRevision' \in Nat
      /\ \/ audio' = audio
         \/ audio' = [EnsureGeneration(Board).audio EXCEPT !.epoch = clock, !.cursor = 0,
                                                           !.valid = FALSE]
  <2>1. CASE EndLoad
    BY <1>1, <2>1 DEF EndLoad, ReplaceServices
  <2>2. CASE \E replaced \in BOOLEAN : FailLoad(replaced)
    BY <1>1, <1>2, <2>2 DEF FailLoad, ReplaceServices, vars, TypesOK
  <2> QED
    BY <2>1, <2>2
<1>5. /\ audio' \in Recordings /\ ~audio'.valid /\ StreamOK(heard, Board')
      /\ ~InGeneration(heard.pcm, audio')
  <2>1. CASE audio' = audio
    BY <1>1, <1>2, <1>3, <2>1 DEF IsBoard, Board
  <2>2. CASE audio' = [EnsureGeneration(Board).audio EXCEPT !.epoch = clock, !.cursor = 0,
                                                           !.valid = FALSE]
    <3> DEFINE n == EnsureGeneration(Board)
               a == [n.audio EXCEPT !.epoch = clock, !.cursor = 0, !.valid = FALSE]
    <3>1. /\ IsBoard(n) /\ StreamOK(heard, n) /\ n.chunks = <<>>
          /\ \/ n = Board
             \/ n.chunks = <<>> /\ ~InGeneration(heard.pcm, n.audio)
      BY <1>1, <1>3, EnsuredGeneration
    <3>2. ~InGeneration(heard.pcm, n.audio)
      BY <1>1, <1>3, <3>1
    <3> HIDE DEF n
    <3>3. n.audio \in Recordings
      BY <3>1 DEF IsBoard
    <3> DEFINE z == 0
               no == FALSE
    <3>4. a = [n.audio EXCEPT !.epoch = clock, !.cursor = z, !.valid = no]
      OBVIOUS
    <3>5. z \in Nat /\ no \in BOOLEAN /\ ~no
      OBVIOUS
    <3> HIDE DEF a, z, no, clock
    <3>6. /\ a \in Recordings /\ a.valid = no
          /\ a.generation = n.audio.generation /\ a.pending = n.audio.pending
      BY <1>1, <3>3, <3>4, <3>5 DEF Recordings
    <3>7. audio' = a
      BY <2>2 DEF a, n
    <3>8. ~InGeneration(heard.pcm, a)
      BY <3>2, <3>6 DEF InGeneration
    <3>9. Board'.audio = a /\ Board'.chunks = <<>> /\ DOMAIN <<>> = {}
      BY <1>2, <1>3, <3>7 DEF Board
    <3>10. StreamOK(heard, Board')
      BY <3>1, <3>6, <3>8, <3>9 DEF StreamOK
    <3> QED
      BY <3>5, <3>6, <3>7, <3>8, <3>10
  <2> QED
    BY <1>4, <2>1, <2>2
<1>6. TypesOK' /\ StepOK'
  BY <1>1, <1>2, <1>4, <1>5 DEF TypesOK, StepOK
<1>7. CursorOK(audio', Published')
  BY <1>5 DEF CursorOK
<1>8. ErasOK(heard', Board', outputRevision', mediaOutputRevision', era')
  <2>1. Board'.audio = audio' /\ Board'.chunks = <<>> /\ DOMAIN <<>> = {}
    BY <1>2, <1>3 DEF Board
  <2> QED
    BY <1>2, <1>5, <2>1 DEF ErasOK
<1> QED
  BY <1>2, <1>5, <1>6, <1>7, <1>8 DEF PresentationInv

LEMMA DrainMarkerKeeps ==
  ASSUME PresentationInv, DrainMarker
  PROVE  PresentationInv'
<1>1. /\ publishedAudio = <<>> /\ audio.pending
      /\ audio' = [audio EXCEPT !.pending = FALSE]
      /\ heard' = [heard EXCEPT !.generation = audio.generation]
      /\ UNCHANGED <<now, queuedPCM16, outputRemainder, phase, stepStart, outputRevision,
                     mediaOutputRevision, savedMedia, publishedAudio, publishedSamples, era>>
  BY DEF DrainMarker, vars
<1>2. /\ TypesOK /\ StepOK /\ audio \in Recordings /\ heard \in Hearings
      /\ Board.audio = audio /\ StreamOK(heard, Board) /\ CursorOK(audio, Published)
      /\ ErasOK(heard, Board, outputRevision, mediaOutputRevision, era)
  BY CurrentBoard DEF PresentationInv, TypesOK
<1>3. /\ audio' \in Recordings /\ ~audio'.pending /\ audio'.generation = audio.generation
      /\ audio'.epoch = audio.epoch /\ audio'.cursor = audio.cursor /\ audio'.valid = audio.valid
      /\ heard' \in Hearings /\ heard'.generation = audio.generation /\ heard'.pcm = heard.pcm
  BY <1>1, <1>2 DEF Recordings, Hearings
<1>4. /\ Board'.audio = audio' /\ Board'.chunks = <<>> /\ DOMAIN <<>> = {}
      /\ Published' = Published
  BY <1>1 DEF Board, Published
<1>5. InGeneration(heard.pcm, audio') => InGeneration(heard.pcm, audio)
  BY <1>3 DEF InGeneration
<1>6. StreamOK(heard', Board')
  <2>1. InGeneration(heard.pcm, audio') => Precedes(heard.pcm, audio')
    BY <1>2, <1>3, <1>5 DEF StreamOK, Precedes
  <2>2. audio.generation \in Nat /\ heard.pcm.generation <= audio.generation
    BY <1>2 DEF StreamOK, Recordings
  <2>3. audio.generation <= audio.generation
    BY <2>2
  <2> QED
    BY <1>3, <1>4, <2>1, <2>2, <2>3 DEF StreamOK
<1>7. ErasOK(heard', Board', outputRevision', mediaOutputRevision', era')
  BY <1>1, <1>2, <1>3, <1>4, <1>5 DEF ErasOK
<1>8. CursorOK(audio', Published')
  BY <1>2, <1>3, <1>4 DEF CursorOK
<1>9. TypesOK' /\ StepOK'
  BY <1>1, <1>2, <1>3 DEF TypesOK, StepOK
<1> QED
  BY <1>6, <1>7, <1>8, <1>9 DEF PresentationInv

LEMMA DrainChunkKeeps ==
  ASSUME PresentationInv, DrainChunk
  PROVE  PresentationInv'
<1> DEFINE q == publishedAudio
           c == q[1]
           a == [audio EXCEPT !.pending = FALSE]
           b == [Board EXCEPT !.audio.pending = FALSE]
           d == DropOldest(b, 1)
           rest == DropFirst(q, 1)
<1>1. /\ q # <<>> /\ Post(d) /\ heard' = Hear(Head(q))
      /\ UNCHANGED <<now, queuedPCM16, outputRemainder, phase, stepStart, outputRevision,
                     mediaOutputRevision, savedMedia, era>>
  BY DEF DrainChunk, vars
<1>2. /\ TypesOK /\ StepOK /\ audio \in Recordings /\ q \in Seq(PublishedChunks)
      /\ Board.audio = audio /\ Board.chunks = q /\ heard \in Hearings
      /\ StreamOK(heard, Board) /\ CursorOK(audio, Published)
      /\ ErasOK(heard, Board, outputRevision, mediaOutputRevision, era)
  BY CurrentBoard DEF PresentationInv, TypesOK
<1>3. /\ a \in Recordings /\ ~a.pending /\ a.generation = audio.generation
      /\ a.epoch = audio.epoch /\ a.cursor = audio.cursor /\ a.valid = audio.valid
  BY <1>2 DEF Recordings
<1>4. d.audio = a /\ d.chunks = rest
  BY DEF DropOldest, Board
<1>5. audio' = a /\ publishedAudio' = rest
  BY <1>1, <1>4 DEF Post
<1>6. Board'.audio = a /\ Board'.chunks = rest /\ Published' = Published
  BY <1>1, <1>5 DEF Board, Published
<1>7. Len(q) \in Nat \ {0} /\ DOMAIN q = 1 .. Len(q) /\ 1 \in 1 .. Len(q) /\ Head(q) = c
      /\ c \in PublishedChunks
  BY <1>1, <1>2
<1>8. /\ rest \in Seq(PublishedChunks) /\ Len(rest) = Len(q) - 1
      /\ \A i \in 1 .. Len(q) - 1 : rest[i] = q[i + 1]
  <2>1. 1 \in 0 .. Len(q) /\ q \in Seq(PublishedChunks)
    BY <1>2, <1>7
  <2> HIDE DEF q
  <2> QED
    BY <2>1, DroppedFirst DEF rest
<1> DEFINE l == Len(q)
           s == Summary(c)
<1>9. DOMAIN rest = 1 .. l - 1 /\ \A i \in 1 .. l - 1 : rest[i] = q[i + 1] /\ i + 1 \in 1 .. l /\ 1 < i + 1
  BY <1>7, <1>8
<1>10. /\ ChunkOK(audio, c) /\ Precedes(s, audio) /\ audio.generation # 0
       /\ \A i \in 1 .. l : ChunkOK(audio, q[i]) /\ Precedes(Summary(q[i]), audio)
       /\ \A i, j \in 1 .. l :
            i < j => Summary(q[i]).end <= q[j].sample /\ q[i].era = q[j].era
  BY <1>1, <1>2, <1>7 DEF StreamOK
<1>11. /\ s \in [generation : Nat, end : Nat, era : Nat]
       /\ s.generation = audio.generation /\ s.era = c.era
       /\ heard' = [generation |-> audio.generation, pcm |-> s]
  <2>1. c.generation = audio.generation
    BY <1>10 DEF ChunkOK
  <2>2. c.generation \in Nat /\ c.sample \in Nat /\ c.frames \in Seq(Int) /\ c.era \in Nat
    BY <1>7 DEF PublishedChunks
  <2> HIDE DEF c
  <2> QED
    BY <1>1, <1>7, <2>1, <2>2 DEF Hear, Summary
<1>12. /\ heard' \in Hearings /\ heard'.generation = audio.generation /\ heard'.pcm = s
  BY <1>2, <1>11 DEF Hearings, Recordings
<1> HIDE DEF q, a, b, d, rest, s, c, l
<1>13. \A x : (ChunkOK(a, x) <=> ChunkOK(audio, x)) /\ (Precedes(x, a) <=> Precedes(x, audio))
  BY <1>3 DEF ChunkOK, Precedes
<1>14. StreamOK(heard', Board')
  <2>1. \A i \in DOMAIN rest :
          /\ ChunkOK(a, rest[i]) /\ Precedes(Summary(rest[i]), a)
          /\ s.end <= rest[i].sample /\ s.era = rest[i].era
    <3> TAKE i \in DOMAIN rest
    <3>1. i \in 1 .. l - 1 /\ rest[i] = q[i + 1] /\ i + 1 \in 1 .. l /\ 1 < i + 1 /\ 1 \in 1 .. l
      BY <1>7, <1>9 DEF l
    <3>2. s.end <= q[i + 1].sample /\ s.era = q[i + 1].era
      BY <1>10, <1>11, <3>1 DEF s, c
    <3> QED
      BY <1>10, <1>13, <3>1, <3>2
  <2>2. \A i, j \in DOMAIN rest :
          i < j => Summary(rest[i]).end <= rest[j].sample /\ rest[i].era = rest[j].era
    <3> TAKE i, j \in DOMAIN rest
    <3>1. /\ i \in Int /\ j \in Int /\ rest[i] = q[i + 1] /\ rest[j] = q[j + 1]
          /\ i + 1 \in 1 .. l /\ j + 1 \in 1 .. l
      BY <1>9
    <3>2. i < j => i + 1 < j + 1
      BY <3>1
    <3> QED
      BY <1>10, <3>1, <3>2
  <2>3. audio.generation \in Nat /\ audio.generation <= audio.generation
    BY <1>2 DEF Recordings
  <2> QED
    BY <1>3, <1>6, <1>10, <1>11, <1>12, <1>13, <2>1, <2>2, <2>3 DEF StreamOK
<1>15. ErasOK(heard', Board', outputRevision', mediaOutputRevision', era')
  <2> DEFINE ok(x) == /\ mediaOutputRevision <= outputRevision
                      /\ outputRevision = mediaOutputRevision => x.era = era
  <2>1. \A i \in 1 .. l : ok(q[i])
    BY <1>2, <1>7 DEF ErasOK, l, q
  <2>2. ok(s)
    <3>1. ok(c)
      BY <1>7, <2>1 DEF c, l
    <3> QED
      BY <1>11, <3>1
  <2>3. \A i \in DOMAIN rest : ok(rest[i])
    BY <1>9, <2>1
  <2> QED
    BY <1>1, <1>6, <1>12, <2>2, <2>3 DEF ErasOK
<1>16. CursorOK(audio', Published')
  BY <1>2, <1>3, <1>5, <1>6 DEF CursorOK
<1>17. TypesOK' /\ StepOK'
  BY <1>1, <1>2, <1>3, <1>5, <1>8, <1>12 DEF TypesOK, StepOK
<1> QED
  BY <1>14, <1>15, <1>16, <1>17 DEF PresentationInv

LEMMA PresentationInvariant == PresentationSpec => []PresentationInv
<1>1. PresentationInit => PresentationInv
  <2> SUFFICES ASSUME PresentationInit PROVE PresentationInv
    OBVIOUS
  <2> DEFINE a == [generation |-> 0, pending |-> FALSE, epoch |-> 0, cursor |-> 0, valid |-> FALSE]
             h == [generation |-> 0, pcm |-> [generation |-> 0, end |-> 0, era |-> 0]]
  <2>1. /\ now = 0 /\ queuedPCM16 = <<>> /\ outputRemainder = 0
        /\ phase = "idle" /\ stepStart = 0 /\ outputRevision = 0 /\ mediaOutputRevision = 0
        /\ audio = a /\ heard = h /\ publishedAudio = <<>> /\ era = 0
        /\ savedMedia = [now |-> 0, remainder |-> 0]
    BY DEF PresentationInit, Init
  <2>2. /\ a \in Recordings /\ ~a.pending /\ ~a.valid /\ a.generation = 0
        /\ h \in Hearings /\ h.generation = 0 /\ h.pcm.generation = 0
    BY DEF Recordings, Hearings
  <2>3. 0 \in 0 .. FrameTicks - 1
    BY MediaOutputAssumption
  <2>4. Board.audio = a /\ Board.chunks = <<>> /\ DOMAIN <<>> = {}
    BY <2>1 DEF Board
  <2> HIDE DEF a, h
  <2>5. ~InGeneration(h.pcm, a)
    BY <2>2 DEF InGeneration
  <2>6. TypesOK
    BY <2>1, <2>2, <2>3 DEF TypesOK
  <2>7. StepOK /\ CursorOK(audio, Published)
    BY <2>1, <2>2 DEF StepOK, CursorOK
  <2>8. StreamOK(heard, Board) /\ ErasOK(heard, Board, outputRevision, mediaOutputRevision, era)
    BY <2>1, <2>2, <2>4, <2>5 DEF StreamOK, ErasOK
  <2> QED
    BY <2>6, <2>7, <2>8 DEF PresentationInv
<1>2. PresentationInv /\ [PresentationNext]_presentationVars => PresentationInv'
  <2> SUFFICES ASSUME PresentationInv, [PresentationNext]_presentationVars
      PROVE  PresentationInv'
    OBVIOUS
  <2>1. ASSUME NEW delta \in Deltas, NEW active \in BOOLEAN, NEW audible \in BOOLEAN,
               AdvanceServices(delta, active, audible)
        PROVE  PresentationInv'
    BY <2>1, AdvanceServicesKeeps
  <2>2. CASE PublishAudioFromMedia
    BY <2>2, PublishKeeps
  <2>3. CASE GuestInvalidates
    BY <2>3, GuestInvalidatesKeeps
  <2>4. CASE SaveMedia
    BY <2>4, SaveMediaKeeps
  <2>5. CASE \/ PauseOrStop \/ SetAudioMixMode \/ BeginLoad
             \/ \E succeeds \in BOOLEAN : ResetMachine(succeeds)
    BY <2>5, StartKeeps
  <2>6. CASE \/ EndLoad
             \/ \E replaced \in BOOLEAN : FailLoad(replaced)
    BY <2>6, FinishLoadKeeps
  <2>7. CASE DrainChunk
    BY <2>7, DrainChunkKeeps
  <2>8. CASE DrainMarker
    BY <2>8, DrainMarkerKeeps
  <2>9. CASE UNCHANGED presentationVars
    BY <2>9 DEF PresentationInv, TypesOK, StepOK, Board, Published, presentationVars, vars
  <2> QED
    BY <2>1, <2>2, <2>3, <2>4, <2>5, <2>6, <2>7, <2>8, <2>9 DEF PresentationNext
<1> QED
  BY <1>1, <1>2, PTL DEF PresentationSpec

\* Chunks come after each other and after what was heard last.
LEMMA OrderedStream ==
  ASSUME PresentationInv, NEW i \in DOMAIN publishedAudio
  PROVE  /\ publishedAudio[i].generation = audio.generation
         /\ \/ i = 1 /\ heard.pcm.generation < audio.generation
            \/ /\ Before(i).generation = audio.generation
               /\ Before(i).end <= publishedAudio[i].sample
               /\ Before(i).era = publishedAudio[i].era
<1> DEFINE q == publishedAudio
<1>1. /\ StreamOK(heard, Board) /\ Board.audio = audio /\ Board.chunks = q
      /\ q \in Seq(PublishedChunks) /\ heard.pcm.generation \in Nat /\ audio.generation \in Nat
  BY CurrentBoard DEF PresentationInv, TypesOK, Recordings, Hearings
<1>2. \A k \in DOMAIN q : q[k].generation = audio.generation
  BY <1>1 DEF StreamOK, ChunkOK
<1>3. CASE i = 1
  <2>1. Before(i) = heard.pcm
    BY <1>3 DEF Before
  <2>2. audio.generation # 0 /\ heard.pcm.generation <= audio.generation
    <3>1. q # <<>>
      OBVIOUS
    <3> QED
      BY <1>1, <3>1 DEF StreamOK
  <2>3. InGeneration(heard.pcm, audio) => heard.pcm.end <= q[i].sample /\ heard.pcm.era = q[i].era
    BY <1>1 DEF StreamOK
  <2> QED
    BY <1>1, <1>2, <1>3, <2>1, <2>2, <2>3 DEF InGeneration
<1>4. CASE i # 1
  <2>1. i \in Int /\ i - 1 \in DOMAIN q /\ i - 1 < i
    BY <1>1, <1>4
  <2>2. Before(i) = Summary(q[i - 1])
    BY <1>4 DEF Before
  <2>3. Summary(q[i - 1]).end <= q[i].sample /\ q[i - 1].era = q[i].era
    BY <1>1, <2>1 DEF StreamOK
  <2>4. Summary(q[i - 1]).generation = q[i - 1].generation /\ Summary(q[i - 1]).era = q[i - 1].era
    BY DEF Summary
  <2> QED
    BY <1>2, <2>1, <2>2, <2>3, <2>4
<1> QED
  BY <1>3, <1>4

\* The stream a host hears only moves forward: no chunk of an older generation follows
\* one of a newer, and no sample index is used twice in a generation, whatever
\* retention dropped, StartSample rounded or Cut shortened.
THEOREM StreamOnlyMovesForward == PresentationSpec => []StreamMovesForward
<1>1. PresentationInv => StreamMovesForward
  <2> SUFFICES ASSUME PresentationInv, NEW i \in DOMAIN publishedAudio
      PROVE  \/ Before(i).generation < publishedAudio[i].generation
             \/ /\ Before(i).generation = publishedAudio[i].generation
                /\ Before(i).end <= publishedAudio[i].sample
    BY DEF StreamMovesForward
  <2> QED
    BY OrderedStream DEF Before
<1> QED
  BY <1>1, PresentationInvariant, PTL

\* Audio from before an invalidation by the guest (a seek, a change of gain), a reset or
\* a load never shares a generation with audio from after it: a changed output revision,
\* or the entry point itself, has begun a new generation before PublishBuffer sees the
\* new audio, whenever a pause, a stop or a switch of the audio policy begins others.
THEOREM GenerationsHaveOneEra == PresentationSpec => []OneEraPerGeneration
<1>1. PresentationInv => OneEraPerGeneration
  <2> SUFFICES ASSUME PresentationInv, NEW i \in DOMAIN publishedAudio,
                      Before(i).generation = publishedAudio[i].generation
      PROVE  Before(i).era = publishedAudio[i].era
    BY DEF OneEraPerGeneration
  <2>1. heard.pcm.generation \in Nat /\ audio.generation \in Nat
    BY DEF PresentationInv, TypesOK, Hearings, Recordings
  <2> QED
    BY <2>1, OrderedStream DEF Before
<1> QED
  BY <1>1, PresentationInvariant, PTL

\* A chunk's time is that of its first frame, less than a frame late, and its index
\* agrees with that time to within audioCursorSlack, however long the cursor has run.
THEOREM ChunksTellTheirPlace == PresentationSpec => []ChunksAreWhereTheySay
<1>1. PresentationInv => ChunksAreWhereTheySay
  <2> SUFFICES ASSUME PresentationInv PROVE ChunksAreWhereTheySay
    OBVIOUS
  <2>1. /\ StreamOK(heard, Board) /\ Board.audio = audio /\ Board.chunks = publishedAudio
    BY CurrentBoard DEF PresentationInv
  <2>2. \A i \in DOMAIN publishedAudio : ChunkOK(audio, publishedAudio[i])
    BY <2>1 DEF StreamOK
  <2> QED
    BY <2>2 DEF ChunksAreWhereTheySay, ChunkOK
<1> QED
  BY <1>1, PresentationInvariant, PTL

\* A new generation is pending exactly until DrainPublishedAudio has told the host of
\* it, in PCM or in an empty marker.
THEOREM GenerationsAreReportedOnce == PresentationSpec => []ChangesAreReportedOnce
<1>1. PresentationInv => ChangesAreReportedOnce
  BY CurrentBoard DEF PresentationInv, StreamOK, ChangesAreReportedOnce
<1> QED
  BY <1>1, PresentationInvariant, PTL

-----------------------------------------------------------------------------
(* Clips.                                                                   *)

\* A sounding clip is decoded or waits for data exactly as a load would find it,
\* unless it is starved; a stopped one is as Play expects it.
ClipOK(clip, isStarved) ==
  /\ clip \in ClipRecords
  /\ clip.decoded => Decodes(clip.source) /\ ~clip.waiting
  /\ DecodesAsWave(clip.source) => clip.decoded
  /\ clip.state = "stopped" <=> clip.plays = 0
  /\ clip.state = "stopped" => ~clip.waiting
  /\ clip.state # "stopped" /\ clip.decoded => clip.position <= Length
  /\ clip.state # "stopped" /\ ~isStarved =>
       /\ Decodes(clip.source) => clip.decoded
       /\ ~clip.decoded => clip.waiting

ClipsOK == \A c \in Alive : ClipOK(clips[c], c \in starved)
VoiceOK ==
  bgmVoice # None =>
    /\ bgmVoice = [source |-> bgmVoice.source, position |-> bgmVoice.position]
    /\ preserveStoppedLoops /\ Decodes(bgmVoice.source)
    /\ bgmVoice.position \in Nat /\ bgmVoice.position <= Length
CompletionsOK ==
  /\ completed \in [ClipIDs -> Nat]
  /\ \A c \in ClipIDs : completed[c] > 0 => c \in Alive
ClipInv ==
  /\ clips \in [ClipIDs -> ClipRecords \cup {None}]
  /\ ClipsOK /\ VoiceOK /\ CompletionsOK

LEMMA AliveClips ==
  ASSUME ClipInv, NEW c \in Alive
  PROVE  c \in ClipIDs /\ clips[c] \in ClipRecords /\ ClipOK(clips[c], c \in starved)
BY DEF ClipInv, ClipsOK, ClipOK, Alive

\* Operations on one clip.
LEMMA UpdateKeeps ==
  ASSUME ClipInv, NEW c \in Alive, NEW clip, Update(c, clip), ClipOK(clip, c \in starved'),
         \A d \in ClipIDs \ {c} : d \in starved <=> d \in starved',
         VoiceOK'
  PROVE  ClipInv'
<1>1. /\ clips' = [clips EXCEPT ![c] = clip] /\ completed' = completed
      /\ clips \in [ClipIDs -> ClipRecords \cup {None}] /\ c \in ClipIDs /\ clip \in ClipRecords
  BY DEF Update, ClipInv, Alive, ClipOK
<1>2. clips' \in [ClipIDs -> ClipRecords \cup {None}]
  BY <1>1
<1>3. clips'[c] = clip /\ clip # None /\ \A d \in ClipIDs \ {c} : clips'[d] = clips[d]
  BY <1>1, NoneAssumption
<1>4. \A d \in ClipIDs : d \in Alive' <=> d \in Alive
  BY <1>3 DEF Alive
<1>5. ClipsOK'
  <2> SUFFICES ASSUME NEW d \in Alive' PROVE ClipOK(clips'[d], d \in starved')
    BY DEF ClipsOK
  <2>1. d \in ClipIDs /\ d \in Alive
    BY <1>4 DEF Alive
  <2>2. CASE d = c
    BY <1>3, <2>2
  <2>3. CASE d # c
    <3>1. clips'[d] = clips[d] /\ (d \in starved <=> d \in starved')
      BY <1>3, <2>1, <2>3
    <3>2. ClipOK(clips[d], d \in starved)
      BY <2>1, AliveClips
    <3> QED
      BY <3>1, <3>2 DEF ClipOK
  <2> QED
    BY <2>2, <2>3
<1>6. CompletionsOK'
  BY <1>1, <1>4 DEF ClipInv, CompletionsOK
<1> QED
  BY <1>2, <1>5, <1>6 DEF ClipInv

LEMMA VoiceStays ==
  ASSUME ClipInv, UNCHANGED <<bgmVoice, preserveStoppedLoops>>
  PROVE  VoiceOK'
BY DEF ClipInv, VoiceOK

LEMMA NewClipOK ==
  /\ NewClip \in ClipRecords
  /\ NewClip.source = "empty" /\ NewClip.position = 0 /\ NewClip.state = "stopped"
  /\ NewClip.plays = 0 /\ ~NewClip.decoded /\ ~NewClip.waiting
BY DEF NewClip, ClipRecords, Sources

LEMMA AppendSourceKeeps ==
  ASSUME ClipInv, NEW c \in ClipIDs, NEW source \in Sources, AppendSource(c, source)
  PROVE  ClipInv'
<1> DEFINE clip == clips[c]
           decoded == DecodesAsWave(source) \/ (ScoreWanted(clip) /\ DecodesAsScore(source))
           waiting == Waits(clip, source, decoded)
           position == IF decoded /\ clip.position > Length THEN Length ELSE clip.position
           new == [clip EXCEPT !.source = source, !.decoded = decoded, !.waiting = waiting,
                               !.position = position]
<1>1. /\ c \in Alive /\ Update(c, new) /\ bgmVoice' = bgmVoice
      /\ starved' = IF clip.state = "paused" /\ ~decoded /\ ~clip.waiting
                    THEN starved \cup {c} ELSE IF decoded THEN starved \ {c} ELSE starved
  BY DEF AppendSource
<1>2. clip \in ClipRecords /\ ClipOK(clip, c \in starved)
  BY <1>1, AliveClips
<1>3. /\ decoded \in BOOLEAN /\ waiting \in BOOLEAN
      /\ position \in Nat /\ (decoded => position <= Length)
      /\ decoded => Decodes(source) /\ ~waiting
      /\ DecodesAsWave(source) => decoded
      /\ waiting <=> ~decoded /\ (clip.state = "playing" \/ clip.waiting)
      /\ Decodes(source) /\ (clip.decoded \/ clip.waiting) => decoded
  <2>1. clip.position \in Nat /\ Length \in Nat
    BY <1>2, MediaAssumption DEF ClipRecords
  <2>2. position \in Nat /\ (decoded => position <= Length)
    <3> HIDE DEF decoded, clip
    <3> QED
      BY <2>1
  <2>3. decoded \in BOOLEAN /\ waiting \in BOOLEAN
    BY Zenon DEF Waits
  <2>4. waiting <=> ~decoded /\ (clip.state = "playing" \/ clip.waiting)
    BY Zenon DEF Waits
  <2>5. /\ decoded => Decodes(source)
        /\ DecodesAsWave(source) => decoded
        /\ Decodes(source) /\ (clip.decoded \/ clip.waiting) => decoded
    BY Zenon DEF Decodes, ScoreWanted
  <2> HIDE DEF decoded, waiting, position, clip
  <2> QED
    BY <2>2, <2>3, <2>4, <2>5
<1>4. c \in starved' <=> (clip.state = "paused" /\ ~decoded /\ ~clip.waiting) \/ (~decoded /\ c \in starved)
  BY <1>1, Zenon
<1>5. \A d \in ClipIDs \ {c} : d \in starved <=> d \in starved'
  BY <1>1, Zenon
<1> HIDE DEF decoded, waiting, position, clip
<1>6. /\ new \in ClipRecords /\ new.source = source /\ new.decoded = decoded
      /\ new.waiting = waiting /\ new.position = position
      /\ new.state = clip.state /\ new.plays = clip.plays
  BY <1>2, <1>3 DEF ClipRecords
<1> HIDE DEF new
<1>7. clip.state \in {"stopped", "playing", "paused"}
  BY <1>2 DEF ClipRecords
<1>8. ClipOK(new, c \in starved')
  BY <1>2, <1>3, <1>4, <1>6, <1>7 DEF ClipOK
<1>9. VoiceOK'
  BY <1>1, VoiceStays DEF Update
<1> QED
  BY <1>1, <1>5, <1>8, <1>9, UpdateKeeps

LEMMA BufferKeeps ==
  ASSUME ClipInv, NEW c \in ClipIDs, NEW source \in Sources,
         ReplaceSource(c, source) \/ TakeBuffered(c, source) \/ ResetForReconcile(c)
  PROVE  ClipInv'
<1>1. c \in Alive
  BY DEF ReplaceSource, TakeBuffered, ResetForReconcile
<1> DEFINE clip == clips[c]
           wave == DecodesAsWave(source)
<1>2. clip \in ClipRecords /\ ClipOK(clip, c \in starved)
  BY <1>1, AliveClips
<1>3. wave \in BOOLEAN /\ (wave => Decodes(source))
  BY DEF DecodesAsWave, Decodes
<1>4. CASE ReplaceSource(c, source)
  <2> DEFINE new == [NewClip EXCEPT !.source = source, !.decoded = wave]
  <2>1. Update(c, new) /\ bgmVoice' = bgmVoice /\ starved' = starved
    BY <1>4 DEF ReplaceSource
  <2>2. DecodesAsWave(source) <=> wave
    OBVIOUS
  <2> HIDE DEF wave
  <2>3. /\ new \in ClipRecords /\ new.source = source /\ new.decoded = wave
        /\ new.state = "stopped" /\ new.plays = 0 /\ ~new.waiting
    BY <1>3, NewClipOK DEF ClipRecords
  <2> HIDE DEF new
  <2>4. ClipOK(new, c \in starved')
    BY <1>3, <2>2, <2>3 DEF ClipOK
  <2>5. VoiceOK'
    BY <2>1, VoiceStays DEF Update
  <2> QED
    BY <1>1, <2>1, <2>4, <2>5, UpdateKeeps
<1>5. CASE TakeBuffered(c, source)
  <2> DEFINE z == 0
             no == FALSE
             new == [clip EXCEPT !.source = source, !.position = z, !.decoded = wave, !.waiting = no]
  <2>1. Update(c, new) /\ bgmVoice' = bgmVoice /\ starved' = starved /\ clip.state = "stopped"
    BY <1>5 DEF TakeBuffered
  <2>2. DecodesAsWave(source) <=> wave
    OBVIOUS
  <2>3. z \in Nat /\ no \in BOOLEAN /\ ~no
    OBVIOUS
  <2> HIDE DEF wave, z, no, clip
  <2>4. /\ new \in ClipRecords /\ new.source = source /\ new.decoded = wave
        /\ new.state = clip.state /\ new.plays = clip.plays /\ new.waiting = no
    BY <1>2, <1>3, <2>3 DEF ClipRecords
  <2> HIDE DEF new
  <2>5. ClipOK(new, c \in starved')
    BY <1>2, <1>3, <2>1, <2>2, <2>3, <2>4 DEF ClipOK
  <2>6. VoiceOK'
    BY <2>1, VoiceStays DEF Update
  <2> QED
    BY <1>1, <2>1, <2>5, <2>6, UpdateKeeps
<1>6. CASE ResetForReconcile(c)
  <2>1. Update(c, NewClip) /\ bgmVoice' = bgmVoice /\ starved' = starved \ {c}
    BY <1>6 DEF ResetForReconcile
  <2>2. VoiceOK'
    BY <2>1, VoiceStays DEF Update
  <2>3. ClipOK(NewClip, c \in starved')
    BY NewClipOK DEF ClipOK, DecodesAsWave
  <2> QED
    BY <1>1, <2>1, <2>2, <2>3, UpdateKeeps
<1> QED
  BY <1>4, <1>5, <1>6

LEMMA PlaybackKeeps ==
  ASSUME ClipInv, NEW c \in ClipIDs,
         \/ Prepare(c) \/ Pause(c) \/ Resume(c)
         \/ \E position \in 0 .. MaxPosition : Seek(c, position)
  PROVE  ClipInv'
<1> DEFINE clip == clips[c]
           yes == TRUE
           paused == "paused"
           playing == "playing"
<1>1. c \in Alive
  BY DEF Prepare, Pause, Resume, Seek, Playing, Sounding
<1>2. clip \in ClipRecords /\ ClipOK(clip, c \in starved)
  BY <1>1, AliveClips
<1>3. UNCHANGED <<bgmVoice, starved>>
  BY DEF Prepare, Pause, Resume, Seek
<1>4. ASSUME NEW new, Update(c, new), ClipOK(new, c \in starved)
      PROVE  ClipInv'
  <2>1. VoiceOK' /\ starved' = starved
    BY <1>3, <1>4, VoiceStays DEF Update
  <2> QED
    BY <1>1, <1>4, <2>1, UpdateKeeps
<1>5. CASE Prepare(c)
  <2> DEFINE new == [clip EXCEPT !.decoded = yes]
  <2>1. Update(c, new) /\ clip.state = "stopped" /\ (clip.decoded \/ DecodesAsScore(clip.source))
    BY <1>5 DEF Prepare
  <2>2. Decodes(clip.source)
    BY <1>2, <2>1 DEF ClipOK, Decodes
  <2> HIDE DEF clip
  <2>3. /\ new \in ClipRecords /\ new.decoded /\ new.source = clip.source
        /\ new.state = clip.state /\ new.plays = clip.plays /\ new.waiting = clip.waiting
    BY <1>2 DEF ClipRecords
  <2> HIDE DEF new
  <2>4. ClipOK(new, c \in starved)
    BY <1>2, <2>1, <2>2, <2>3 DEF ClipOK
  <2> QED
    BY <1>4, <2>1, <2>4
<1>6. CASE Pause(c) \/ Resume(c)
  <2> DEFINE state == IF Pause(c) THEN paused ELSE playing
             new == [clip EXCEPT !.state = state]
  <2>1. Update(c, new) /\ clip.state # "stopped"
    BY <1>6 DEF Pause, Resume, Playing, Sounding
  <2>2. state \in {"stopped", "playing", "paused"} /\ state # "stopped"
    OBVIOUS
  <2> HIDE DEF state, clip
  <2>3. /\ new \in ClipRecords /\ new.decoded = clip.decoded /\ new.source = clip.source
        /\ new.state = state /\ new.plays = clip.plays /\ new.waiting = clip.waiting
        /\ new.position = clip.position
    BY <1>2, <2>2 DEF ClipRecords
  <2> HIDE DEF new
  <2>4. ClipOK(new, c \in starved)
    BY <1>2, <2>1, <2>2, <2>3 DEF ClipOK
  <2> QED
    BY <1>4, <2>1, <2>4
<1>7. ASSUME NEW position \in 0 .. MaxPosition, Seek(c, position)
      PROVE  ClipInv'
  <2> DEFINE new == [clip EXCEPT !.position = position]
  <2>1. Update(c, new) /\ (clip.decoded => position <= Length) /\ position \in Nat
    BY <1>7, MediaAssumption DEF Seek
  <2> HIDE DEF clip
  <2>2. /\ new \in ClipRecords /\ new.decoded = clip.decoded /\ new.source = clip.source
        /\ new.state = clip.state /\ new.plays = clip.plays /\ new.waiting = clip.waiting
        /\ new.position = position
    BY <1>2, <2>1 DEF ClipRecords
  <2> HIDE DEF new
  <2>3. ClipOK(new, c \in starved)
    BY <1>2, <2>1, <2>2 DEF ClipOK
  <2> QED
    BY <1>4, <2>1, <2>3
<1> QED
  BY <1>5, <1>6, <1>7

LEMMA PlayKeeps ==
  ASSUME ClipInv, NEW c \in ClipIDs, NEW plays \in PlayCounts \cup {Loop}, Play(c, plays)
  PROVE  ClipInv'
<1> DEFINE clip == clips[c]
           decoded == clip.decoded \/ DecodesAsScore(clip.source)
           waiting == ~decoded \/ clip.waiting
           position == IF decoded /\ clip.position >= Length THEN 0 ELSE clip.position
           playing == "playing"
           new == [clip EXCEPT !.decoded = decoded, !.waiting = waiting, !.position = position,
                               !.plays = plays, !.state = playing]
<1>1. /\ c \in Alive /\ clip.state = "stopped" /\ Update(c, new) /\ starved' = starved
      /\ bgmVoice' = IF plays = Loop THEN None ELSE bgmVoice
  BY DEF Play
<1>2. clip \in ClipRecords /\ ClipOK(clip, c \in starved)
  BY <1>1, AliveClips
<1>3. plays \in Nat \cup {Loop} /\ plays # 0
  BY MediaAssumption DEF Loop
<1>4. ~clip.waiting
  BY <1>1, <1>2 DEF ClipOK
<1>5. decoded \in BOOLEAN /\ waiting \in BOOLEAN /\ (waiting <=> ~decoded)
  BY <1>4, Zenon
<1>6. decoded <=> Decodes(clip.source)
  BY <1>2 DEF ClipOK, Decodes
<1>7. position \in Nat /\ (decoded => position <= Length)
  <2>1. clip.position \in Nat /\ Length \in Nat
    BY <1>2, MediaAssumption DEF ClipRecords
  <2> HIDE DEF decoded, clip
  <2> QED
    BY <2>1
<1>8. playing \in {"stopped", "playing", "paused"} /\ playing # "stopped"
  OBVIOUS
<1>9. DecodesAsWave(clip.source) => decoded
  BY <1>2 DEF ClipOK
<1> HIDE DEF decoded, waiting, position, clip, playing
<1>10. /\ new \in ClipRecords /\ new.decoded = decoded /\ new.source = clip.source
       /\ new.state = playing /\ new.plays = plays /\ new.waiting = waiting
       /\ new.position = position
  BY <1>2, <1>3, <1>5, <1>7, <1>8 DEF ClipRecords
<1> HIDE DEF new
<1>11. ClipOK(new, c \in starved')
  BY <1>3, <1>5, <1>6, <1>7, <1>8, <1>9, <1>10 DEF ClipOK
<1>12. VoiceOK'
  BY <1>1 DEF ClipInv, VoiceOK, Update
<1> QED
  BY <1>1, <1>11, <1>12, UpdateKeeps

LEMMA StopKeeps ==
  ASSUME ClipInv, NEW c \in ClipIDs, NEW keepLoop \in {preserveStoppedLoops, FALSE}, Stop(c, keepLoop)
  PROVE  ClipInv'
<1> DEFINE clip == clips[c]
           kept == keepLoop /\ c \in Playing /\ clip.plays = Loop /\ clip.decoded
           stopped == "stopped"
           z == 0
           no == FALSE
           new == [clip EXCEPT !.state = stopped, !.plays = z, !.waiting = no]
           voice == [source |-> clip.source, position |-> clip.position]
<1>1. /\ c \in Alive /\ clip.state # "stopped" /\ Update(c, new) /\ starved' = starved \ {c}
      /\ bgmVoice' = IF kept THEN voice ELSE bgmVoice
  BY DEF Stop, Sounding
<1>2. clip \in ClipRecords /\ ClipOK(clip, c \in starved)
  BY <1>1, AliveClips
<1>3. VoiceOK'
  <2>1. preserveStoppedLoops' = preserveStoppedLoops
    BY <1>1 DEF Update
  <2>2. CASE kept
    <3>1. preserveStoppedLoops /\ bgmVoice' = voice
      BY <1>1, <2>2
    <3>2. /\ Decodes(clip.source) /\ clip.position <= Length /\ clip.position \in Nat
      BY <1>1, <1>2, <2>2 DEF ClipOK, ClipRecords
    <3>3. voice = [source |-> voice.source, position |-> voice.position]
          /\ voice.source = clip.source /\ voice.position = clip.position
      OBVIOUS
    <3> HIDE DEF voice
    <3> QED
      BY <2>1, <3>1, <3>2, <3>3 DEF VoiceOK
  <2>3. CASE ~kept
    BY <1>1, <2>1, <2>3, VoiceStays
  <2> QED
    BY <2>2, <2>3
<1>4. stopped \in {"stopped", "playing", "paused"} /\ stopped = "stopped" /\ no \in BOOLEAN /\ ~no
      /\ z = 0 /\ z \in Nat \cup {Loop}
  OBVIOUS
<1> HIDE DEF stopped, z, no, clip
<1>5. /\ new \in ClipRecords /\ new.decoded = clip.decoded /\ new.source = clip.source
      /\ new.state = stopped /\ new.plays = z /\ new.waiting = no
  BY <1>2, <1>4 DEF ClipRecords
<1> HIDE DEF new
<1>6. ClipOK(new, c \in starved')
  BY <1>2, <1>4, <1>5 DEF ClipOK
<1> QED
  BY <1>1, <1>3, <1>6, UpdateKeeps

LEMMA RegistryKeeps ==
  ASSUME ClipInv, CreateClip \/ \E c \in ClipIDs : DestroyClip(c)
  PROVE  ClipInv'
<1>1. clips \in [ClipIDs -> ClipRecords \cup {None}] /\ completed \in [ClipIDs -> Nat]
  BY DEF ClipInv, CompletionsOK
<1>2. CASE CreateClip
  <2>1. /\ nextClip \in ClipIDs /\ clips' = [clips EXCEPT ![nextClip] = NewClip]
        /\ UNCHANGED <<bgmVoice, preserveStoppedLoops, completed, starved>>
    BY <1>2 DEF CreateClip
  <2>2. /\ clips' \in [ClipIDs -> ClipRecords \cup {None}] /\ clips'[nextClip] = NewClip
        /\ \A d \in ClipIDs \ {nextClip} : clips'[d] = clips[d]
    BY <1>1, <2>1, NewClipOK
  <2>3. \A d \in Alive : d \in Alive'
    BY <2>2, NewClipOK, NoneAssumption DEF Alive
  <2>4. ClipsOK'
    <3> SUFFICES ASSUME NEW d \in Alive' PROVE ClipOK(clips'[d], d \in starved')
      BY DEF ClipsOK
    <3>1. CASE d = nextClip
      BY <2>2, <3>1, NewClipOK DEF ClipOK, DecodesAsWave
    <3>2. CASE d # nextClip
      <4>1. clips'[d] = clips[d] /\ d \in Alive
        BY <2>2, <3>2 DEF Alive
      <4> QED
        BY <2>1, <4>1, AliveClips
    <3> QED
      BY <3>1, <3>2
  <2>5. CompletionsOK'
    BY <2>1, <2>3 DEF ClipInv, CompletionsOK
  <2> QED
    BY <2>1, <2>2, <2>4, <2>5, VoiceStays DEF ClipInv
<1>3. ASSUME NEW c \in ClipIDs, DestroyClip(c)
      PROVE  ClipInv'
  <2>1. /\ clips' = [clips EXCEPT ![c] = None] /\ completed' = [completed EXCEPT ![c] = 0]
        /\ starved' = starved \ {c} /\ UNCHANGED <<bgmVoice, preserveStoppedLoops>>
    BY <1>3 DEF DestroyClip
  <2>2. /\ clips' \in [ClipIDs -> ClipRecords \cup {None}] /\ clips'[c] = None
        /\ \A d \in ClipIDs \ {c} : clips'[d] = clips[d]
    BY <1>1, <2>1
  <2>3. \A d \in ClipIDs : d \in Alive' <=> d \in Alive /\ d # c
    BY <2>2 DEF Alive
  <2>4. ClipsOK'
    <3> SUFFICES ASSUME NEW d \in Alive' PROVE ClipOK(clips'[d], d \in starved')
      BY DEF ClipsOK
    <3>1. d \in Alive /\ clips'[d] = clips[d] /\ (d \in starved' <=> d \in starved)
      BY <2>1, <2>2, <2>3 DEF Alive
    <3>2. ClipOK(clips[d], d \in starved)
      BY <3>1, AliveClips
    <3> QED
      BY <3>1, <3>2 DEF ClipOK
  <2>5. CompletionsOK'
    <3>1. /\ completed' \in [ClipIDs -> Nat] /\ completed'[c] = 0
          /\ \A d \in ClipIDs \ {c} : completed'[d] = completed[d]
      BY <1>1, <2>1
    <3> QED
      BY <2>3, <3>1 DEF ClipInv, CompletionsOK
  <2> QED
    BY <2>1, <2>2, <2>4, <2>5, VoiceStays DEF ClipInv
<1> QED
  BY <1>2, <1>3

LEMMA OtherClipStepsKeep ==
  ASSUME ClipInv,
         \/ \E c \in ClipIDs : TakeCompletion(c)
         \/ \E on \in BOOLEAN : SetStoppedLoopPreservation(on)
         \/ AdvanceFails \/ UNCHANGED clipVars
  PROVE  ClipInv'
<1>1. ASSUME NEW c \in ClipIDs, TakeCompletion(c) PROVE ClipInv'
  <2>1. /\ completed[c] > 0 /\ completed' = [completed EXCEPT ![c] = @ - 1]
        /\ UNCHANGED <<clips, bgmVoice, preserveStoppedLoops, starved>>
        /\ completed \in [ClipIDs -> Nat]
    BY <1>1 DEF TakeCompletion, ClipInv, CompletionsOK
  <2>2. completed[c] - 1 \in Nat
    BY <2>1
  <2>3. /\ completed' \in [ClipIDs -> Nat]
        /\ \A d \in ClipIDs : completed'[d] > 0 => completed[d] > 0
    BY <2>1, <2>2
  <2> QED
    BY <2>1, <2>3 DEF ClipInv, ClipsOK, VoiceOK, CompletionsOK, Alive
<1>2. ASSUME NEW on \in BOOLEAN, SetStoppedLoopPreservation(on) PROVE ClipInv'
  BY <1>2 DEF SetStoppedLoopPreservation, ClipInv, ClipsOK, VoiceOK, CompletionsOK, Alive
<1>3. CASE AdvanceFails
  BY <1>3 DEF AdvanceFails, ClipInv, ClipsOK, VoiceOK, CompletionsOK, Alive
<1>4. CASE UNCHANGED clipVars
  BY <1>4 DEF clipVars, ClipInv, ClipsOK, VoiceOK, CompletionsOK, Alive
<1> QED
  BY <1>1, <1>2, <1>3, <1>4

\* A step that changes every clip, and lets no clip appear or vanish.
LEMMA AllClipsKeep ==
  ASSUME ClipInv, NEW f,
         clips' = [c \in ClipIDs |-> IF c \in Alive THEN f[c] ELSE None],
         \A c \in Alive : ClipOK(f[c], c \in starved')
  PROVE  /\ clips' \in [ClipIDs -> ClipRecords \cup {None}] /\ ClipsOK'
         /\ \A c \in ClipIDs : c \in Alive' <=> c \in Alive
<1>1. \A c \in ClipIDs : clips'[c] = IF c \in Alive THEN f[c] ELSE None
  OBVIOUS
<1>2. \A c \in Alive : c \in ClipIDs /\ f[c] \in ClipRecords
  BY DEF ClipOK, Alive
<1>3. clips' \in [ClipIDs -> ClipRecords \cup {None}]
  BY <1>2
<1>4. \A c \in ClipIDs : c \in Alive' <=> c \in Alive
  BY <1>1, <1>2, NoneAssumption DEF Alive
<1>5. ClipsOK'
  <2> SUFFICES ASSUME NEW c \in Alive' PROVE ClipOK(clips'[c], c \in starved')
    BY DEF ClipsOK
  <2>1. c \in ClipIDs /\ c \in Alive
    BY <1>4 DEF Alive
  <2> QED
    BY <1>1, <2>1
<1> QED
  BY <1>3, <1>4, <1>5

LEMMA AdvanceClipsKeeps ==
  ASSUME ClipInv, NEW delta \in ClipDeltas, AdvanceClips(delta)
  PROVE  ClipInv'
<1> DEFINE ends == {c \in Alive : Completes(clips[c], delta)}
           f == [c \in Alive |-> Moved(clips[c], delta)]
<1>1. /\ clips' = [c \in ClipIDs |-> IF c \in Alive THEN Moved(clips[c], delta) ELSE None]
      /\ completed' = [c \in ClipIDs |-> completed[c] + (IF c \in ends THEN 1 ELSE 0)]
      /\ bgmVoice' = IF bgmVoice = None THEN None
                     ELSE [bgmVoice EXCEPT !.position = (@ + delta) % Length]
      /\ starved' = starved \ ends /\ preserveStoppedLoops' = preserveStoppedLoops
  BY DEF AdvanceClips
<1>2. delta \in Nat /\ Length \in Nat \ {0}
  BY MediaAssumption
<1>3. ASSUME NEW c \in Alive
      PROVE  ClipOK(f[c], c \in starved')
  <2> DEFINE clip == clips[c]
             new == Moved(clip, delta)
             wraps == Wraps(clip, delta)
             t == clip.position + delta
  <2>1. clip \in ClipRecords /\ ClipOK(clip, c \in starved)
    BY AliveClips
  <2>2. t \in Nat /\ clip.position \in Nat
    BY <1>2, <2>1 DEF ClipRecords
  <2>3. wraps \in Nat /\ t % Length \in 0 .. Length - 1 /\ t = Length * wraps + (t % Length)
    BY <1>2, <2>2, DivisionFacts DEF Wraps
  <2>4. c \in starved' <=> c \in starved /\ ~Completes(clip, delta)
    BY <1>1
  <2>5. f[c] = new
    OBVIOUS
  <2> HIDE DEF f, clip
  <2>6. CASE clip.state # "playing" \/ ~clip.decoded
    <3>1. new = clip /\ ~Completes(clip, delta)
      BY <2>6 DEF Moved, Completes
    <3> HIDE DEF new
    <3> QED
      BY <2>1, <2>4, <2>5, <3>1 DEF ClipOK
  <2>7. CASE Completes(clip, delta)
    <3> DEFINE stopped == "stopped"
               z == 0
               r == [clip EXCEPT !.position = Length, !.state = stopped, !.plays = z]
    <3>1. new = r /\ clip.state = "playing" /\ clip.decoded
      BY <2>7 DEF Moved, Completes
    <3>2. stopped \in {"stopped", "playing", "paused"} /\ stopped = "stopped"
          /\ z \in Nat \cup {Loop} /\ z = 0
      OBVIOUS
    <3> HIDE DEF stopped, z, new
    <3>3. /\ r \in ClipRecords /\ r.decoded = clip.decoded /\ r.source = clip.source
          /\ r.state = stopped /\ r.plays = z /\ r.waiting = clip.waiting
      BY <1>2, <2>1, <3>2 DEF ClipRecords
    <3> HIDE DEF r
    <3> QED
      BY <2>1, <2>5, <3>1, <3>2, <3>3 DEF ClipOK
  <2>8. CASE /\ clip.state = "playing" /\ clip.decoded /\ ~Completes(clip, delta)
             /\ wraps = 0
    <3> DEFINE r == [clip EXCEPT !.position = t]
    <3>1. new = r
      BY <2>8 DEF Moved
    <3>2. t <= Length
      <4> DEFINE m == t % Length
      <4>1. m \in 0 .. Length - 1 /\ t = Length * 0 + m
        BY <2>3, <2>8
      <4> HIDE DEF m, t
      <4> QED
        BY <1>2, <2>2, <4>1
    <3> HIDE DEF new, t
    <3>3. /\ r \in ClipRecords /\ r.decoded = clip.decoded /\ r.source = clip.source
          /\ r.state = clip.state /\ r.plays = clip.plays /\ r.waiting = clip.waiting
          /\ r.position = t
      BY <2>1, <2>2 DEF ClipRecords
    <3> HIDE DEF r
    <3> QED
      BY <2>1, <2>4, <2>5, <2>8, <3>1, <3>2, <3>3 DEF ClipOK
  <2>9. CASE /\ clip.state = "playing" /\ clip.decoded /\ ~Completes(clip, delta)
             /\ wraps # 0
    <3> DEFINE position == t % Length
               plays == IF clip.plays = Loop THEN Loop ELSE clip.plays - wraps
               r == [clip EXCEPT !.position = position, !.plays = plays]
    <3>1. new = r
      BY <2>9 DEF Moved
    <3>2. clip.plays \in Nat \cup {Loop} /\ clip.plays # 0
      BY <2>1, <2>9 DEF ClipRecords, ClipOK
    <3>3. clip.plays # Loop => wraps < clip.plays
      <4>1. clip.plays # Loop => ~(wraps >= clip.plays)
        BY <2>9 DEF Completes
      <4> HIDE DEF wraps
      <4> QED
        BY <2>3, <3>2, <4>1
    <3>4. plays \in Nat \cup {Loop} /\ plays # 0
      <4> HIDE DEF wraps
      <4> QED
        BY <2>3, <3>2, <3>3 DEF Loop
    <3>5. position \in Nat /\ position <= Length
      <4> HIDE DEF t
      <4> QED
        BY <1>2, <2>3
    <3> HIDE DEF new, position, plays
    <3>6. /\ r \in ClipRecords /\ r.decoded = clip.decoded /\ r.source = clip.source
          /\ r.state = clip.state /\ r.plays = plays /\ r.waiting = clip.waiting
          /\ r.position = position
      BY <2>1, <3>4, <3>5 DEF ClipRecords
    <3> HIDE DEF r
    <3> QED
      BY <2>1, <2>4, <2>5, <2>9, <3>1, <3>4, <3>5, <3>6 DEF ClipOK
  <2> QED
    BY <2>6, <2>7, <2>8, <2>9
<1>4. /\ clips' \in [ClipIDs -> ClipRecords \cup {None}] /\ ClipsOK'
      /\ \A c \in ClipIDs : c \in Alive' <=> c \in Alive
  <2>1. clips' = [c \in ClipIDs |-> IF c \in Alive THEN f[c] ELSE None]
    BY <1>1
  <2> HIDE DEF f
  <2> QED
    BY <1>3, <2>1, AllClipsKeep
<1>5. VoiceOK'
  <2> SUFFICES ASSUME bgmVoice' # None
      PROVE  /\ bgmVoice' = [source |-> bgmVoice'.source, position |-> bgmVoice'.position]
             /\ preserveStoppedLoops' /\ Decodes(bgmVoice'.source)
             /\ bgmVoice'.position \in Nat /\ bgmVoice'.position <= Length
    BY DEF VoiceOK
  <2> DEFINE t == bgmVoice.position + delta
             position == t % Length
  <2>1. /\ bgmVoice = [source |-> bgmVoice.source, position |-> bgmVoice.position]
        /\ preserveStoppedLoops /\ Decodes(bgmVoice.source) /\ bgmVoice.position \in Nat
    BY <1>1 DEF ClipInv, VoiceOK
  <2>2. bgmVoice' = [bgmVoice EXCEPT !.position = position]
    BY <1>1
  <2>3. t \in Nat
    BY <1>2, <2>1
  <2>4. position \in 0 .. Length - 1
    BY <1>2, <2>3, DivisionFacts
  <2> HIDE DEF t, position
  <2>5. position \in Nat /\ position <= Length
    BY <1>2, <2>4
  <2>6. bgmVoice' = [source |-> bgmVoice.source, position |-> position]
    BY <2>1, <2>2
  <2>7. bgmVoice'.source = bgmVoice.source /\ bgmVoice'.position = position
    BY <2>6
  <2> QED
    BY <1>1, <2>1, <2>5, <2>6, <2>7
<1>6. CompletionsOK'
  <2>1. completed \in [ClipIDs -> Nat] /\ \A c \in ClipIDs : completed[c] > 0 => c \in Alive
    BY DEF ClipInv, CompletionsOK
  <2>2. \A c \in ClipIDs : /\ completed'[c] \in Nat
                           /\ completed'[c] > 0 => completed[c] > 0 \/ c \in ends
    BY <1>1, <2>1
  <2>3. completed' \in [ClipIDs -> Nat]
    BY <1>1, <2>1
  <2> QED
    BY <1>4, <2>1, <2>2, <2>3 DEF CompletionsOK
<1> QED
  BY <1>4, <1>5, <1>6 DEF ClipInv

LEMMA LoadedClipsKeep ==
  ASSUME ClipInv, SaveAndLoadClips
  PROVE  ClipInv'
<1> DEFINE f == [c \in Alive |-> Reloaded(clips[c])]
<1>1. /\ \A c \in Alive : PositionAccepted(clips[c])
      /\ clips' = [c \in ClipIDs |-> IF c \in Alive THEN f[c] ELSE None]
      /\ starved' = {} /\ UNCHANGED <<bgmVoice, preserveStoppedLoops, completed>>
  BY DEF SaveAndLoadClips
<1>2. ASSUME NEW c \in Alive
      PROVE  ClipOK(f[c], c \in starved')
  <2> DEFINE clip == clips[c]
             decoded == Decodes(clip.source)
             waiting == ~decoded /\ clip.state # "stopped"
             new == [clip EXCEPT !.decoded = decoded, !.waiting = waiting]
  <2>1. clip \in ClipRecords /\ ClipOK(clip, c \in starved)
    BY AliveClips
  <2>2. f[c] = new
    BY DEF Reloaded
  <2>3. /\ decoded <=> Decodes(clip.source)
        /\ decoded \in BOOLEAN /\ waiting \in BOOLEAN
        /\ waiting <=> ~decoded /\ clip.state # "stopped"
        /\ DecodesAsWave(clip.source) => decoded
    BY Zenon DEF Decodes
  <2>4. decoded => clip.position <= Length
    BY <1>1 DEF PositionAccepted
  <2> HIDE DEF f, decoded, waiting, clip
  <2>5. /\ new \in ClipRecords /\ new.decoded = decoded /\ new.source = clip.source
        /\ new.state = clip.state /\ new.plays = clip.plays /\ new.waiting = waiting
        /\ new.position = clip.position
    BY <2>1, <2>3 DEF ClipRecords
  <2> HIDE DEF new
  <2> QED
    BY <2>1, <2>2, <2>3, <2>4, <2>5 DEF ClipOK
<1> HIDE DEF f
<1>3. /\ clips' \in [ClipIDs -> ClipRecords \cup {None}] /\ ClipsOK'
      /\ \A c \in ClipIDs : c \in Alive' <=> c \in Alive
  BY <1>1, <1>2, AllClipsKeep
<1>4. VoiceOK' /\ CompletionsOK'
  BY <1>1, <1>3, VoiceStays DEF ClipInv, CompletionsOK
<1> QED
  BY <1>3, <1>4 DEF ClipInv

LEMMA ClipInvariant == ClipsSpec => []ClipInv
<1>1. ClipsInit => ClipInv
  BY DEF ClipsInit, ClipInv, ClipsOK, VoiceOK, CompletionsOK, Alive
<1>2. ClipInv /\ [ClipsNext]_clipVars => ClipInv'
  <2> SUFFICES ASSUME ClipInv, [ClipsNext]_clipVars
      PROVE  ClipInv'
    OBVIOUS
  <2>1. ASSUME NEW c \in ClipIDs, NEW source \in Sources, AppendSource(c, source)
        PROVE  ClipInv'
    BY <2>1, AppendSourceKeeps
  <2>2. ASSUME NEW c \in ClipIDs, NEW source \in Sources,
               ReplaceSource(c, source) \/ TakeBuffered(c, source)
        PROVE  ClipInv'
    BY <2>2, BufferKeeps
  <2>3. ASSUME NEW c \in ClipIDs, ResetForReconcile(c)
        PROVE  ClipInv'
    <3>1. "empty" \in Sources
      BY DEF Sources
    <3> QED
      BY <2>3, <3>1, BufferKeeps
  <2>4. ASSUME NEW c \in ClipIDs,
               \/ Prepare(c) \/ Pause(c) \/ Resume(c)
               \/ \E position \in 0 .. MaxPosition : Seek(c, position)
        PROVE  ClipInv'
    BY <2>4, PlaybackKeeps
  <2>5. ASSUME NEW c \in ClipIDs, NEW plays \in PlayCounts \cup {Loop}, Play(c, plays)
        PROVE  ClipInv'
    BY <2>5, PlayKeeps
  <2>6. ASSUME NEW c \in ClipIDs, Stop(c, preserveStoppedLoops) \/ Stop(c, FALSE)
        PROVE  ClipInv'
    BY <2>6, StopKeeps
  <2>7. CASE CreateClip \/ \E c \in ClipIDs : DestroyClip(c)
    BY <2>7, RegistryKeeps
  <2>8. CASE \/ \E c \in ClipIDs : TakeCompletion(c)
             \/ \E on \in BOOLEAN : SetStoppedLoopPreservation(on)
             \/ AdvanceFails \/ UNCHANGED clipVars
    BY <2>8, OtherClipStepsKeep
  <2>9. ASSUME NEW delta \in ClipDeltas, AdvanceClips(delta)
        PROVE  ClipInv'
    BY <2>9, AdvanceClipsKeeps
  <2>10. CASE SaveAndLoadClips
    BY <2>10, LoadedClipsKeep
  <2> QED
    BY <2>1, <2>2, <2>3, <2>4, <2>5, <2>6, <2>7, <2>8, <2>9, <2>10 DEF ClipsNext
<1> QED
  BY <1>1, <1>2, PTL DEF ClipsSpec

\* The only playing clips an advance cannot move lost their decoder to an Append made
\* while they were paused; every other one is decodable or waits.
THEOREM OnlyPausedClipsStarve == ClipsSpec => []OnlyPausedAppendsStarve
<1>1. ClipInv => OnlyPausedAppendsStarve
  <2> SUFFICES ASSUME ClipInv, NEW c \in Broken PROVE c \in starved
    BY DEF OnlyPausedAppendsStarve
  <2>1. c \in Alive /\ clips[c].state = "playing" /\ ~clips[c].decoded /\ ~clips[c].waiting
    BY DEF Broken, Playing
  <2> QED
    BY <2>1, AliveClips DEF ClipOK
<1> QED
  BY <1>1, ClipInvariant, PTL

\* A load finds for every sounding clip that is not starved the decoder and the waiting
\* it had, and what Restore checks of counts, the background voice and the completions
\* on the bus holds.
THEOREM ClipSnapshotsLoad == ClipsSpec => []ClipSnapshotLoads
<1>1. ClipInv => ClipSnapshotLoads
  <2> SUFFICES ASSUME ClipInv PROVE ClipSnapshotLoads
    OBVIOUS
  <2>1. ASSUME NEW c \in Sounding \ starved
        PROVE  Reloaded(clips[c]) = clips[c]
    <3> DEFINE clip == clips[c]
               decoded == Decodes(clip.source)
               waiting == ~decoded /\ clip.state # "stopped"
    <3>1. c \in Alive /\ clip.state # "stopped"
      BY DEF Sounding
    <3>2. clip \in ClipRecords /\ ClipOK(clip, c \in starved) /\ c \notin starved
      BY <3>1, AliveClips
    <3>3. clip.decoded \in BOOLEAN /\ clip.waiting \in BOOLEAN
      BY <3>2 DEF ClipRecords
    <3>4. (decoded <=> clip.decoded) /\ (waiting <=> clip.waiting)
      BY <3>1, <3>2, <3>3 DEF ClipOK
    <3>5. decoded = clip.decoded /\ waiting = clip.waiting
      BY <3>3, <3>4, Zenon DEF Decodes, DecodesAsWave, DecodesAsScore
    <3>6. Reloaded(clip) = [clip EXCEPT !.decoded = decoded, !.waiting = waiting]
      BY DEF Reloaded
    <3> HIDE DEF clip, decoded, waiting
    <3>7. [clip EXCEPT !.decoded = clip.decoded, !.waiting = clip.waiting] = clip
      BY <3>2 DEF ClipRecords
    <3> QED
      BY <3>5, <3>6, <3>7 DEF clip
  <2>2. \A c \in Alive : CountsAccepted(clips[c])
    <3> TAKE c \in Alive
    <3>1. clips[c].state = "stopped" <=> clips[c].plays = 0
      BY AliveClips DEF ClipOK
    <3> QED
      BY <3>1, Zenon DEF CountsAccepted
  <2> QED
    BY <2>1, <2>2 DEF ClipSnapshotLoads, ClipInv, VoiceOK, CompletionsOK, PositionAccepted
<1> QED
  BY <1>1, ClipInvariant, PTL

-----------------------------------------------------------------------------
(* The queue the mixed output waits in.                                    *)

SpanRecords == [start : Nat, end : Nat, firstFrame : Nat, samples : Nat \ {0}]

Near(mixedFor, anchor) == mixedFor <= anchor /\ anchor - mixedFor < FrameTicks

\* The span tells the times of the frames q has from offset.
SpanTold(q, offset, span) ==
  \A k \in 1 .. span.samples :
    /\ q[offset + k] \in Int
    /\ Near(q[offset + k], span.start + (span.firstFrame + k - 1) * FrameTicks)

\* The spans tell those of all but the untimed first ones.
QueueTold(q, untimed, spans) ==
  /\ untimed + Ends(spans)[Len(spans)] = Len(q)
  /\ \A i \in 1 .. Len(spans) : SpanTold(q, untimed + Ends(spans)[i - 1], spans[i])

\* The last of the spans can be extended at time t, with r ticks of a frame left.
LastContinues(spans, t, r) ==
  LET last == spans[Len(spans)]
  IN  spans # <<>> =>
        /\ last.end <= t
        /\ last.end = t =>
             Near(t - r, last.start + (last.firstFrame + last.samples) * FrameTicks)

QueueInv ==
  /\ now \in Nat /\ untimedSamples \in Nat /\ outputRemainder \in 0 .. FrameTicks - 1
  /\ queuedPCM16 \in Seq(Int \cup {Unknown}) /\ queuedAudioSpans \in Seq(SpanRecords)
  /\ QueueTold(queuedPCM16, untimedSamples, queuedAudioSpans)
  /\ Len(queuedPCM16) <= Retention
  /\ LastContinues(queuedAudioSpans, now, outputRemainder)

EndsUpTo(n, spans, T) ==
  T = [i \in 0 .. n |-> IF i = 0 THEN 0 ELSE T[i - 1] + spans[i].samples]

\* The ends of the first n spans can be summed up, for every n.
LEMMA EndsExist ==
  ASSUME NEW spans, NEW N \in Nat
  PROVE  \E T : EndsUpTo(N, spans, T)
<1> DEFINE missing == {n \in Nat : ~ \E T : EndsUpTo(n, spans, T)}
<1>1. missing \in SUBSET Nat
  OBVIOUS
<1>2. missing = {}
  <2> SUFFICES ASSUME missing # {} PROVE FALSE
    OBVIOUS
  <2>1. PICK m \in missing : \A k \in missing : m <= k
    <3> HIDE DEF missing
    <3> QED
      BY <1>1, LeastNumber
  <2>2. m # 0
    <3> DEFINE f == [i \in 0 .. 0 |-> 0]
    <3>1. EndsUpTo(0, spans, f)
      BY DEF EndsUpTo
    <3>2. \E T : EndsUpTo(0, spans, T)
      BY <3>1
    <3> QED
      BY <3>2
  <2>3. m \in Nat /\ m - 1 \in Nat /\ ~(m <= m - 1)
    BY <2>1, <2>2
  <2>4. m - 1 \notin missing
    <3> HIDE DEF missing
    <3> QED
      BY <2>1, <2>3
  <2>5. PICK f : EndsUpTo(m - 1, spans, f)
    BY <2>3, <2>4
  <2> DEFINE g == [i \in 0 .. m |-> IF i = m THEN f[m - 1] + spans[m].samples ELSE f[i]]
  <2>6. \A i \in 0 .. m : g[i] = IF i = 0 THEN 0 ELSE g[i - 1] + spans[i].samples
    <3> TAKE i \in 0 .. m
    <3>1. CASE i = m
      <4>1. g[i - 1] = f[m - 1] /\ g[i] = f[m - 1] + spans[m].samples
        BY <2>2, <2>3, <3>1
      <4> QED
        BY <2>2, <3>1, <4>1
    <3>2. CASE i # m
      <4>1. i \in 0 .. m - 1 /\ (i # 0 => i - 1 \in 0 .. m - 1)
        BY <2>3, <3>2
      <4>2. f[i] = IF i = 0 THEN 0 ELSE f[i - 1] + spans[i].samples
        BY <2>5, <4>1 DEF EndsUpTo
      <4> QED
        BY <2>3, <3>2, <4>1, <4>2
    <3> QED
      BY <3>1, <3>2
  <2>7. EndsUpTo(m, spans, g)
    BY <2>6 DEF EndsUpTo
  <2>8. \E T : EndsUpTo(m, spans, T)
    BY <2>7
  <2> QED
    BY <2>1, <2>8
<1> QED
  BY <1>2

LEMMA SpanFields ==
  ASSUME NEW spans \in Seq(SpanRecords), NEW i \in 1 .. Len(spans)
  PROVE  /\ spans[i] \in SpanRecords
         /\ spans[i].start \in Nat /\ spans[i].end \in Nat /\ spans[i].firstFrame \in Nat
         /\ spans[i].samples \in Nat \ {0}
<1>1. spans[i] \in SpanRecords
  OBVIOUS
<1> QED
  BY <1>1 DEF SpanRecords

\* Ends counts the frames up to each span.
LEMMA EndsSum ==
  ASSUME NEW spans \in Seq(SpanRecords)
  PROVE  /\ Ends(spans)[0] = 0
         /\ \A i \in 1 .. Len(spans) :
              Ends(spans)[i] = Ends(spans)[i - 1] + spans[i].samples
<1> DEFINE T == CHOOSE T : EndsUpTo(Len(spans), spans, T)
<1>1. Len(spans) \in Nat
  OBVIOUS
<1>2. EndsUpTo(Len(spans), spans, T)
  BY <1>1, EndsExist, Zenon
<1>3. Ends(spans) = T
  BY Zenon DEF Ends, EndsUpTo
<1> HIDE DEF T
<1>4. \A i \in 0 .. Len(spans) : T[i] = IF i = 0 THEN 0 ELSE T[i - 1] + spans[i].samples
  BY <1>2 DEF EndsUpTo
<1>5. T[0] = 0 /\ \A i \in 1 .. Len(spans) : T[i] = T[i - 1] + spans[i].samples
  BY <1>1, <1>4
<1> QED
  BY <1>3, <1>5

\* There is one way to sum up.
LEMMA EndsAre ==
  ASSUME NEW spans \in Seq(SpanRecords), NEW T, T[0] = 0,
         \A i \in 1 .. Len(spans) : T[i] = T[i - 1] + spans[i].samples
  PROVE  \A i \in 0 .. Len(spans) : T[i] \in Nat /\ Ends(spans)[i] = T[i]
<1> DEFINE bad == {i \in 0 .. Len(spans) : ~(T[i] \in Nat /\ Ends(spans)[i] = T[i])}
<1>1. bad \in SUBSET Nat
  OBVIOUS
<1> SUFFICES ASSUME bad # {} PROVE FALSE
  OBVIOUS
<1>2. PICK m \in bad : \A k \in bad : m <= k
  <2> HIDE DEF bad
  <2> QED
    BY <1>1, LeastNumber
<1>3. Ends(spans)[0] = 0
  BY EndsSum
<1>4. m \in 1 .. Len(spans) /\ m - 1 \in 0 .. Len(spans) /\ ~(m <= m - 1)
  BY <1>2, <1>3
<1>5. m - 1 \notin bad
  <2> HIDE DEF bad
  <2> QED
    BY <1>2, <1>4
<1>6. T[m - 1] \in Nat /\ Ends(spans)[m - 1] = T[m - 1]
  BY <1>4, <1>5
<1>7. Ends(spans)[m] = Ends(spans)[m - 1] + spans[m].samples
  BY <1>4, EndsSum
<1>8. spans[m].samples \in Nat
  BY <1>4, SpanFields
<1>9. T[m] \in Nat /\ Ends(spans)[m] = T[m]
  BY <1>4, <1>6, <1>7, <1>8
<1> QED
  BY <1>2, <1>9

\* What comes before a span grows with it.
LEMMA EndsGrow ==
  ASSUME NEW spans \in Seq(SpanRecords)
  PROVE  /\ Ends(spans)[0] = 0
         /\ \A i \in 0 .. Len(spans) : Ends(spans)[i] \in Nat
         /\ \A i \in 1 .. Len(spans) :
              /\ Ends(spans)[i] = Ends(spans)[i - 1] + spans[i].samples
              /\ spans[i].samples \in Nat \ {0}
         /\ \A i \in 0 .. Len(spans), j \in 0 .. Len(spans) :
              i <= j => Ends(spans)[i] <= Ends(spans)[j]
<1> DEFINE T == Ends(spans)
<1>1. T[0] = 0 /\ \A i \in 1 .. Len(spans) : T[i] = T[i - 1] + spans[i].samples
  BY EndsSum
<1>2. \A i \in 0 .. Len(spans) : T[i] \in Nat
  BY <1>1, EndsAre
<1>3. \A i \in 1 .. Len(spans) : spans[i].samples \in Nat \ {0}
  BY SpanFields
<1> HIDE DEF T
<1>4. ASSUME NEW i \in 0 .. Len(spans), NEW j \in 0 .. Len(spans), i <= j
      PROVE  T[i] <= T[j]
  <2> DEFINE bad == {k \in i .. Len(spans) : T[k] < T[i]}
  <2>1. bad \in SUBSET Nat
    OBVIOUS
  <2>2. bad = {}
    <3> SUFFICES ASSUME bad # {} PROVE FALSE
      OBVIOUS
    <3>1. PICK m \in bad : \A k \in bad : m <= k
      <4> HIDE DEF bad
      <4> QED
        BY <2>1, LeastNumber
    <3>2. m # i
      BY <1>2, <3>1
    <3>3. m \in i .. Len(spans) /\ m - 1 \in i .. Len(spans) /\ ~(m <= m - 1) /\ m \in 1 .. Len(spans)
      BY <1>4, <3>1, <3>2
    <3>4. m - 1 \notin bad
      <4> HIDE DEF bad
      <4> QED
        BY <3>1, <3>3
    <3>5. ~(T[m - 1] < T[i]) /\ T[m] = T[m - 1] + spans[m].samples
      BY <1>1, <3>3, <3>4
    <3>6. T[m] < T[i]
      BY <3>1
    <3> QED
      BY <1>2, <1>3, <3>3, <3>5, <3>6
  <2>3. j \in i .. Len(spans) /\ j \notin bad
    BY <1>4, <2>2
  <2> QED
    BY <1>2, <2>3
<1> QED
  BY <1>1, <1>2, <1>3, <1>4 DEF T

LEMMA TrimmedFields ==
  ASSUME NEW span \in SpanRecords, NEW d \in Nat, d < span.samples
  PROVE  /\ Trimmed(span, d) \in SpanRecords
         /\ Trimmed(span, d).start = span.start /\ Trimmed(span, d).end = span.end
         /\ Trimmed(span, d).samples = span.samples - d
         /\ Trimmed(span, d).firstFrame = span.firstFrame + d
<1> DEFINE kept == span.samples - d
           first == span.firstFrame + d
<1>1. span.samples \in Nat \ {0} /\ span.firstFrame \in Nat
  BY DEF SpanRecords
<1>2. kept \in Nat \ {0} /\ first \in Nat
  BY <1>1
<1>3. Trimmed(span, d) = [span EXCEPT !.samples = kept, !.firstFrame = first]
  BY DEF Trimmed
<1> HIDE DEF kept, first
<1>4. /\ Trimmed(span, d) \in SpanRecords
      /\ Trimmed(span, d).start = span.start /\ Trimmed(span, d).end = span.end
      /\ Trimmed(span, d).samples = kept /\ Trimmed(span, d).firstFrame = first
  BY <1>2, <1>3 DEF SpanRecords
<1> QED
  BY <1>4 DEF kept, first

\* How many whole spans a loss takes.
LEMMA WholeSpans ==
  ASSUME NEW spans \in Seq(SpanRecords), NEW samples \in Nat
  PROVE  \E n \in 0 .. Len(spans) :
           /\ Ends(spans)[n] <= samples
           /\ n = Len(spans) \/ samples < Ends(spans)[n + 1]
<1> DEFINE T == Ends(spans)
           beyond == {i \in 0 .. Len(spans) : samples < T[i]}
<1>1. T[0] = 0 /\ \A i \in 0 .. Len(spans) : T[i] \in Nat
  BY EndsGrow
<1>2. beyond \in SUBSET Nat /\ Len(spans) \in Nat
  OBVIOUS
<1>3. CASE beyond = {}
  <2>1. Len(spans) \in 0 .. Len(spans) /\ ~(samples < T[Len(spans)])
    BY <1>2, <1>3
  <2> HIDE DEF T
  <2>2. T[Len(spans)] <= samples
    BY <1>1, <2>1
  <2> QED
    BY <2>1, <2>2 DEF T
<1>4. CASE beyond # {}
  <2>1. PICK m \in beyond : \A k \in beyond : m <= k
    <3> HIDE DEF beyond
    <3> QED
      BY <1>2, <1>4, LeastNumber
  <2> HIDE DEF T
  <2>2. m \in 0 .. Len(spans) /\ samples < T[m]
    BY <2>1
  <2>3. m \in 1 .. Len(spans) /\ m - 1 \in 0 .. Len(spans) /\ ~(m <= m - 1) /\ (m - 1) + 1 = m
    BY <1>1, <2>2
  <2>4. m - 1 \notin beyond
    <3> HIDE DEF beyond
    <3> QED
      BY <2>1, <2>3
  <2>5. T[m - 1] <= samples
    BY <1>1, <2>3, <2>4
  <2> QED
    BY <2>2, <2>3, <2>5 DEF T
<1> QED
  BY <1>3, <1>4

\* A loss takes whole spans and the first frames of the next one.
LEMMA TrimmedSpans ==
  ASSUME NEW spans \in Seq(SpanRecords), NEW samples \in Nat,
         samples <= Ends(spans)[Len(spans)]
  PROVE  \E n \in 0 .. Len(spans), t \in Seq(SpanRecords) :
           /\ t = TrimAudioSpans(spans, samples) /\ Len(t) = Len(spans) - n
           /\ n = Len(spans) => samples = Ends(spans)[n]
           /\ samples - Ends(spans)[n] \in Nat
           /\ n # Len(spans) =>
                /\ samples - Ends(spans)[n] < spans[n + 1].samples
                /\ t[1] = Trimmed(spans[n + 1], samples - Ends(spans)[n])
           /\ \A i \in 2 .. Len(t) : t[i] = spans[n + i]
<1> DEFINE T == Ends(spans)
           L == Len(spans)
           n == CHOOSE n \in 0 .. Len(spans) :
                  Ends(spans)[n] <= samples /\ (n = Len(spans) \/ samples < Ends(spans)[n + 1])
           rest == DropFirst(spans, n)
           d == samples - T[n]
           t == TrimAudioSpans(spans, samples)
<1>1. /\ n \in 0 .. Len(spans)
      /\ Ends(spans)[n] <= samples /\ (n = Len(spans) \/ samples < Ends(spans)[n + 1])
  BY WholeSpans, Zenon
<1>2. t = IF rest = <<>> THEN rest ELSE [rest EXCEPT ![1] = Trimmed(rest[1], d)]
  BY Zenon DEF TrimAudioSpans
<1>3. /\ L \in Nat /\ T[L] \in Nat /\ T[n] \in Nat
      /\ \A i \in 1 .. L : T[i] = T[i - 1] + spans[i].samples
  BY <1>1, EndsGrow
<1> HIDE DEF n, T, t
<1>4. n \in 0 .. L /\ T[n] <= samples /\ (n = L \/ samples < T[n + 1])
  BY <1>1 DEF T
<1>5. /\ rest \in Seq(SpanRecords) /\ Len(rest) = L - n
      /\ \A i \in 1 .. L - n : rest[i] = spans[i + n]
  BY <1>4, DroppedFirst
<1> HIDE DEF rest
<1>6. d \in Nat
  BY <1>3, <1>4
<1>7. CASE n = L
  <2>1. Len(rest) = 0
    BY <1>3, <1>5, <1>7
  <2>2. rest = <<>> /\ t = rest
    BY <1>2, <1>5, <2>1
  <2>3. samples = T[n]
    BY <1>3, <1>4, <1>7 DEF T
  <2>4. Len(t) = L - n /\ t \in Seq(SpanRecords) /\ \A i \in 2 .. Len(t) : FALSE
    BY <1>5, <2>1, <2>2
  <2> QED
    BY <1>4, <1>6, <1>7, <2>3, <2>4 DEF T, t
<1>8. CASE n # L
  <2>1. n + 1 \in 1 .. L /\ (n + 1) - 1 = n /\ 1 + n = n + 1
    BY <1>3, <1>4, <1>8
  <2>2. 1 \in 1 .. L - n
    BY <1>3, <1>4, <1>8
  <2>3. rest # <<>> /\ rest[1] = spans[n + 1]
    BY <1>5, <2>1, <2>2
  <2>4. spans[n + 1] \in SpanRecords /\ T[n + 1] = T[n] + spans[n + 1].samples
    BY <1>3, <2>1, SpanFields
  <2>5. spans[n + 1].samples \in Nat
    BY <2>4 DEF SpanRecords
  <2>6. d < spans[n + 1].samples
    BY <1>3, <1>4, <1>8, <2>4, <2>5
  <2> DEFINE x == Trimmed(spans[n + 1], d)
  <2>7. x \in SpanRecords
    BY <1>6, <2>4, <2>6, TrimmedFields
  <2>8. t = [rest EXCEPT ![1] = x]
    BY <1>2, <2>3
  <2> HIDE DEF x
  <2>9. /\ t \in Seq(SpanRecords) /\ Len(t) = L - n /\ t[1] = x
        /\ \A i \in 2 .. Len(t) : t[i] = rest[i]
    BY <1>5, <2>2, <2>7, <2>8
  <2>10. \A i \in 2 .. Len(t) : t[i] = spans[n + i]
    <3> TAKE i \in 2 .. Len(t)
    <3>1. i \in 1 .. L - n /\ i + n = n + i
      BY <1>3, <1>4, <2>9
    <3> QED
      BY <1>5, <2>9, <3>1
  <2> QED
    BY <1>4, <1>6, <1>8, <2>6, <2>9, <2>10 DEF T, t, x
<1> QED
  BY <1>7, <1>8

\* The frames that are lost are taken from the queue, the untimed ones and the spans
\* alike.
LEMMA TrimTold ==
  ASSUME NEW X, NEW q \in Seq(X), NEW u \in Nat, NEW spans \in Seq(SpanRecords),
         QueueTold(q, u, spans), NEW lost \in 0 .. Len(q)
  PROVE  LET untimedLost == Least(lost, u)
             t == TrimAudioSpans(spans, lost - untimedLost)
             last == spans[Len(spans)]
         IN  /\ untimedLost \in 0 .. u /\ t \in Seq(SpanRecords)
             /\ QueueTold(DropFirst(q, lost), u - untimedLost, t)
             /\ t # <<>> =>
                  /\ spans # <<>>
                  /\ t[Len(t)].start = last.start /\ t[Len(t)].end = last.end
                  /\ t[Len(t)].firstFrame + t[Len(t)].samples = last.firstFrame + last.samples
<1> DEFINE T(i) == Ends(spans)[i]
           size(i) == spans[i].samples
           L == Len(spans)
           ul == Least(lost, u)
           samples == lost - ul
           t == TrimAudioSpans(spans, samples)
           kept(i) == t[i].samples
           r == DropFirst(q, lost)
           N == Len(q)
<1>0. L \in Nat /\ N \in Nat /\ lost \in 0 .. N
  OBVIOUS
<1>1. /\ T(0) = 0
      /\ \A i \in 0 .. L : T(i) \in Nat
      /\ \A i \in 1 .. L : T(i) = T(i - 1) + size(i) /\ size(i) \in Nat \ {0}
      /\ \A i \in 0 .. L, j \in 0 .. L : i <= j => T(i) <= T(j)
  BY EndsGrow
<1>2. u + T(L) = N
  BY DEF QueueTold
<1>3. \A i \in 1 .. L : SpanTold(q, u + T(i - 1), spans[i])
  BY DEF QueueTold
<1> HIDE DEF T, size, L, N
<1>19. T(L) \in Nat
  BY <1>0, <1>1
<1>4. ul \in 0 .. u /\ samples \in Nat /\ lost = samples + ul
  BY <1>0 DEF Least
<1>20. samples <= T(L) /\ (samples # 0 => ul = u)
  BY <1>0, <1>2, <1>19 DEF Least
<1> HIDE DEF ul, samples
<1>5. PICK n \in 0 .. Len(spans), v \in Seq(SpanRecords) :
           /\ v = TrimAudioSpans(spans, samples) /\ Len(v) = Len(spans) - n
           /\ n = Len(spans) => samples = Ends(spans)[n]
           /\ samples - Ends(spans)[n] \in Nat
           /\ n # Len(spans) =>
                /\ samples - Ends(spans)[n] < spans[n + 1].samples
                /\ v[1] = Trimmed(spans[n + 1], samples - Ends(spans)[n])
           /\ \A i \in 2 .. Len(v) : v[i] = spans[n + i]
  BY <1>4, <1>20, TrimmedSpans DEF T, L
<1> DEFINE d == samples - T(n)
<1>6. /\ t \in Seq(SpanRecords) /\ Len(t) = L - n /\ n \in 0 .. L
      /\ n = L => samples = T(n)
      /\ d \in Nat
      /\ n # L => d < size(n + 1) /\ t[1] = Trimmed(spans[n + 1], d)
      /\ \A i \in 2 .. L - n : t[i] = spans[n + i]
  BY <1>5 DEF T, L, size
<1> HIDE DEF t
<1>21. n \in 0 .. L
  BY <1>6
<1>7. d = samples - T(n) /\ T(n) \in Nat
  BY <1>0, <1>1, <1>6
<1> HIDE DEF d
<1>8. ASSUME n # L
      PROVE  /\ n + 1 \in 1 .. L /\ d < size(n + 1)
             /\ t[1].start = spans[n + 1].start
             /\ t[1].end = spans[n + 1].end
             /\ kept(1) = size(n + 1) - d
             /\ t[1].firstFrame = spans[n + 1].firstFrame + d
  <2>1. n + 1 \in 1 .. L
    BY <1>0, <1>1, <1>6, <1>8
  <2>2. spans[n + 1] \in SpanRecords /\ d < spans[n + 1].samples
    BY <1>6, <1>8, <2>1, SpanFields DEF L, size
  <2>3. t[1] = Trimmed(spans[n + 1], d)
    BY <1>6, <1>8
  <2> QED
    BY <1>6, <2>1, <2>2, <2>3, TrimmedFields DEF size
<1>9. \A i \in 2 .. L - n : kept(i) = size(n + i)
  BY <1>6 DEF size
<1> HIDE DEF kept
<1> DEFINE w(i) == IF i = 0 THEN 0 ELSE T(n + i) - samples
           W == [i \in 0 .. L - n |-> w(i)]
<1>10. w(0) = 0 /\ \A i \in 1 .. L - n : w(i) = T(n + i) - samples
  BY <1>0, <1>1, <1>6
<1>11. \A i \in 1 .. L - n : w(i) = w(i - 1) + kept(i)
  <2> TAKE i \in 1 .. L - n
  <2>1. n # L
    BY <1>0, <1>1, <1>6
  <2>2. n + i \in 1 .. L /\ n + i - 1 \in 0 .. L
    BY <1>0, <1>1, <1>6
  <2>3. /\ T(n + i) = T(n + i - 1) + size(n + i)
        /\ size(n + i) \in Nat /\ T(n + i) \in Nat /\ T(n + i - 1) \in Nat
    BY <1>0, <1>1, <2>2
  <2>4. CASE i = 1
    <3>1. T(n + 1) = T(n) + size(n + 1) /\ kept(1) = size(n + 1) - d
      BY <1>6, <1>8, <2>1, <2>3, <2>4
    <3>2. w(1) = T(n + 1) - samples
      BY <1>10, <2>4
    <3> QED
      BY <1>4, <1>6, <1>7, <1>10, <2>3, <2>4, <3>1, <3>2
  <2>5. CASE i # 1
    <3>1. i \in 2 .. L - n /\ i - 1 \in 1 .. L - n /\ n + (i - 1) = n + i - 1
      BY <1>0, <1>1, <1>6, <2>5
    <3>2. w(i) = T(n + i) - samples /\ w(i - 1) = T(n + i - 1) - samples /\ kept(i) = size(n + i)
      BY <1>9, <1>10, <3>1
    <3> HIDE DEF w
    <3> QED
      BY <1>4, <2>3, <3>2
  <2> QED
    BY <2>4, <2>5
<1> HIDE DEF w
<1>12. W[0] = 0 /\ \A i \in 1 .. Len(t) : W[i] = W[i - 1] + t[i].samples
  BY <1>0, <1>1, <1>6, <1>10, <1>11 DEF kept
<1>13. \A i \in 0 .. L - n : w(i) \in Nat /\ Ends(t)[i] = w(i)
  <2>1. \A i \in 0 .. Len(t) : W[i] \in Nat /\ Ends(t)[i] = W[i]
    <3> HIDE DEF W
    <3> QED
      BY <1>6, <1>12, EndsAre
  <2> QED
    BY <1>6, <2>1
<1>14. /\ r \in Seq(X) /\ Len(r) = N - lost
       /\ \A i \in 1 .. N - lost : r[i] = q[i + lost]
  BY DroppedFirst DEF N
<1> HIDE DEF r
<1>22. Len(r) = N - lost
  BY <1>14
<1>15. (u - ul) + Ends(t)[Len(t)] = Len(r)
  <2>1. Ends(t)[Len(t)] = w(L - n)
    BY <1>0, <1>1, <1>6, <1>13
  <2>2. w(L - n) = T(L) - samples
    <3>1. CASE n = L
      <4>1. L - n = 0
        BY <1>0, <1>1, <3>1
      <4> QED
        BY <1>0, <1>1, <1>6, <1>10, <3>1, <4>1
    <3>2. CASE n # L
      <4>1. L - n \in 1 .. L - n /\ n + (L - n) = L
        BY <1>0, <1>21, <3>2
      <4> QED
        BY <1>10, <4>1
    <3> QED
      BY <3>1, <3>2
  <2> DEFINE total == Ends(t)[Len(t)]
             left == Len(r)
             all == T(L)
  <2>3. total = all - samples /\ left = N - lost /\ u + all = N /\ all \in Nat
    BY <1>2, <1>19, <1>22, <2>1, <2>2
  <2> HIDE DEF total, left, all
  <2>4. (u - ul) + total = left
    BY <1>0, <1>4, <2>3
  <2> QED
    BY <2>4 DEF total, left
<1>16. ASSUME NEW i \in 1 .. L - n
       PROVE  SpanTold(r, (u - ul) + Ends(t)[i - 1], t[i])
  <2> DEFINE o == (u - ul) + Ends(t)[i - 1]
             p == u + T(n + i - 1)
             s == spans[n + i]
             f == s.firstFrame
             c == s.start
             e == IF i = 1 THEN d ELSE 0
  <2>1. n # L /\ n + i \in 1 .. L /\ n + i - 1 \in 0 .. L /\ i - 1 \in 0 .. L - n
    BY <1>0, <1>21
  <2>2. SpanTold(q, p, s)
    <3>1. SpanTold(q, u + T((n + i) - 1), spans[n + i])
      BY <1>3, <2>1
    <3> QED
      BY <3>1
  <2>3. s \in SpanRecords /\ c \in Nat /\ f \in Nat /\ s.samples = size(n + i)
    BY <2>1, SpanFields DEF L, size
  <2>4. size(n + i) \in Nat /\ T(n + i) = T(n + i - 1) + size(n + i)
        /\ T(n + i) \in Nat /\ T(n + i - 1) \in Nat
    BY <1>0, <1>1, <2>1
  <2>10. T(n + i - 1) \in Nat
    BY <2>4
  <2>5. p + size(n + i) <= N /\ p \in Nat
    <3>1. L \in 0 .. L /\ n + i \in 0 .. L /\ n + i <= L
      BY <1>0, <1>1, <2>1
    <3>2. T(n + i) <= T(L) /\ T(L) \in Nat
      BY <1>0, <1>1, <3>1
    <3> QED
      BY <1>2, <2>4, <3>2
  <2>6. o = (u - ul) + w(i - 1) /\ w(i - 1) \in Nat
    BY <1>13, <2>1
  <2> HIDE DEF o
  <2>7. /\ e \in Nat /\ o + lost = p + e /\ o \in Nat
        /\ t[i].start = c /\ kept(i) = size(n + i) - e /\ t[i].firstFrame = f + e
    <3>1. CASE i = 1
      <4>1. e = d /\ n + i - 1 = n /\ n + i = n + 1 /\ w(i - 1) = 0
        BY <1>0, <1>1, <1>6, <1>10, <3>1
      <4>2. p = u + T(n)
        BY <4>1
      <4> HIDE DEF p, e
      <4>3. o + lost = p + e /\ o \in Nat
        BY <1>4, <1>7, <2>6, <4>1, <4>2
      <4> QED
        BY <1>6, <1>8, <2>1, <3>1, <4>1, <4>3
    <3>2. CASE i # 1
      <4>1. i \in 2 .. L - n /\ i - 1 \in 1 .. L - n /\ n + (i - 1) = n + i - 1
        BY <1>0, <1>1, <1>6, <3>2
      <4>2. w(i - 1) = T(n + i - 1) - samples
        BY <1>10, <4>1
      <4>3. e = 0 /\ p = u + T(n + i - 1)
        BY <3>2
      <4>4. t[i] = s /\ kept(i) = size(n + i)
        BY <1>6, <1>9, <4>1
      <4> HIDE DEF p, e, s
      <4> DEFINE a == T(n + i - 1)
                 b == w(i - 1)
      <4>6. b = a - samples /\ a \in Nat /\ b \in Nat /\ p = u + a /\ o = (u - ul) + b
        BY <2>6, <2>10, <4>2, <4>3
      <4> HIDE DEF a, b
      <4>5. o + lost = p + e /\ o \in Nat
        BY <1>4, <4>3, <4>6
      <4> QED
        BY <2>3, <2>4, <4>3, <4>4, <4>5
    <3> QED
      BY <3>1, <3>2
  <2> HIDE DEF p, e, f, c, s
  <2>8. SUFFICES SpanTold(r, o, t[i])
    BY DEF o
  <2>9. ASSUME NEW k \in 1 .. kept(i)
        PROVE  r[o + k] \in Int /\ Near(r[o + k], c + (f + e + k - 1) * FrameTicks)
    <3>1. k + e \in 1 .. size(n + i) /\ k \in Nat
      BY <2>4, <2>7
    <3> DEFINE m == size(n + i)
    <3>6. /\ o + lost = p + e /\ o \in Nat /\ e \in Nat /\ p \in Nat
          /\ p + m <= N /\ m \in Nat /\ k + e <= m /\ k \in Nat /\ k >= 1
      BY <2>4, <2>5, <2>7, <3>1
    <3> HIDE DEF m
    <3>2. o + k \in 1 .. N - lost /\ o + k + lost = p + (k + e)
      BY <1>0, <3>6
    <3>3. r[o + k] = q[p + (k + e)]
      <4>1. r[o + k] = q[o + k + lost]
        BY <1>14, <3>2
      <4> QED
        BY <3>2, <4>1
    <3>4. q[p + (k + e)] \in Int /\ Near(q[p + (k + e)], c + (f + (k + e) - 1) * FrameTicks)
      BY <2>2, <2>3, <3>1 DEF SpanTold, f, c
    <3>5. f + (k + e) - 1 = f + e + k - 1
      BY <2>3, <2>7, <3>1
    <3> QED
      BY <3>3, <3>4, <3>5
  <2> QED
    BY <2>7, <2>9 DEF SpanTold, kept
<1>17. QueueTold(r, u - ul, t)
  BY <1>6, <1>15, <1>16 DEF QueueTold
<1>18. ASSUME t # <<>>
       PROVE  /\ spans # <<>>
              /\ t[Len(t)].start = spans[L].start /\ t[Len(t)].end = spans[L].end
              /\ t[Len(t)].firstFrame + t[Len(t)].samples = spans[L].firstFrame + spans[L].samples
  <2>1. n # L /\ L \in 1 .. L
    BY <1>0, <1>1, <1>6, <1>18
  <2>2. spans # <<>> /\ spans[L].firstFrame \in Nat /\ size(L) \in Nat
    BY <1>0, <1>1, <2>1, SpanFields DEF L
  <2>3. CASE L - n = 1
    <3>1. n + 1 = L /\ Len(t) = 1
      BY <1>0, <1>1, <1>6, <2>3
    <3>2. /\ t[1].start = spans[L].start /\ t[1].end = spans[L].end
          /\ kept(1) = size(L) - d /\ t[1].firstFrame = spans[L].firstFrame + d
      BY <1>8, <2>1, <3>1
    <3> DEFINE first == t[1].firstFrame
               f == spans[L].firstFrame
    <3>3. first = f + d /\ f \in Nat
      BY <2>2, <3>2
    <3> HIDE DEF first, f
    <3>4. first + kept(1) = f + size(L)
      BY <1>6, <2>2, <3>2, <3>3
    <3>5. t[1].firstFrame + t[1].samples = spans[L].firstFrame + spans[L].samples
      BY <3>4, Zenon DEF first, f, kept, size
    <3> QED
      BY <2>2, <3>1, <3>2, <3>5, Zenon
  <2>4. CASE L - n # 1
    <3>1. L - n \in 2 .. L - n /\ n + (L - n) = L
      BY <1>0, <1>1, <1>6, <2>1, <2>4
    <3>2. t[Len(t)] = spans[L]
      BY <1>6, <3>1
    <3> QED
      BY <2>2, <3>2
  <2> QED
    BY <2>3, <2>4
<1> QED
  BY <1>4, <1>6, <1>17, <1>18 DEF t, r, samples, ul, L

LEMMA NearLater ==
  ASSUME NEW a \in Int, NEW i \in Nat, NEW j \in Nat, NEW r \in Int,
         Near(r, a + i * FrameTicks)
  PROVE  Near(r + j * FrameTicks, a + (i + j) * FrameTicks)
<1> DEFINE x == i * FrameTicks
           y == j * FrameTicks
<1>1. FrameTicks \in Nat
  BY MediaOutputAssumption
<1>2. x \in Nat /\ y \in Nat /\ (i + j) * FrameTicks = x + y
  BY <1>1
<1>3. Near(r, a + x)
  OBVIOUS
<1> HIDE DEF x, y
<1>4. Near(r + y, a + (x + y))
  BY <1>1, <1>2, <1>3 DEF Near
<1> QED
  BY <1>2, <1>4 DEF y

\* What comes after the frames of a span does not change them.
LEMMA ToldLonger ==
  ASSUME NEW X, NEW Y, NEW q \in Seq(X), NEW m \in Seq(Y), NEW o \in Nat,
         NEW span \in SpanRecords, SpanTold(q, o, span), o + span.samples <= Len(q)
  PROVE  SpanTold(q \o m, o, span)
<1>1. span.samples \in Nat
  BY DEF SpanRecords
<1> SUFFICES ASSUME NEW k \in 1 .. span.samples PROVE (q \o m)[o + k] = q[o + k]
  BY DEF SpanTold
<1>2. o + k \in 1 .. Len(q)
  BY <1>1
<1> QED
  BY <1>2

\* A block that follows the last span extends it, any other one gets its own.
LEMMA AddTold ==
  ASSUME NEW X, NEW q \in Seq(X), NEW u \in Nat, NEW spans \in Seq(SpanRecords),
         NEW t \in Nat, NEW r \in 0 .. FrameTicks - 1,
         QueueTold(q, u, spans), LastContinues(spans, t, r),
         NEW mixed \in Seq(Int), mixed # <<>>, NEW first \in Nat, NEW end \in Nat,
         NEW left \in 0 .. FrameTicks - 1,
         \A k \in 1 .. Len(mixed) : mixed[k] = t - r + (first + k - 1) * FrameTicks,
         end - left = t - r + (first + Len(mixed)) * FrameTicks
  PROVE  LET added == AddSpan(spans, t, end, first, Len(mixed))
         IN  /\ added \in Seq(SpanRecords)
             /\ QueueTold(q \o mixed, u, added)
             /\ LastContinues(added, end, left)
<1> DEFINE T(i) == Ends(spans)[i]
           size(i) == spans[i].samples
           L == Len(spans)
           N == Len(q)
           n == Len(mixed)
           a == AddSpan(spans, t, end, first, Len(mixed))
           last == spans[L]
           merges == spans # <<>> /\ first = 0 /\ last.end = t
           p == q \o mixed
           F == FrameTicks
<1>1. L \in Nat /\ N \in Nat /\ n \in Nat \ {0} /\ F \in Nat \ {0} /\ left \in 0 .. F - 1
      /\ r \in 0 .. F - 1
  BY MediaOutputAssumption
<1>2. /\ T(0) = 0
      /\ \A i \in 0 .. L : T(i) \in Nat
      /\ \A i \in 1 .. L : T(i) = T(i - 1) + size(i) /\ size(i) \in Nat \ {0}
      /\ \A i \in 0 .. L, j \in 0 .. L : i <= j => T(i) <= T(j)
  BY EndsGrow
<1>3. u + T(L) = N /\ T(L) \in Nat
  BY <1>1, <1>2 DEF QueueTold
<1>4. \A i \in 1 .. L : SpanTold(q, u + T(i - 1), spans[i])
  BY DEF QueueTold
<1>5. Len(p) = N + n /\ \A k \in 1 .. n : p[N + k] = mixed[k]
  BY <1>1
<1>6. \A k \in 1 .. n : mixed[k] = t - r + (first + k - 1) * F
  OBVIOUS
<1>7. spans # <<>> => last \in SpanRecords /\ L \in 1 .. L
  BY SpanFields
<1> HIDE DEF T, size, N
<1>8. \A i \in 1 .. L : SpanTold(p, u + T(i - 1), spans[i])
  <2> TAKE i \in 1 .. L
  <2>1. i - 1 \in 0 .. L /\ i \in 0 .. L /\ L \in 0 .. L /\ i <= L
    BY <1>1
  <2>2. T(i - 1) \in Nat /\ T(i) = T(i - 1) + size(i) /\ T(i) <= T(L)
    BY <1>2, <2>1
  <2>3. size(i) \in Nat
    BY <1>2
  <2> DEFINE o == u + T(i - 1)
  <2> DEFINE before == T(i - 1)
             after == T(i)
             all == T(L)
             m == size(i)
  <2>7. /\ before \in Nat /\ after = before + m /\ after <= all /\ m \in Nat
        /\ u + all = N /\ all \in Nat /\ o = u + before
    BY <1>3, <2>2, <2>3
  <2> HIDE DEF before, after, all, m, o
  <2>8. o \in Nat /\ o + m <= N
    BY <2>7
  <2>4. o \in Nat /\ o + size(i) <= N
    BY <2>8 DEF m
  <2>5. SpanTold(q, o, spans[i]) /\ spans[i] \in SpanRecords
    BY <1>4, SpanFields DEF o
  <2>6. SpanTold(p, o, spans[i])
    BY <2>4, <2>5, ToldLonger DEF size, N
  <2> QED
    BY <2>6 DEF o
<1> HIDE DEF p, L, n, a, F
<1>9. CASE merges
  <2> DEFINE s == last.samples
             f == last.firstFrame
             c == last.start
             m == s + n
             x == [last EXCEPT !.end = end, !.samples = m]
             b == t - r
  <2>1. L \in 1 .. L /\ L - 1 \in 0 .. L /\ spans # <<>> /\ first = 0 /\ last.end = t
    BY <1>1, <1>7, <1>9
  <2>2. last \in SpanRecords /\ c \in Nat /\ f \in Nat /\ s \in Nat \ {0} /\ s = size(L)
    BY <1>7, <1>9, SpanFields DEF SpanRecords, size
  <2>3. a = [spans EXCEPT ![L] = x]
    BY <2>1 DEF AddSpan, a, L, n
  <2>4. Near(b, c + (f + s) * F) /\ b \in Int
    BY <1>1, <2>1 DEF LastContinues, L, F
  <2> HIDE DEF s, f, c, b
  <2>5. m \in Nat \ {0} /\ m = s + n
    BY <1>1, <2>2
  <2> HIDE DEF m
  <2>19. s \in Nat /\ s >= 1 /\ f \in Nat /\ c \in Nat /\ m \in Nat /\ m = s + n /\ n \in Nat
    BY <1>1, <2>2, <2>5
  <2>20. s = size(L)
    BY <2>2
  <2>6. x \in SpanRecords /\ x.start = c /\ x.end = end /\ x.firstFrame = f /\ x.samples = m
    BY <2>2, <2>5 DEF SpanRecords, c, f
  <2> HIDE DEF x
  <2>7. /\ a \in Seq(SpanRecords) /\ Len(a) = L /\ a[L] = x
        /\ \A i \in 1 .. L - 1 : a[i] = spans[i]
    <3> HIDE DEF last
    <3>1. spans \in Seq(SpanRecords) /\ L = Len(spans) /\ L \in 1 .. Len(spans)
      BY <2>1 DEF L
    <3> QED
      BY <2>3, <2>6, <3>1
  <2> DEFINE w(i) == IF i = L THEN T(L) + n ELSE T(i)
             W == [i \in 0 .. L |-> w(i)]
             asize(i) == a[i].samples
  <2>8. w(L) = T(L) + n /\ \A i \in 0 .. L - 1 : w(i) = T(i)
    BY <1>1
  <2>9. asize(L) = m /\ \A i \in 1 .. L - 1 : asize(i) = size(i)
    BY <2>6, <2>7 DEF size
  <2> HIDE DEF w, asize
  <2>10. w(0) = 0 /\ 0 \in 0 .. L - 1
    BY <1>1, <1>2, <2>1, <2>8
  <2>11. \A i \in 1 .. L : w(i) = w(i - 1) + asize(i)
    <3> TAKE i \in 1 .. L
    <3>1. i - 1 \in 0 .. L - 1 /\ i - 1 \in 0 .. L
      BY <1>1
    <3>2. w(i - 1) = T(i - 1) /\ T(i - 1) \in Nat /\ T(i) = T(i - 1) + size(i) /\ size(i) \in Nat
      BY <1>2, <2>8, <3>1
    <3>3. CASE i = L
      <4> DEFINE before == T(i - 1)
                 here == w(i)
      <4>1. before \in Nat /\ here = before + s + n /\ w(i - 1) = before /\ asize(i) = m
        BY <2>8, <2>9, <2>20, <3>2, <3>3
      <4> HIDE DEF before, here
      <4>2. here = before + m
        BY <2>19, <4>1
      <4> QED
        BY <4>1, <4>2 DEF here
    <3>4. CASE i # L
      <4>1. i \in 1 .. L - 1 /\ i \in 0 .. L - 1
        BY <1>1, <3>4
      <4>2. w(i) = T(i) /\ asize(i) = size(i)
        BY <2>8, <2>9, <4>1
      <4> QED
        BY <3>2, <4>2
    <3> QED
      BY <3>3, <3>4
  <2>12. W[0] = 0 /\ \A i \in 1 .. Len(a) : W[i] = W[i - 1] + a[i].samples
    BY <1>1, <2>7, <2>10, <2>11 DEF asize
  <2>13. \A i \in 0 .. L : Ends(a)[i] = w(i)
    <3>1. \A i \in 0 .. Len(a) : Ends(a)[i] = W[i]
      <4> HIDE DEF W
      <4> QED
        BY <2>7, <2>12, EndsAre
    <3> QED
      BY <2>7, <3>1
  <2>14. u + Ends(a)[Len(a)] = Len(p)
    <3>1. Ends(a)[Len(a)] = w(L)
      BY <1>1, <2>7, <2>13
    <3> DEFINE total == w(L)
               all == T(L)
    <3>2. total = all + n /\ all \in Nat /\ u + all = N
      BY <1>3, <2>8
    <3> HIDE DEF total, all
    <3>3. u + total = N + n
      BY <1>1, <3>2
    <3> QED
      BY <1>5, <3>1, <3>3 DEF total
  <2>15. SpanTold(p, u + T(L - 1), x)
    <3> DEFINE o == u + T(L - 1)
    <3>1. T(L - 1) \in Nat /\ T(L) = T(L - 1) + s
      BY <1>2, <2>1, <2>2
    <3> DEFINE before == T(L - 1)
               all == T(L)
    <3>5. before \in Nat /\ all = before + s /\ u + all = N /\ all \in Nat /\ o = u + before
      BY <1>3, <3>1
    <3> HIDE DEF before, all, o
    <3>2. o \in Nat /\ o + s = N
      BY <2>19, <3>5
    <3>3. SpanTold(p, o, last)
      BY <1>8, <2>1 DEF o
    <3>4. ASSUME NEW k \in 1 .. m
          PROVE  p[o + k] \in Int /\ Near(p[o + k], c + (f + k - 1) * F)
      <4>1. CASE k <= s
        <5>1. k \in 1 .. s
          BY <2>2, <2>5, <4>1
        <5> QED
          BY <3>3, <5>1 DEF SpanTold, s, f, c, F
      <4>2. CASE k > s
        <5> DEFINE j == k - s - 1
                   g == f + s
                   h == k - s
        <5>1. h \in 1 .. n /\ j \in Nat /\ first + h - 1 = j
          BY <1>1, <2>1, <2>19, <4>2
        <5>2. o + k = N + h /\ g + j = f + k - 1 /\ g \in Nat
          BY <1>1, <2>19, <3>2, <4>2
        <5> HIDE DEF j, g, h
        <5>3. p[o + k] = b + j * F
          <6>1. p[N + h] = mixed[h] /\ mixed[h] = t - r + (first + h - 1) * F
            BY <1>5, <1>6, <5>1
          <6> QED
            BY <5>1, <5>2, <6>1 DEF b
        <5>4. Near(b + j * F, c + (g + j) * F)
          <6>1. Near(b, c + g * F)
            BY <2>4 DEF g
          <6> QED
            BY <2>4, <2>19, <5>1, <5>2, <6>1, NearLater DEF F
        <5>5. b + j * F \in Int
          BY <1>1, <2>4, <5>1
        <5> QED
          BY <5>2, <5>3, <5>4, <5>5
      <4> QED
        BY <2>2, <2>5, <4>1, <4>2
    <3> QED
      BY <2>6, <3>4 DEF SpanTold, o, F
  <2>16. \A i \in 1 .. L : SpanTold(p, u + Ends(a)[i - 1], a[i])
    <3> TAKE i \in 1 .. L
    <3>1. i - 1 \in 0 .. L - 1 /\ i - 1 \in 0 .. L
      BY <1>1
    <3>2. Ends(a)[i - 1] = T(i - 1)
      BY <2>8, <2>13, <3>1
    <3>3. CASE i = L
      BY <2>7, <2>15, <3>2, <3>3
    <3>4. CASE i # L
      <4>1. i \in 1 .. L - 1
        BY <1>1, <3>4
      <4> QED
        BY <1>8, <2>7, <3>2, <4>1
    <3> QED
      BY <3>3, <3>4
  <2>17. LastContinues(a, end, left)
    <3> DEFINE g == f + s
    <3>1. g + n = f + m /\ end - left = b + n * F /\ g \in Nat /\ n \in Nat
      <4>1. g + n = f + m /\ g \in Nat /\ n \in Nat /\ 0 + n = n
        BY <1>1, <2>19
      <4>2. end - left = t - r + (first + n) * F
        BY DEF n, F
      <4> QED
        BY <2>1, <4>1, <4>2 DEF b
    <3>2. Near(b, c + g * F)
      BY <2>4
    <3> HIDE DEF g
    <3>3. Near(b + n * F, c + (g + n) * F)
      BY <2>4, <2>19, <3>1, <3>2, NearLater DEF F
    <3>4. Near(end - left, x.start + (x.firstFrame + x.samples) * F) /\ x.end = end
      BY <2>6, <3>1, <3>3
    <3> QED
      BY <2>7, <3>4 DEF LastContinues, F
  <2>18. QueueTold(p, u, a)
    BY <2>7, <2>14, <2>16 DEF QueueTold
  <2> QED
    BY <2>7, <2>17, <2>18 DEF a, p, n
<1>10. CASE ~merges
  <2> DEFINE x == [start |-> t, end |-> end, firstFrame |-> first, samples |-> n]
             M == L + 1
  <2>1. a = Append(spans, x)
    BY <1>10 DEF AddSpan, a, L, n
  <2>2. /\ x \in SpanRecords /\ x.start = t /\ x.end = end /\ x.firstFrame = first
        /\ x.samples = n
    BY <1>1 DEF SpanRecords
  <2> HIDE DEF x
  <2>3. /\ a \in Seq(SpanRecords) /\ Len(a) = M /\ a[M] = x
        /\ \A i \in 1 .. L : a[i] = spans[i]
    BY <2>1, <2>2 DEF L
  <2> DEFINE w(i) == IF i = L + 1 THEN T(L) + n ELSE T(i)
             W == [i \in 0 .. L + 1 |-> w(i)]
             asize(i) == a[i].samples
  <2>4. w(L + 1) = T(L) + n /\ \A i \in 0 .. L : w(i) = T(i)
    BY <1>1
  <2>5. asize(L + 1) = n /\ \A i \in 1 .. L : asize(i) = size(i)
    BY <2>2, <2>3 DEF size
  <2> HIDE DEF w, asize
  <2>6. w(0) = 0
    BY <1>1, <1>2, <2>4
  <2>7. \A i \in 1 .. L + 1 : w(i) = w(i - 1) + asize(i)
    <3> TAKE i \in 1 .. L + 1
    <3>1. CASE i = L + 1
      <4>1. i - 1 = L /\ L \in 0 .. L
        BY <1>1, <3>1
      <4> QED
        BY <2>4, <2>5, <3>1, <4>1
    <3>2. CASE i # L + 1
      <4>1. i \in 1 .. L /\ i \in 0 .. L /\ i - 1 \in 0 .. L
        BY <1>1, <3>2
      <4>2. w(i) = T(i) /\ w(i - 1) = T(i - 1) /\ asize(i) = size(i)
        BY <2>4, <2>5, <4>1
      <4>3. T(i) = T(i - 1) + size(i)
        BY <1>2, <4>1
      <4> QED
        BY <4>2, <4>3
    <3> QED
      BY <3>1, <3>2
  <2>8. W[0] = 0 /\ \A i \in 1 .. Len(a) : W[i] = W[i - 1] + a[i].samples
    BY <1>1, <2>3, <2>6, <2>7 DEF asize
  <2>9. \A i \in 0 .. L + 1 : Ends(a)[i] = w(i)
    <3>1. \A i \in 0 .. Len(a) : Ends(a)[i] = W[i]
      <4> HIDE DEF W
      <4> QED
        BY <2>3, <2>8, EndsAre
    <3> QED
      BY <2>3, <3>1
  <2>10. u + Ends(a)[Len(a)] = Len(p)
    <3>1. Ends(a)[Len(a)] = w(L + 1)
      BY <1>1, <2>3, <2>9
    <3> DEFINE total == w(L + 1)
               all == T(L)
    <3>2. total = all + n /\ all \in Nat /\ u + all = N
      BY <1>3, <2>4
    <3> HIDE DEF total, all
    <3>3. u + total = N + n
      BY <1>1, <3>2
    <3> QED
      BY <1>5, <3>1, <3>3 DEF total
  <2>11. SpanTold(p, u + T(L), x)
    <3> SUFFICES ASSUME NEW k \in 1 .. n
                 PROVE  p[N + k] \in Int /\ Near(p[N + k], t + (first + k - 1) * F)
      BY <1>3, <2>2 DEF SpanTold, F
    <3> DEFINE y == (first + k - 1) * F
    <3>1. first + k - 1 \in Nat
      BY <1>1
    <3>2. y \in Nat
      BY <1>1, <3>1
    <3>3. p[N + k] = t - r + y
      <4>1. p[N + k] = mixed[k] /\ mixed[k] = t - r + (first + k - 1) * F
        BY <1>5, <1>6
      <4> QED
        BY <4>1
    <3> HIDE DEF y
    <3>4. t - r + y \in Int /\ Near(t - r + y, t + y)
      BY <1>1, <3>2 DEF Near, F
    <3> QED
      BY <3>3, <3>4 DEF y
  <2>12. \A i \in 1 .. L + 1 : SpanTold(p, u + Ends(a)[i - 1], a[i])
    <3> TAKE i \in 1 .. L + 1
    <3>1. i - 1 \in 0 .. L /\ i - 1 \in 0 .. L + 1
      BY <1>1
    <3>2. Ends(a)[i - 1] = T(i - 1)
      BY <2>4, <2>9, <3>1
    <3>3. CASE i = L + 1
      <4>1. i - 1 = L
        BY <1>1, <3>3
      <4> QED
        BY <2>3, <2>11, <3>2, <3>3, <4>1
    <3>4. CASE i # L + 1
      <4>1. i \in 1 .. L
        BY <1>1, <3>4
      <4> QED
        BY <1>8, <2>3, <3>2, <4>1
    <3> QED
      BY <3>3, <3>4
  <2>13. LastContinues(a, end, left)
    <3> DEFINE y == (first + n) * F
    <3>1. y \in Nat /\ end - left = t - r + y
      BY <1>1 DEF n, F
    <3> HIDE DEF y
    <3>2. Near(end - left, t + y)
      BY <1>1, <3>1 DEF Near, F
    <3>3. Near(end - left, x.start + (x.firstFrame + x.samples) * F) /\ x.end = end
      BY <2>2, <3>2 DEF y
    <3> QED
      BY <2>3, <3>3 DEF LastContinues, F
  <2>14. QueueTold(p, u, a)
    BY <2>3, <2>10, <2>12 DEF QueueTold
  <2> QED
    BY <2>3, <2>13, <2>14 DEF a, p, n
<1> QED
  BY <1>9, <1>10

\* The oldest span is taken with its frames and the untimed ones before them.
LEMMA TailTold ==
  ASSUME NEW X, NEW q \in Seq(X), NEW u \in Nat, NEW spans \in Seq(SpanRecords),
         QueueTold(q, u, spans), spans # <<>>
  PROVE  LET lost == u + Head(spans).samples
         IN  /\ lost \in 0 .. Len(q) /\ Tail(spans) \in Seq(SpanRecords)
             /\ QueueTold(DropFirst(q, lost), 0, Tail(spans))
             /\ Tail(spans) # <<>> => Tail(spans)[Len(Tail(spans))] = spans[Len(spans)]
<1> DEFINE T(i) == Ends(spans)[i]
           size(i) == spans[i].samples
           L == Len(spans)
           N == Len(q)
           t == Tail(spans)
           h == size(1)
           lost == u + h
           r == DropFirst(q, lost)
<1>1. L \in Nat \ {0} /\ N \in Nat /\ 1 \in 1 .. L
  OBVIOUS
<1>2. /\ T(0) = 0
      /\ \A i \in 0 .. L : T(i) \in Nat
      /\ \A i \in 1 .. L : T(i) = T(i - 1) + size(i) /\ size(i) \in Nat \ {0}
      /\ \A i \in 0 .. L, j \in 0 .. L : i <= j => T(i) <= T(j)
  BY EndsGrow
<1>3. u + T(L) = N
  BY DEF QueueTold
<1>4. \A i \in 1 .. L : SpanTold(q, u + T(i - 1), spans[i])
  BY DEF QueueTold
<1>5. /\ t \in Seq(SpanRecords) /\ Len(t) = L - 1 /\ Head(spans) = spans[1]
      /\ \A i \in 1 .. L - 1 : t[i] = spans[i + 1]
  BY <1>1
<1> HIDE DEF T, size, L, N, t, h
<1>6. h \in Nat /\ h = T(1) /\ Head(spans).samples = h
  <2>1. size(1) \in Nat /\ T(1) = T(1 - 1) + size(1)
    BY <1>1, <1>2
  <2>2. T(1) = size(1)
    BY <1>2, <2>1
  <2>3. Head(spans).samples = size(1)
    BY <1>5, Zenon DEF size
  <2> QED
    BY <2>1, <2>2, <2>3 DEF h
<1>7. T(L) \in Nat /\ h <= T(L)
  <2>1. 1 \in 0 .. L /\ L \in 0 .. L /\ 1 <= L
    BY <1>1
  <2> QED
    BY <1>2, <1>6, <2>1
<1>8. lost \in 0 .. N
  BY <1>1, <1>3, <1>6, <1>7
<1>9. /\ r \in Seq(X) /\ Len(r) = N - lost
      /\ \A i \in 1 .. N - lost : r[i] = q[i + lost]
  BY <1>8, DroppedFirst DEF N
<1> HIDE DEF r, lost
<1> DEFINE w(i) == T(i + 1) - h
           W == [i \in 0 .. L - 1 |-> w(i)]
<1>10. w(0) = 0
  BY <1>6
<1>11. \A i \in 1 .. L - 1 : w(i) = w(i - 1) + size(i + 1)
  <2> TAKE i \in 1 .. L - 1
  <2>1. i \in 0 .. L /\ i + 1 \in 1 .. L /\ (i + 1) - 1 = i /\ (i - 1) + 1 = i
    BY <1>1
  <2> DEFINE a == T(i)
             b == T(i + 1)
             m == size(i + 1)
  <2>2. b = a + m /\ a \in Nat /\ m \in Nat /\ w(i) = b - h /\ w(i - 1) = a - h
    BY <1>2, <2>1
  <2> HIDE DEF a, b, m, w
  <2>3. w(i) = w(i - 1) + m
    BY <1>6, <2>2
  <2> QED
    BY <2>3 DEF m
<1> HIDE DEF w
<1> DEFINE tsize(i) == t[i].samples
<1>18. \A i \in 1 .. L - 1 : tsize(i) = size(i + 1)
  BY <1>5, Zenon DEF size
<1> HIDE DEF tsize
<1>12. W[0] = 0 /\ \A i \in 1 .. Len(t) : W[i] = W[i - 1] + t[i].samples
  BY <1>1, <1>5, <1>10, <1>11, <1>18 DEF tsize
<1>13. \A i \in 0 .. L - 1 : Ends(t)[i] = w(i)
  <2>1. \A i \in 0 .. Len(t) : Ends(t)[i] = W[i]
    <3> HIDE DEF W
    <3> QED
      BY <1>5, <1>12, EndsAre
  <2> QED
    BY <1>5, <2>1
<1>14. 0 + Ends(t)[Len(t)] = Len(r)
  <2>1. Ends(t)[Len(t)] = w(L - 1) /\ w(L - 1) = T(L) - h
    BY <1>1, <1>5, <1>13 DEF w
  <2> DEFINE total == w(L - 1)
             all == T(L)
  <2>2. total = all - h /\ u + all = N /\ all \in Nat /\ lost = u + h
    BY <1>3, <1>7, <2>1 DEF lost
  <2> HIDE DEF total, all
  <2>3. total = N - lost /\ total \in Int
    BY <1>6, <2>2
  <2> QED
    BY <1>9, <2>1, <2>3 DEF total
<1>15. ASSUME NEW i \in 1 .. L - 1
       PROVE  SpanTold(r, 0 + Ends(t)[i - 1], t[i])
  <2> DEFINE before == T(i)
             all == T(L)
             after == T(i + 1)
             m == size(i + 1)
             o == w(i - 1)
  <2>1. /\ i \in 0 .. L /\ i + 1 \in 1 .. L /\ (i + 1) - 1 = i /\ i - 1 \in 0 .. L - 1
        /\ i + 1 \in 0 .. L /\ L \in 0 .. L /\ i + 1 <= L /\ 1 <= i /\ 1 \in 0 .. L
        /\ (i - 1) + 1 = i
    BY <1>1
  <2>2. before \in Nat /\ after = before + m /\ m \in Nat /\ after <= all /\ h <= before
    BY <1>2, <1>6, <2>1
  <2>3. o = before - h /\ u + all = N /\ all \in Nat /\ lost = u + h
    BY <1>3, <1>7, <2>1 DEF w, lost
  <2>4. SpanTold(q, u + before, spans[i + 1])
    BY <1>4, <2>1
  <2>5. Ends(t)[i - 1] = o /\ t[i] = spans[i + 1] /\ spans[i + 1].samples = m
    BY <1>5, <1>13, <2>1 DEF size
  <2> HIDE DEF before, all, after, m, o
  <2>8. h \in Nat
    BY <1>6
  <2>6. o \in Nat /\ o + lost = u + before /\ o + lost + m <= N
    BY <2>2, <2>3, <2>8
  <2>7. SpanTold(r, o, spans[i + 1])
    <3> SUFFICES ASSUME NEW k \in 1 .. m PROVE r[o + k] = q[u + before + k]
      BY <2>4, <2>5 DEF SpanTold
    <3>1. o + k \in 1 .. N - lost /\ o + k + lost = u + before + k
      BY <1>1, <1>8, <2>2, <2>6
    <3>2. r[o + k] = q[o + k + lost]
      BY <1>9, <3>1
    <3> QED
      BY <3>1, <3>2
  <2> QED
    BY <2>5, <2>6, <2>7
<1>16. QueueTold(r, 0, t)
  BY <1>5, <1>14, <1>15 DEF QueueTold
<1>17. ASSUME t # <<>> PROVE t[Len(t)] = spans[L]
  <2>1. L - 1 \in 1 .. L - 1 /\ (L - 1) + 1 = L
    BY <1>1, <1>5, <1>17
  <2> QED
    BY <1>5, <2>1
<1> QED
  BY <1>5, <1>6, <1>8, <1>16, <1>17 DEF t, r, lost, N, L

\* A later end of the last span changes nothing else.
LEMMA EndTold ==
  ASSUME NEW X, NEW q \in Seq(X), NEW u \in Nat, NEW spans \in Seq(SpanRecords),
         QueueTold(q, u, spans), spans # <<>>, NEW end \in Nat
  PROVE  LET L == Len(spans)
             s == [spans EXCEPT ![L].end = end]
         IN  /\ s \in Seq(SpanRecords) /\ Len(s) = L /\ s[L].end = end
             /\ s[L].start = spans[L].start /\ s[L].firstFrame = spans[L].firstFrame
             /\ s[L].samples = spans[L].samples
             /\ QueueTold(q, u, s)
<1> DEFINE L == Len(spans)
           last == spans[L]
           x == [last EXCEPT !.end = end]
           s == [spans EXCEPT ![L].end = end]
<1>1. L \in 1 .. L
  OBVIOUS
<1>2. last \in SpanRecords
  BY SpanFields
<1>3. s = [spans EXCEPT ![L] = x]
  OBVIOUS
<1> HIDE DEF last
<1>4. /\ x \in SpanRecords /\ x.end = end /\ x.start = last.start
      /\ x.firstFrame = last.firstFrame /\ x.samples = last.samples
  BY <1>2 DEF SpanRecords
<1> HIDE DEF x, s
<1>5. /\ s \in Seq(SpanRecords) /\ Len(s) = L /\ s[L] = x
      /\ \A i \in 1 .. L : i # L => s[i] = spans[i]
  BY <1>1, <1>3, <1>4
<1>6. \A i \in 1 .. L : /\ s[i].start = spans[i].start
                        /\ s[i].firstFrame = spans[i].firstFrame /\ s[i].samples = spans[i].samples
  BY <1>4, <1>5 DEF last
<1>7. \A i \in 0 .. L : Ends(s)[i] = Ends(spans)[i]
  <2> DEFINE T == Ends(spans)
  <2>1. T[0] = 0 /\ \A i \in 1 .. Len(s) : T[i] = T[i - 1] + s[i].samples
    BY <1>5, <1>6, EndsSum
  <2> HIDE DEF T
  <2>2. \A i \in 0 .. Len(s) : Ends(s)[i] = T[i]
    BY <1>5, <2>1, EndsAre
  <2> QED
    BY <1>5, <2>2 DEF T
<1>8. u + Ends(s)[Len(s)] = Len(q)
  BY <1>1, <1>5, <1>7 DEF QueueTold
<1>9. \A i \in 1 .. L : SpanTold(q, u + Ends(s)[i - 1], s[i])
  <2> TAKE i \in 1 .. L
  <2>1. i - 1 \in 0 .. L
    BY <1>1
  <2>2. SpanTold(q, u + Ends(spans)[i - 1], spans[i]) /\ Ends(s)[i - 1] = Ends(spans)[i - 1]
    BY <1>7, <2>1 DEF QueueTold
  <2> QED
    BY <1>6, <2>2 DEF SpanTold
<1>10. QueueTold(q, u, s)
  BY <1>5, <1>8, <1>9 DEF QueueTold
<1> QED
  BY <1>4, <1>5, <1>10 DEF s, last

\* A block that was mixed is queued, whatever the queue loses for it.
LEMMA QueuedBlock ==
  ASSUME QueueInv, NEW mixed \in Seq(Int), mixed # <<>>, Len(mixed) <= Retention,
         NEW first \in Nat, NEW end \in Nat, now <= end, now' = end,
         outputRemainder' \in 0 .. FrameTicks - 1,
         \A k \in 1 .. Len(mixed) :
           mixed[k] = now - outputRemainder + (first + k - 1) * FrameTicks,
         end - outputRemainder' = now - outputRemainder + (first + Len(mixed)) * FrameTicks,
         QueueOutput(mixed, now, end, first)
  PROVE  QueueInv'
<1> DEFINE X == Int \cup {Unknown}
           q == queuedPCM16
           n == Len(mixed)
           N == Len(q)
           S == queuedAudioSpans
           overflow == N + n - Retention
           lost == IF n >= Retention THEN N ELSE IF overflow > 0 THEN overflow ELSE 0
           untimedLost == Least(lost, untimedSamples)
           t == TrimAudioSpans(S, lost - untimedLost)
           rest == DropFirst(q, lost)
<1>1. /\ now \in Nat /\ untimedSamples \in Nat /\ outputRemainder \in 0 .. FrameTicks - 1
      /\ q \in Seq(X) /\ S \in Seq(SpanRecords) /\ QueueTold(q, untimedSamples, S)
      /\ N <= Retention /\ LastContinues(S, now, outputRemainder)
  BY DEF QueueInv
<1>2. N \in Nat /\ n \in Nat \ {0} /\ Retention \in Nat \ {0} /\ n <= Retention
  BY <1>1, MediaOutputAssumption
<1> HIDE DEF N, n
<1>3. lost \in 0 .. N /\ N - lost + n <= Retention
  BY <1>1, <1>2
<1> HIDE DEF lost, X
<1>4. /\ queuedPCM16' = rest \o mixed
      /\ untimedSamples' = untimedSamples - untimedLost
      /\ queuedAudioSpans' = AddSpan(t, now, end, first, n)
  BY DEF QueueOutput, lost, n, N
<1>5. /\ untimedLost \in 0 .. untimedSamples /\ t \in Seq(SpanRecords)
      /\ QueueTold(rest, untimedSamples - untimedLost, t)
      /\ t # <<>> =>
           /\ S # <<>>
           /\ t[Len(t)].start = S[Len(S)].start /\ t[Len(t)].end = S[Len(S)].end
           /\ t[Len(t)].firstFrame + t[Len(t)].samples = S[Len(S)].firstFrame + S[Len(S)].samples
  <2> DEFINE u == untimedSamples
  <2>1. lost \in 0 .. Len(q)
    BY <1>3 DEF N
  <2>2. q \in Seq(X)
    BY <1>1
  <2>3. u \in Nat
    BY <1>1
  <2>4. S \in Seq(SpanRecords)
    BY <1>1
  <2>5. QueueTold(q, u, S)
    BY <1>1
  <2> HIDE DEF q, S, u
  <2>6. /\ Least(lost, u) \in 0 .. u /\ TrimAudioSpans(S, lost - Least(lost, u)) \in Seq(SpanRecords)
        /\ QueueTold(DropFirst(q, lost), u - Least(lost, u), TrimAudioSpans(S, lost - Least(lost, u)))
        /\ LET t1 == TrimAudioSpans(S, lost - Least(lost, u))
               last == S[Len(S)]
           IN  t1 # <<>> =>
                 /\ S # <<>>
                 /\ t1[Len(t1)].start = last.start /\ t1[Len(t1)].end = last.end
                 /\ t1[Len(t1)].firstFrame + t1[Len(t1)].samples = last.firstFrame + last.samples
    BY <2>1, <2>2, <2>3, <2>4, <2>5, TrimTold
  <2> QED
    BY <2>6 DEF u
<1>6. rest \in Seq(X) /\ Len(rest) = N - lost
  <2>1. lost \in 0 .. Len(q) /\ N = Len(q)
    BY <1>3 DEF N
  <2> HIDE DEF q
  <2> QED
    BY <1>1, <2>1, DroppedFirst
<1> HIDE DEF t, rest, untimedLost
<1>7. LastContinues(t, now, outputRemainder)
  BY <1>1, <1>5 DEF LastContinues
<1>8. Int \subseteq X
  BY DEF X
<1> DEFINE u == untimedSamples - untimedLost
<1>9. u \in Nat
  BY <1>1, <1>5
<1> DEFINE added == AddSpan(t, now, end, first, n)
<1>10. /\ added \in Seq(SpanRecords) /\ QueueTold(rest \o mixed, u, added)
       /\ LastContinues(added, end, outputRemainder')
  <2>1. QueueTold(rest, u, t)
    BY <1>5
  <2> DEFINE left == outputRemainder'
             r == outputRemainder
  <2>2. rest \in Seq(X)
    BY <1>6
  <2>3. t \in Seq(SpanRecords)
    BY <1>5
  <2>4. now \in Nat /\ r \in 0 .. FrameTicks - 1 /\ left \in 0 .. FrameTicks - 1 /\ u \in Nat
    BY <1>1, <1>9
  <2>5. LastContinues(t, now, r)
    BY <1>7
  <2>6. \A k \in 1 .. Len(mixed) : mixed[k] = now - r + (first + k - 1) * FrameTicks
    OBVIOUS
  <2>7. end - left = now - r + (first + Len(mixed)) * FrameTicks
    OBVIOUS
  <2> HIDE DEF u, left, r
  <2>8. LET a == AddSpan(t, now, end, first, Len(mixed))
        IN  /\ a \in Seq(SpanRecords) /\ QueueTold(rest \o mixed, u, a)
            /\ LastContinues(a, end, left)
    BY <2>1, <2>2, <2>3, <2>4, <2>5, <2>6, <2>7, AddTold
  <2> QED
    BY <2>8 DEF n, left
<1>11. rest \o mixed \in Seq(X) /\ Len(rest \o mixed) = N - lost + n
  <2>1. mixed \in Seq(X)
    BY <1>8
  <2>2. rest \o mixed \in Seq(X) /\ Len(rest \o mixed) = Len(rest) + Len(mixed)
    <3>1. \A a \in Seq(X), b \in Seq(X) : a \o b \in Seq(X) /\ Len(a \o b) = Len(a) + Len(b)
      OBVIOUS
    <3>2. rest \in Seq(X)
      BY <1>6
    <3> QED
      BY <2>1, <3>1, <3>2, Zenon
  <2> QED
    BY <1>6, <2>2 DEF n
<1>12. Len(rest \o mixed) <= Retention
  BY <1>3, <1>11
<1> HIDE DEF added, u
<1>13. /\ queuedPCM16' = rest \o mixed /\ untimedSamples' = u /\ queuedAudioSpans' = added
  BY <1>4 DEF added, u
<1> QED
  BY <1>9, <1>10, <1>11, <1>12, <1>13 DEF QueueInv, X

\* An advance queues what it mixed; one of less than a frame moves the last end along.
LEMMA AdvanceQueueKeeps ==
  ASSUME QueueInv, NEW delta \in Deltas, NEW active \in BOOLEAN, NEW audible \in BOOLEAN,
         Advance(delta, active, audible)
  PROVE  QueueInv'
<1> DEFINE F == FrameTicks
           R == Retention
           ticks == outputRemainder + delta
           whole == ticks \div F
           part == ticks % F
           frameCount == IF active THEN ticks \div F ELSE 0
           first == IF audible /\ frameCount > R THEN frameCount - R ELSE 0
           n == IF audible THEN frameCount - first ELSE 0
           mixed == [k \in 1 .. n |-> now - outputRemainder + (first + k - 1) * F]
           S == queuedAudioSpans
           L == Len(S)
           end == now + delta
           product == F * whole
<1>1. /\ F \in Nat \ {0} /\ R \in Nat \ {0} /\ delta \in Nat \ {0}
      /\ now \in Nat /\ outputRemainder \in 0 .. F - 1
  BY MediaOutputAssumption DEF QueueInv
<1>2. /\ audible => active
      /\ now' = end
      /\ outputRemainder' = IF active THEN part ELSE 0
      /\ \/ mixed # <<>> /\ QueueOutput(mixed, now, end, first)
         \/ /\ mixed = <<>>
            /\ queuedAudioSpans' = IF audible /\ L # 0 /\ S[L].end = now
                                   THEN [S EXCEPT ![L].end = end] ELSE S
            /\ queuedPCM16' = queuedPCM16 /\ untimedSamples' = untimedSamples
  BY DEF Advance
<1>15. ticks \in Nat
  BY <1>1
<1>3. whole \in Nat /\ part \in 0 .. F - 1 /\ ticks = product + part
  <2> HIDE DEF ticks
  <2> QED
    BY <1>1, <1>15, DivisionFacts
<1>4. product \in Nat /\ product = whole * F
  BY <1>1, <1>3
<1>5. end \in Nat /\ now < end
  BY <1>1
<1>6. outputRemainder' \in 0 .. F - 1
  <2>1. outputRemainder' = IF active THEN part ELSE 0
    BY <1>2
  <2> HIDE DEF part
  <2> QED
    BY <1>1, <1>3, <2>1
<1>7. active => end - outputRemainder' = now - outputRemainder + product
  <2>1. ticks = outputRemainder + delta /\ end = now + delta
    OBVIOUS
  <2>2. active => outputRemainder' = part
    BY <1>2
  <2>3. part \in Nat /\ ticks = product + part /\ product \in Nat
    BY <1>3, <1>4
  <2> HIDE DEF ticks, product, part, end
  <2> QED
    BY <1>1, <2>1, <2>2, <2>3
<1>8. frameCount = IF active THEN whole ELSE 0
  OBVIOUS
<1> HIDE DEF ticks, whole, part, product
<1>9. frameCount \in Nat /\ first \in Nat /\ first <= frameCount /\ n \in Nat /\ n <= R
  <2>1. frameCount \in Nat
    BY <1>3, <1>8
  <2> HIDE DEF frameCount
  <2> QED
    BY <1>1, <2>1
<1>10. n # 0 => audible /\ active /\ first + n = whole
  <2>1. frameCount \in Nat
    BY <1>3, <1>8
  <2>2. audible => active
    BY <1>2
  <2>3. active => frameCount = whole
    BY <1>8
  <2> HIDE DEF frameCount
  <2> QED
    BY <1>1, <2>1, <2>2, <2>3
<1>11. n = 0 /\ audible => whole = 0 /\ active
  <2>1. frameCount \in Nat
    BY <1>3, <1>8
  <2>2. audible => active
    BY <1>2
  <2>3. active => frameCount = whole
    BY <1>8
  <2> HIDE DEF frameCount
  <2> QED
    BY <1>1, <2>1, <2>2, <2>3
<1> HIDE DEF frameCount, first, n
<1>12. /\ mixed \in Seq(Int) /\ Len(mixed) = n
       /\ \A k \in 1 .. n : mixed[k] = now - outputRemainder + (first + k - 1) * F
  <2>1. \A k \in 1 .. n : now - outputRemainder + (first + k - 1) * F \in Int
    BY <1>1, <1>9
  <2> QED
    BY <1>9, <2>1
<1> HIDE DEF mixed
<1>13. CASE mixed # <<>>
  <2>1. n # 0
    BY <1>9, <1>12, <1>13
  <2>2. end - outputRemainder' = now - outputRemainder + (first + Len(mixed)) * F
    BY <1>4, <1>7, <1>10, <1>12, <2>1
  <2>3. QueueOutput(mixed, now, end, first)
    BY <1>2, <1>13
  <2>4. Len(mixed) <= Retention /\ now <= end /\ now' = end
    BY <1>1, <1>2, <1>5, <1>9, <1>12
  <2> HIDE DEF end
  <2> QED
    BY <1>5, <1>6, <1>9, <1>12, <1>13, <2>2, <2>3, <2>4, QueuedBlock
<1>14. CASE mixed = <<>>
  <2>1. n = 0 /\ queuedPCM16' = queuedPCM16 /\ untimedSamples' = untimedSamples
    BY <1>2, <1>9, <1>12, <1>14
  <2>2. /\ queuedPCM16 \in Seq(Int \cup {Unknown}) /\ S \in Seq(SpanRecords)
        /\ untimedSamples \in Nat /\ QueueTold(queuedPCM16, untimedSamples, S)
        /\ Len(queuedPCM16) <= Retention
        /\ LastContinues(S, now, outputRemainder)
    BY DEF QueueInv
  <2>3. CASE audible /\ L # 0 /\ S[L].end = now
    <3> DEFINE s == [S EXCEPT ![L].end = end]
    <3>1. queuedAudioSpans' = s /\ S # <<>>
      BY <1>2, <1>14, <2>2, <2>3
    <3>2. /\ s \in Seq(SpanRecords) /\ Len(s) = L /\ s[L].end = end
          /\ s[L].start = S[L].start /\ s[L].firstFrame = S[L].firstFrame
          /\ s[L].samples = S[L].samples
          /\ QueueTold(queuedPCM16, untimedSamples, s)
      BY <1>5, <2>2, <3>1, EndTold
    <3>3. end - outputRemainder' = now - outputRemainder
      <4>1. product = 0
        BY <1>1, <1>4, <1>11, <2>1, <2>3
      <4> QED
        BY <1>1, <1>7, <1>11, <2>1, <2>3, <4>1
    <3> HIDE DEF s
    <3>4. LastContinues(s, end, outputRemainder')
      <4>1. Near(now - outputRemainder, S[L].start + (S[L].firstFrame + S[L].samples) * F)
        BY <2>2, <2>3, <3>1 DEF LastContinues
      <4> QED
        BY <1>5, <3>2, <3>3, <4>1 DEF LastContinues
    <3> QED
      BY <1>2, <1>5, <1>6, <2>1, <2>2, <3>1, <3>2, <3>4 DEF QueueInv
  <2>4. CASE ~(audible /\ L # 0 /\ S[L].end = now)
    <3>1. queuedAudioSpans' = S
      BY <1>2, <1>14, <2>4
    <3>2. LastContinues(S, end, outputRemainder')
      <4> SUFFICES ASSUME S # <<>> PROVE S[L].end <= end /\ S[L].end # end
        BY DEF LastContinues
      <4>1. S[L].end \in Nat /\ S[L].end <= now
        <5>1. L \in 1 .. L
          BY <2>2
        <5> QED
          BY <2>2, <5>1, SpanFields DEF LastContinues
      <4> QED
        BY <1>1, <1>5, <4>1
    <3> QED
      BY <1>2, <1>5, <1>6, <2>1, <2>2, <3>1, <3>2 DEF QueueInv
  <2> QED
    BY <2>3, <2>4
<1> QED
  BY <1>13, <1>14

\* Nothing queued tells nothing wrong.
LEMMA EmptyQueue ==
  ASSUME NEW u \in Nat, NEW q, Len(q) = u
  PROVE  QueueTold(q, u, <<>>) /\ \A t, r : LastContinues(<<>>, t, r)
<1>1. Ends(<<>>)[0] = 0 /\ Len(<<>>) = 0
  <2>1. <<>> \in Seq(SpanRecords) /\ Len(<<>>) = 0
    OBVIOUS
  <2> QED
    BY <2>1, EndsSum
<1> QED
  BY <1>1 DEF QueueTold, LastContinues

LEMMA QueueInvariant == Spec => []QueueInv
<1>1. Init => QueueInv
  <2> SUFFICES ASSUME Init PROVE QueueInv
    OBVIOUS
  <2>1. QueueTold(<<>>, 0, <<>>) /\ LastContinues(<<>>, 0, 0)
    BY EmptyQueue
  <2> QED
    BY <2>1, MediaOutputAssumption DEF Init, QueueInv
<1>2. QueueInv /\ [Next]_vars => QueueInv'
  <2> SUFFICES ASSUME QueueInv, [Next]_vars PROVE QueueInv'
    OBVIOUS
  <2>1. ASSUME NEW delta \in Deltas, NEW active \in BOOLEAN, NEW audible \in BOOLEAN,
               Advance(delta, active, audible)
        PROVE  QueueInv'
    BY <2>1, AdvanceQueueKeeps
  <2>2. CASE InvalidateOutput \/ Drain
    <3>1. /\ queuedPCM16' = <<>> /\ queuedAudioSpans' = <<>> /\ untimedSamples' = 0 /\ now' = now
          /\ outputRemainder' \in {0, outputRemainder}
      BY <2>2 DEF InvalidateOutput, Drain
    <3>2. QueueTold(<<>>, 0, <<>>) /\ LastContinues(<<>>, now', outputRemainder')
      BY EmptyQueue
    <3> QED
      BY <3>1, <3>2, MediaOutputAssumption DEF QueueInv
  <2>3. CASE DrainTimed
    <3> DEFINE X == Int \cup {Unknown}
    <3>1. /\ queuedPCM16 \in Seq(X) /\ queuedAudioSpans \in Seq(SpanRecords)
          /\ untimedSamples \in Nat
          /\ QueueTold(queuedPCM16, untimedSamples, queuedAudioSpans)
          /\ Len(queuedPCM16) <= Retention
          /\ LastContinues(queuedAudioSpans, now, outputRemainder)
      BY DEF QueueInv
    <3>2. untimedSamples' = 0 /\ now' = now /\ outputRemainder' = outputRemainder
      BY <2>3 DEF DrainTimed
    <3> HIDE DEF X
    <3>3. CASE queuedAudioSpans = <<>>
      <4>1. queuedPCM16' = DropFirst(queuedPCM16, untimedSamples) /\ queuedAudioSpans' = <<>>
        BY <2>3, <3>3 DEF DrainTimed
      <4>2. Len(queuedPCM16) = untimedSamples
        <5>1. Ends(<<>>)[0] = 0 /\ Len(<<>>) = 0
          <6>1. <<>> \in Seq(SpanRecords) /\ Len(<<>>) = 0
            OBVIOUS
          <6> QED
            BY <6>1, EndsSum
        <5> QED
          BY <3>1, <3>3, <5>1 DEF QueueTold
      <4>3. queuedPCM16' \in Seq(X) /\ Len(queuedPCM16') = 0
        <5>1. untimedSamples \in 0 .. Len(queuedPCM16)
          BY <3>1, <4>2
        <5> QED
          BY <3>1, <4>1, <4>2, <5>1, DroppedFirst
      <4>4. QueueTold(queuedPCM16', 0, <<>>) /\ LastContinues(<<>>, now, outputRemainder)
        BY <4>3, EmptyQueue
      <4> QED
        BY <3>1, <3>2, <4>1, <4>3, <4>4, MediaOutputAssumption DEF QueueInv, X
    <3>4. CASE queuedAudioSpans # <<>>
      <4> DEFINE lost == untimedSamples + Head(queuedAudioSpans).samples
                 t == Tail(queuedAudioSpans)
      <4>1. queuedPCM16' = DropFirst(queuedPCM16, lost) /\ queuedAudioSpans' = t
        BY <2>3, <3>4 DEF DrainTimed
      <4>2. /\ lost \in 0 .. Len(queuedPCM16) /\ t \in Seq(SpanRecords)
            /\ QueueTold(DropFirst(queuedPCM16, lost), 0, t)
            /\ t # <<>> => t[Len(t)] = queuedAudioSpans[Len(queuedAudioSpans)]
        BY <3>1, <3>4, TailTold
      <4> HIDE DEF lost, t
      <4>3. queuedPCM16' \in Seq(X) /\ Len(queuedPCM16') = Len(queuedPCM16) - lost
        BY <3>1, <4>1, <4>2, DroppedFirst
      <4>4. Len(queuedPCM16') <= Retention
        BY <3>1, <4>2, <4>3, MediaOutputAssumption
      <4>5. LastContinues(t, now, outputRemainder)
        BY <3>1, <3>4, <4>2 DEF LastContinues
      <4> QED
        BY <3>1, <3>2, <4>1, <4>2, <4>3, <4>4, <4>5 DEF QueueInv, X
    <3> QED
      BY <3>3, <3>4
  <2>4. CASE SaveAndLoad
    <3> DEFINE q == [i \in 1 .. Len(queuedPCM16) |-> Unknown]
    <3>1. /\ queuedPCM16' = q /\ queuedAudioSpans' = <<>> /\ untimedSamples' = Len(queuedPCM16)
          /\ now' = now /\ outputRemainder' = outputRemainder
      BY <2>4 DEF SaveAndLoad
    <3>2. Len(queuedPCM16) \in Nat /\ Len(queuedPCM16) <= Retention
      BY DEF QueueInv
    <3>3. q \in Seq(Int \cup {Unknown}) /\ Len(q) = Len(queuedPCM16)
      BY <3>2
    <3> HIDE DEF q
    <3>4. QueueTold(q, Len(queuedPCM16), <<>>) /\ LastContinues(<<>>, now, outputRemainder)
      BY <3>2, <3>3, EmptyQueue
    <3> QED
      BY <3>1, <3>2, <3>3, <3>4 DEF QueueInv
  <2>5. CASE UNCHANGED vars
    BY <2>5 DEF vars, QueueInv
  <2> QED
    BY <2>1, <2>2, <2>3, <2>4, <2>5 DEF Next
<1> QED
  BY <1>1, <1>2, PTL DEF Spec

\* A machine's queue moves as any media queue, or is empty when its services changed.
LEMMA MachineQueueInvariant == PresentationSpec => []QueueInv
<1>1. PresentationInit => QueueInv
  <2> SUFFICES ASSUME PresentationInit PROVE QueueInv
    OBVIOUS
  <2>1. QueueTold(<<>>, 0, <<>>) /\ LastContinues(<<>>, 0, 0)
    BY EmptyQueue
  <2> QED
    BY <2>1, MediaOutputAssumption DEF PresentationInit, Init, QueueInv
<1>2. QueueInv /\ PresentationInv' /\ [PresentationNext]_presentationVars => QueueInv'
  <2> SUFFICES ASSUME QueueInv, PresentationInv', [PresentationNext]_presentationVars
      PROVE  QueueInv'
    OBVIOUS
  <2>1. ASSUME NEW delta \in Deltas, NEW active \in BOOLEAN, NEW audible \in BOOLEAN,
               AdvanceServices(delta, active, audible)
        PROVE  QueueInv'
    BY <2>1, AdvanceQueueKeeps DEF AdvanceServices
  <2>2. CASE UNCHANGED vars
    BY <2>2 DEF vars, QueueInv
  <2>3. CASE queuedPCM16' = <<>> /\ queuedAudioSpans' = <<>> /\ untimedSamples' = 0
    <3>1. now' \in Nat /\ outputRemainder' \in 0 .. FrameTicks - 1
      BY DEF PresentationInv, TypesOK
    <3>2. QueueTold(<<>>, 0, <<>>) /\ LastContinues(<<>>, now', outputRemainder')
      BY EmptyQueue
    <3> QED
      BY <2>3, <3>1, <3>2, MediaOutputAssumption DEF QueueInv
  <2>4. CASE PublishAudioFromMedia \/ GuestInvalidates
    BY <2>3, <2>4 DEF PublishAudioFromMedia, GuestInvalidates, Drain, InvalidateOutput
  <2>5. CASE \/ PauseOrStop \/ SetAudioMixMode \/ SaveMedia \/ BeginLoad
             \/ DrainChunk \/ DrainMarker
    BY <2>2, <2>5 DEF PauseOrStop, SetAudioMixMode, GenerationFromNow, SaveMedia, BeginLoad,
                      DrainChunk, DrainMarker
  <2>6. ASSUME NEW succeeds \in BOOLEAN, ResetMachine(succeeds)
        PROVE  QueueInv'
    BY <2>2, <2>3, <2>6 DEF ResetMachine, ReplaceServices
  <2>7. CASE EndLoad
    BY <2>3, <2>7 DEF EndLoad, ReplaceServices
  <2>8. ASSUME NEW replaced \in BOOLEAN, FailLoad(replaced)
        PROVE  QueueInv'
    BY <2>2, <2>3, <2>8 DEF FailLoad, ReplaceServices
  <2>9. CASE UNCHANGED presentationVars
    BY <2>2, <2>9 DEF presentationVars
  <2> QED
    BY <2>1, <2>4, <2>5, <2>6, <2>7, <2>8, <2>9 DEF PresentationNext
<1> QED
  BY <1>1, <1>2, PresentationInvariant, PTL DEF PresentationSpec

\* Every queued frame is untimed or of one span, and the time a span tells for a frame is
\* less than a frame from the one it was mixed for, however often a slow host loses
\* frames, blocks are merged and remainders carried: with any host, and for the queue of
\* a machine that publishes, is reset and loaded.
THEOREM SpansTellTheTime ==
  /\ Spec => []SpansTellTheFrames
  /\ PresentationSpec => []SpansTellTheFrames
<1>1. QueueInv => SpansTellTheFrames
  <2> SUFFICES ASSUME QueueInv PROVE SpansTellTheFrames
    OBVIOUS
  <2>1. /\ queuedAudioSpans \in Seq(SpanRecords)
        /\ QueueTold(queuedPCM16, untimedSamples, queuedAudioSpans)
        /\ Len(queuedPCM16) <= Retention
    BY DEF QueueInv
  <2>2. untimedSamples + Ends(queuedAudioSpans)[Len(queuedAudioSpans)] = Len(queuedPCM16)
    BY <2>1 DEF QueueTold
  <2>3. ASSUME NEW i \in DOMAIN queuedAudioSpans
        PROVE  /\ queuedAudioSpans[i].samples > 0
               /\ SpanTold(queuedPCM16, untimedSamples + Ends(queuedAudioSpans)[i - 1],
                           queuedAudioSpans[i])
    <3>1. i \in 1 .. Len(queuedAudioSpans)
      BY <2>1
    <3>2. queuedAudioSpans[i].samples \in Nat \ {0}
      BY <2>1, <3>1, SpanFields
    <3> QED
      BY <2>1, <3>1, <3>2 DEF QueueTold
  <2> QED
    BY <2>1, <2>2, <2>3, Zenon DEF SpansTellTheFrames, SpanTold, Near
<1> QED
  BY <1>1, QueueInvariant, MachineQueueInvariant, PTL
=============================================================================
