---------------------------- MODULE OpusRecorder ----------------------------
(***************************************************************************)
(* The native voice recorder of libopusdecoder: one global recorder behind *)
(* a mutex, so that each call is one step.  Samples are counted, not kept; *)
(* at 48 kHz, the one rate the app asks for, a granule position is a       *)
(* number of samples.  A file is the sequence of its Ogg pages.            *)
(***************************************************************************)
EXTENDS Integers, Sequences, FiniteSets, SequencesExt

CONSTANTS
  FrameSize,   \* samples of an Opus frame: 20 ms, 960 at 48 kHz
  Second,      \* samples of a second
  MaxSamples,  \* OPUS_MAX_RECORDING_SECONDS: 90 s
  Preskip      \* lookahead of the encoder, in samples

ASSUME RecorderAssumption ==
  /\ FrameSize \in Nat \ {0} /\ Second \in Nat \ {0}
  /\ MaxSamples \in Nat /\ Preskip \in Nat

VARIABLES
  rec,   \* g_voiceRecorderState
  disk   \* the pages of each file there is, by path

\* Path 0 is the empty outputPath.
Idle == [active |-> FALSE, path |-> 0, input |-> 0, recorded |-> 0, total |-> 0,
         granule |-> 0, pending |-> 0]

Page(granule, last) == [granule |-> granule, last |-> last]

\* BuildOpusHeaderPacket and BuildOpusCommentPacket, each flushed to a page of its own.
HeaderPages == <<Page(0, FALSE), Page(0, FALSE)>>

WithoutFile(d, path) == [p \in DOMAIN d \ {path} |-> d[p]]
WithFile(d, path, pages) ==
  [p \in DOMAIN d \cup {path} |-> IF p = path THEN pages ELSE d[p]]

\* CleanupRecorderState: everything is reset, and the file goes unless it is to be kept.
Cleanup(keepFile) ==
  /\ rec' = Idle
  /\ disk' = IF keepFile THEN disk ELSE WithoutFile(disk, rec.path)

\* StartVoiceRecord: a recording that was not stopped goes with its file; each of the steps
\* that follow may be refused, and then the new file goes too.
StartVoiceRecord(path, ok) ==
  /\ rec' = IF ok THEN [Idle EXCEPT !.active = TRUE, !.path = path] ELSE Idle
  /\ LET before == WithoutFile(disk, rec.path)
     IN disk' = IF ok THEN WithFile(before, path, HeaderPages) ELSE WithoutFile(before, path)

\* CommitPendingPacket: with OPUS_MAX_OGG_DELAY 0 and packets below two segments every packet
\* is flushed as a page of its own.
CommitPendingPacket(s, last) ==
  [s EXCEPT !.pages = IF s.rec.pending = 0 THEN @ ELSE Append(@, Page(s.rec.pending, last))]

\* EncodeFrame: the packet before is committed, this one waits: only Stop knows which is last.
EncodeFrame(s, samples) ==
  LET granule == s.rec.granule + FrameSize
  IN [CommitPendingPacket(s, FALSE) EXCEPT
        !.rec = [s.rec EXCEPT !.input = @ - samples, !.total = @ + samples,
                              !.granule = granule, !.pending = granule]]

\* AppendPcmSamples and the loop of WriteVoiceFrame over the n full frames there are, in closed
\* form: EncodeFrame n times commits every packet but the last, which waits.
Encoded(samples) ==
  LET input == rec.input + samples
      n == input \div FrameSize
      granule == rec.granule + n * FrameSize
      first == IF rec.pending = 0 THEN 1 ELSE 0
  IN [rec |-> [rec EXCEPT !.input = input - n * FrameSize, !.recorded = @ + samples,
                          !.total = @ + n * FrameSize, !.granule = granule,
                          !.pending = IF n = 0 THEN @ ELSE granule],
      pages |-> disk[rec.path] \o [i \in 1..(n - first) |->
                                   Page(rec.pending + (i - 1 + first) * FrameSize, FALSE)]]

\* Mutant: the limit is not looked at.
WriteRefusedInactive(samples) == ~rec.active

\* WriteVoiceFrame refuses without an active recording and beyond the limit, and changes
\* nothing then.
WriteRefused(samples) == ~rec.active \/ rec.recorded + samples > MaxSamples

\* WriteVoiceFrame otherwise: an encoder or a disk that fails ends the recording.
WriteVoiceFrame(samples, ok) ==
  IF WriteRefused(samples) THEN ~ok /\ UNCHANGED <<rec, disk>>
  ELSE IF ok
       THEN /\ rec' = Encoded(samples).rec
            /\ disk' = [disk EXCEPT ![rec.path] = Encoded(samples).pages]
       ELSE Cleanup(FALSE)

\* Mutant: what is left of a frame is not encoded.
DrainedFrames == [rec |-> rec, pages |-> disk[rec.path]]

\* What StopVoiceRecord has before the last packet: the rest, padded to a frame.
Drained ==
  LET s == [rec |-> rec, pages |-> disk[rec.path]]
  IN IF rec.input = 0 THEN s ELSE EncodeFrame(s, rec.input)

\* The last packet ends where the captured samples end, and ends the stream.
Finished ==
  CommitPendingPacket([Drained EXCEPT !.rec.pending = Drained.rec.total + Preskip], TRUE)

\* durationSec of the result, rounded to the nearest second.
DurationSec == (2 * Drained.rec.total + Second) \div (2 * Second)

\* StopVoiceRecord: the file is kept only if everything was written and there was audio.
StopVoiceRecord(ok) ==
  IF ~rec.active THEN ~ok /\ UNCHANGED <<rec, disk>>
  ELSE IF ok
       THEN rec.recorded > 0 /\ rec' = Idle /\ disk' = [disk EXCEPT ![rec.path] = Finished.pages]
       ELSE Cleanup(FALSE)
==============================================================================
