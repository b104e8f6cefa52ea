--------------------------- MODULE LiveTranscriber ---------------------------
(***************************************************************************)
(* From what is said in one recorded session to text: the bursts of audio  *)
(* of MinutasSessions.startBurst (src/capabilities/minutas/session.ts),    *)
(* the worker that sends them to whisper in batches while the meeting runs *)
(* (LiveTranscriber, live.ts), and the finalization that transcribes what  *)
(* it left, from the directory and the ledger on disk (pipeline.ts).       *)
(*                                                                         *)
(* A burst is a stretch of speech of one voice. How long it lasts is left  *)
(* out, but for the bursts too short to transcribe, which are not modelled:*)
(* the flush of a voice is due after FlushBursts of them or when its timer *)
(* fires. A plan of batches is any way to cut the bursts of one voice.     *)
(***************************************************************************)
EXTENDS Naturals, FiniteSets

CONSTANTS
  Bursts, Voices,
  Nobody,
  FlushBursts,  \* LIVE_FLUSH_MAX_BURSTS
  MaxFailures,  \* bound on batches that whisper fails
  MaxCuts       \* bound on restarts

ASSUME LiveAssumption == FlushBursts \in Nat \ {0} /\ Nobody \notin Voices

VARIABLES
  burst,     \* what has become of each burst
  voice,     \* whose it is
  live,      \* the worker, by voice: pending and expired; the rest of a flush, and
             \* the batch of it that is in whisper
  phase,     \* of the session
  available, \* the transcriber is installed
  remaining, \* the bursts finalize has still to transcribe
  batch,     \* the batch of finalize that is in whisper
  ledger,    \* transcripts-live.jsonl
  text,      \* bursts whose words are in a transcript
  waved,     \* bursts whose audio is in the WAV of some batch
  gone,      \* the directory was uploaded and removed
  known,     \* history: the bursts that were on disk when finalize last looked
  whispered, \* history: bursts sent to whisper, but for batches that failed
  doubled,   \* history: bursts sent again
  missing,   \* history: bursts finalize could not transcribe
  failures, cuts

liveVars == <<burst, voice, live, phase, available, remaining, batch, ledger, text, waved,
              gone, known, whispered, doubled, missing, failures, cuts>>
recording == <<burst, voice>>
transcripts == <<ledger, text, waved, whispered, doubled>>
finalizer == <<remaining, batch, known, missing>>
liveBounds == <<failures, cuts>>

Worker == [pending |-> {}, expired |-> FALSE, rest |-> {}, sent |-> {}]

LiveInit ==
  /\ burst = [b \in Bursts |-> "unused"] /\ voice = [b \in Bursts |-> Nobody]
  /\ live = [v \in Voices |-> Worker]
  /\ phase = "recording" /\ available \in BOOLEAN
  /\ remaining = {} /\ batch = {} /\ ledger = {} /\ text = {} /\ waved = {}
  /\ gone = FALSE /\ known = {} /\ whispered = {} /\ doubled = {} /\ missing = {}
  /\ failures = 0 /\ cuts = 0

OnDisk == {b \in Bursts : burst[b] = "recorded"}
InFlight(w) == w.rest \cup w.sent # {}
Due(w) == Cardinality(w.pending) >= FlushBursts \/ w.expired

\* A flush takes all that is pending of a voice, when it is due and none runs.
MaybeFlush(w) ==
  IF phase \in {"recording", "closing"} /\ w.pending # {} /\ Due(w) /\ ~InFlight(w)
  THEN [Worker EXCEPT !.rest = w.pending]
  ELSE w
Works(v, w) == live' = [live EXCEPT ![v] = w]

-----------------------------------------------------------------------------
(* Recording.                                                              *)

\* A voice has one burst open at a time.
Speak(b, v) ==
  /\ phase = "recording" /\ burst[b] = "unused"
  /\ \A c \in Bursts : ~(voice[c] = v /\ burst[c] = "open")
  /\ burst' = [burst EXCEPT ![b] = "open"] /\ voice' = [voice EXCEPT ![b] = v]
  /\ UNCHANGED <<live, phase, available, finalizer, transcripts, gone, liveBounds>>

\* After a silence, or as the connection closes; ffmpeg has still to finish.
Silence(b) ==
  /\ burst[b] = "open"
  /\ burst' = [burst EXCEPT ![b] = "flushing"]
  /\ UNCHANGED <<voice, live, phase, available, finalizer, transcripts, gone, liveBounds>>

\* The file is whole. The worker gets it while the meeting runs.
Enqueue(w, b) == MaybeFlush([w EXCEPT !.pending = @ \cup {b}])
BurstRecorded(b) ==
  LET v == voice[b] IN
  /\ burst[b] = "flushing"
  /\ burst' = [burst EXCEPT ![b] = "recorded"]
  /\ IF phase = "recording" /\ available
     THEN Works(v, Enqueue(live[v], b))
     ELSE UNCHANGED live
  /\ UNCHANGED <<voice, phase, available, finalizer, transcripts, gone, liveBounds>>

BurstLost(b) ==
  /\ burst[b] = "flushing"
  /\ burst' = [burst EXCEPT ![b] = "lost"]
  /\ UNCHANGED <<voice, live, phase, available, finalizer, transcripts, gone, liveBounds>>

-----------------------------------------------------------------------------
(* The worker.                                                             *)

TimerFires(v) ==
  /\ phase \in {"recording", "closing"}
  /\ live[v].pending # {} /\ ~live[v].expired
  /\ Works(v, MaybeFlush([live[v] EXCEPT !.expired = TRUE]))
  /\ UNCHANGED <<recording, phase, available, finalizer, transcripts, gone, liveBounds>>

\* A batch is joined into one WAV, and whisper is called.
ToWhisper(bursts) ==
  /\ waved' = waved \cup bursts
  /\ doubled' = doubled \cup (whispered \cap bursts)
  /\ whispered' = whispered \cup bursts

BatchStarts(v, bursts) ==
  /\ live[v].sent = {} /\ bursts # {} /\ bursts \subseteq live[v].rest
  /\ Works(v, [live[v] EXCEPT !.rest = @ \ bursts, !.sent = bursts])
  /\ ToWhisper(bursts)
  /\ UNCHANGED <<recording, phase, available, finalizer, ledger, text, gone, liveBounds>>

Appended(bursts) == ledger \cup bursts

\* Altered: what came while whisper was busy waits for the voice to speak again.
NoRecheck(w) == w
Recheck(w) == MaybeFlush(w)

BatchDone(v) ==
  LET w == [live[v] EXCEPT !.sent = {}] IN
  /\ live[v].sent # {}
  /\ Works(v, IF w.rest = {} THEN Recheck(w) ELSE w)
  /\ ledger' = Appended(live[v].sent) /\ text' = text \cup live[v].sent
  /\ UNCHANGED <<recording, phase, available, finalizer, waved, whispered,
                 doubled, gone, liveBounds>>

\* Not tried again here, nor are the batches after it.
BatchFails(v) ==
  /\ live[v].sent # {}
  /\ failures < MaxFailures /\ failures' = failures + 1
  /\ Works(v, Recheck([live[v] EXCEPT !.sent = {}, !.rest = {}]))
  /\ whispered' = whispered \ live[v].sent
  /\ UNCHANGED <<recording, phase, available, finalizer, ledger, text, waved,
                 doubled, gone, cuts>>

-----------------------------------------------------------------------------
(* Closing and finalizing.                                                 *)

MeetingEnds ==
  /\ phase = "recording" /\ phase' = "closing"
  /\ UNCHANGED <<recording, live, available, finalizer, transcripts, gone, liveBounds>>

\* The recorders have finished or not: the wait for them is bounded. From here no
\* flush starts.
DrainStarts ==
  /\ phase = "closing" /\ phase' = "draining"
  /\ UNCHANGED <<recording, live, available, finalizer, transcripts, gone, liveBounds>>

\* Altered: finalize does not wait for the batches that run.
QuietAtOnce == TRUE
NoneInFlight == \A v \in Voices : ~InFlight(live[v])

\* Finalize takes the bursts on disk that the ledger lacks; a file still being
\* written counts if it is long enough already.
DrainEnds ==
  /\ phase = "draining" /\ NoneInFlight
  /\ phase' = "finalizing"
  /\ live' = [v \in Voices |-> [live[v] EXCEPT !.pending = {}, !.expired = FALSE]]
  /\ known' = OnDisk
  /\ \E partial \in SUBSET {b \in Bursts : burst[b] \in {"open", "flushing"}} :
       LET found == (OnDisk \cup partial) \ ledger IN
       IF available THEN remaining' = found /\ missing' = {}
       ELSE remaining' = {} /\ missing' = found
  /\ UNCHANGED <<recording, available, batch, transcripts, gone, liveBounds>>

FinalBatch(bursts) ==
  /\ phase = "finalizing" /\ batch = {}
  /\ bursts # {} /\ bursts \subseteq remaining
  /\ Cardinality({voice[b] : b \in bursts}) = 1
  /\ batch' = bursts /\ remaining' = remaining \ bursts
  /\ ToWhisper(bursts)
  /\ UNCHANGED <<recording, live, phase, available, ledger, text, gone, known,
                 missing, liveBounds>>

FinalBatchDone ==
  /\ phase = "finalizing" /\ batch # {} /\ batch' = {}
  /\ ledger' = Appended(batch) /\ text' = text \cup batch
  /\ UNCHANGED <<recording, live, phase, available, remaining, waved, whispered,
                 doubled, gone, known, missing, liveBounds>>

FinalBatchFails ==
  /\ phase = "finalizing" /\ batch # {} /\ batch' = {}
  /\ failures < MaxFailures /\ failures' = failures + 1
  /\ missing' = missing \cup batch
  /\ whispered' = whispered \ batch
  /\ UNCHANGED <<recording, live, phase, available, remaining, ledger, text,
                 waved, doubled, gone, known, cuts>>

\* The minutes are written, and the directory, without the raw audio, is uploaded
\* and removed, or stays.
Finish ==
  /\ phase = "finalizing" /\ remaining = {} /\ batch = {}
  /\ phase' = "finished" /\ gone' \in BOOLEAN
  /\ UNCHANGED <<recording, live, available, finalizer, transcripts, liveBounds>>

\* The next process finalizes from the disk.
Cut ==
  /\ phase # "finished" /\ cuts < MaxCuts /\ cuts' = cuts + 1
  /\ burst' \in {f \in [Bursts -> {"unused", "recorded", "lost"}] :
       \A b \in Bursts : IF burst[b] \in {"open", "flushing"} THEN f[b] # "unused"
                         ELSE f[b] = burst[b]}
  /\ live' = [v \in Voices |-> Worker]
  /\ phase' = "draining" /\ remaining' = {} /\ batch' = {} /\ missing' = {} /\ known' = {}
  /\ whispered' = whispered \ (batch \cup UNION {live[v].sent : v \in Voices})
  /\ UNCHANGED <<voice, available, ledger, text, waved, doubled, gone, failures>>

LiveNext ==
  \/ \E b \in Bursts : (\E v \in Voices : Speak(b, v))
                       \/ Silence(b) \/ BurstRecorded(b) \/ BurstLost(b)
  \/ \E v \in Voices : TimerFires(v) \/ BatchDone(v) \/ BatchFails(v)
                       \/ \E bursts \in SUBSET live[v].rest : BatchStarts(v, bursts)
  \/ MeetingEnds \/ DrainStarts \/ DrainEnds \/ Finish \/ Cut
  \/ (\E bursts \in SUBSET remaining : FinalBatch(bursts)) \/ FinalBatchDone \/ FinalBatchFails

\* The timers of the worker fire, a batch that is due starts, and whisper answers
\* or fails.
LiveFairness ==
  \A v \in Voices :
    /\ WF_liveVars(TimerFires(v))
    /\ WF_liveVars(\E bursts \in SUBSET live[v].rest : BatchStarts(v, bursts))
    /\ WF_liveVars(BatchDone(v) \/ BatchFails(v))

LiveSpec == LiveInit /\ [][LiveNext]_liveVars /\ LiveFairness

-----------------------------------------------------------------------------
(* Properties.                                                             *)

\* No burst is in two batches, however the end of the meeting meets the batches
\* that run, unless its batch failed or was cut by a restart (within a batch, whisper
\* is asked once more when what it answered goes in circles: live.ts:339); and the
\* words of every burst that was on disk when finalize looked are in the minutes,
\* whatever failed or was cut meanwhile, but for the batches that failed in
\* finalize itself, or a transcriber that is not installed
\* (MinutasCapability.beginFinalize, LiveTranscriber.drain, transcribeBursts).
TranscribedExactly ==
  doubled = {} /\ (phase = "finished" => known \subseteq text \cup missing)

\* While the meeting runs, what has been said is transcribed without anyone
\* speaking again; unless its batch failed, or the meeting ends first
\* (LiveTranscriber.maybeFlush).
FinishedSpeechIsTranscribed ==
  \A b \in Bursts :
    burst[b] = "recorded" /\ phase = "recording" /\ available
      ~> b \in ledger \/ phase # "recording" \/ failures > 0

\* "Transcriber missing: sessions still record; bursts stay untranscribed (logged,
\* kept)" (docs/capabilities/minutas.md:19): of what was recorded there is a
\* transcript, or else the audio.
AudioKept ==
  phase = "finished" /\ gone => OnDisk \subseteq text \cup waved
=============================================================================
