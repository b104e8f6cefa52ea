------------------------------- MODULE MCWorkers -------------------------------
(* The queue of the file scanner, the transcription of a recording and the   *)
(* rows of the calendar with the file of its series share no state: a        *)
(* behaviour of this run is of one of them.                                  *)
(* Uploads: three share a queue of two; one brings two files, each of which  *)
(* another message also brings, and iso is too large to be uploaded.         *)
(* Transcription: three bursts of two voices, a batch that fails and a       *)
(* restart. Series: a quarter of a year in half days, every kind of rhythm,  *)
(* a Tuesday and a 31st to start on.                                         *)
EXTENDS FileScanner, LiveTranscriber, CalendarSeries, TLC

CONSTANTS m1, m2, m3, exe, iso, b1, b2, b3, v1, v2
VARIABLE part

MCMessages == {m1, m2, m3}
MCHashes == {exe, iso}
\* Bursts and voices are interchangeable: they come in the order of their names.
BurstsInOrder == /\ voice[b1] # v2
                 /\ burst[b2] # "unused" => burst[b1] # "unused"
                 /\ burst[b3] # "unused" => burst[b2] # "unused"

MCFiles == (m1 :> <<iso, exe>>) @@ (m2 :> <<exe>>) @@ (m3 :> <<iso>>)

Rhythms(freq, every, days, mode) ==
  [freq |-> freq, every |-> every, days |-> days, mode |-> mode]

MCRules ==
  {OneOff, Rhythms("daily", 2, {}, "date"), Rhythms("weekly", 2, {1, 3}, "date"),
   Rhythms("monthly", 1, {}, "date"), Rhythms("monthly", 1, {}, "nth"),
   Rhythms("monthly", 1, {}, "last")}
MCMonths == <<31, 28, 31>>

MCInit ==
  /\ part \in {"uploads", "live", "series"}
  /\ ScannerInit /\ LiveInit /\ SeriesInit
  /\ part = "live" \/ available
  /\ part = "series" \/ rows = [id \in RowIds |-> Vacant]

MCNext ==
  /\ \/ part = "uploads" /\ ScannerNext /\ UNCHANGED <<liveVars, seriesVars>>
     \/ part = "live" /\ LiveNext /\ BurstsInOrder' /\ UNCHANGED <<scannerVars, seriesVars>>
     \/ part = "series" /\ SeriesNext /\ UNCHANGED <<scannerVars, liveVars>>
  /\ UNCHANGED part

\* In the other parts none of the steps that fairness is about is enabled.
MCSpec ==
  /\ MCInit /\ [][MCNext]_<<scannerVars, liveVars, seriesVars, part>>
  /\ ScannerFairness /\ LiveFairness
=============================================================================
