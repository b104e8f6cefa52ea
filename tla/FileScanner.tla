----------------------------- MODULE FileScanner -----------------------------
(***************************************************************************)
(* The file scanner: uploads of several messages share one queue of        *)
(* VirusTotal calls, spaced in time and counted against a rolling budget.  *)
(* src/capabilities/file_scanner/{watcher,scanner,rate-limiter,store}.ts.  *)
(*                                                                         *)
(* Time is kept as ages, which stop growing where the code no longer tells *)
(* them apart, so the clock itself needs no bound.                         *)
(***************************************************************************)
EXTENDS Integers, Sequences, FiniteSets, SequencesExt

CONSTANTS
  Messages,     \* messages with attachments worth scanning
  Hashes,       \* contents of files
  Files,        \* [Messages -> Seq(Hashes)]: the attachments of each message
  Large,        \* files over VIRUSTOTAL_MAX_FILE_BYTES, only looked up
  MinInterval,  \* minIntervalMs
  Window,       \* WINDOW_MS
  Budget,       \* dailyBudget
  MaxDepth,     \* maxQueueDepth
  MaxPolls,     \* VIRUSTOTAL_MAX_POLLS
  MaxCrashes    \* bound on restarts

ASSUME ScannerAssumption ==
  /\ Files \in [Messages -> Seq(Hashes)]
  /\ \A m \in Messages : Files[m] # <<>>
  /\ Large \subseteq Hashes
  /\ {MinInterval, Window, MaxDepth, MaxPolls} \subseteq Nat \ {0}
  /\ {Budget, MaxCrashes} \subseteq Nat

VARIABLES
  place,      \* where the handler of each message is
  file,       \* which of its files it is at
  polls,      \* analyses read for that file
  outcome,    \* what became of that file
  queue,      \* messages whose call is chained to the tail, in order
  calling,    \* TRUE while the call of the head is in flight
  depth,      \* queueDepth
  sinceCall,  \* age of lastCallAt; MinInterval also when there is none
  times,      \* request_times_json: ages of the reserved slots
  cache,      \* file_scanner_scans: the files whose verdict is on record
  made,       \* history: the calls of the last Window, by which process
  spent,      \* history: the calls made for the file at hand
  crashes

memory == <<place, file, polls, outcome, queue, calling, depth, sinceCall>>
history == <<made, spent, crashes>>
scannerVars == <<memory, times, cache, history>>

\* start: the file is being downloaded.  lookup, upload, analysis: the call it
\* has queued.  told: its outcome is on the reply.  lost: the process died.
Call == {"lookup", "upload", "analysis"}
Place == Call \cup {"idle", "start", "told", "over", "lost"}
Outcome == {"none", "verdict", "pending", "too_large", "budget", "full",
            "auth", "error"}

ScannerTypeOK ==
  /\ place \in [Messages -> Place]
  /\ file \in [Messages -> Nat \ {0}]
  /\ polls \in [Messages -> 0..MaxPolls]
  /\ outcome \in [Messages -> Outcome]
  /\ queue \in Seq(Messages)
  /\ calling \in BOOLEAN
  /\ depth \in 0..MaxDepth
  /\ sinceCall \in 0..MinInterval
  /\ times \in Seq(0..Window)
  /\ cache \in SUBSET Hashes
  /\ made \in Seq([age: 0..Window, mine: BOOLEAN])
  /\ spent \in [Messages -> Nat]
  /\ crashes \in 0..MaxCrashes

ScannerInit ==
  /\ place = [m \in Messages |-> "idle"]
  /\ file = [m \in Messages |-> 1]
  /\ polls = [m \in Messages |-> 0]
  /\ outcome = [m \in Messages |-> "none"]
  /\ queue = <<>> /\ calling = FALSE /\ depth = 0
  /\ sinceCall = MinInterval
  /\ times = <<>>
  /\ cache = {}
  /\ made = <<>> /\ spent = [m \in Messages |-> 0]
  /\ crashes = 0

Hash(m) == Files[m][file[m]]

-----------------------------------------------------------------------------
(* ScanRateLimiter                                                         *)

Settle(m, what) ==
  /\ place' = [place EXCEPT ![m] = "told"]
  /\ outcome' = [outcome EXCEPT ![m] = what]

\* Altered: the job that has just ended is still counted.
ScheduleCounted(m, call, q, d) ==
  \/ /\ depth >= MaxDepth
     /\ Settle(m, "full")
     /\ queue' = q /\ depth' = d
  \/ /\ depth < MaxDepth
     /\ place' = [place EXCEPT ![m] = call]
     /\ queue' = Append(q, m) /\ depth' = d + 1
     /\ UNCHANGED outcome

\* schedule, called when the chain is q and the counter d: sheds or appends.
\* The continuation of a call that returned runs right behind the finally that
\* counted it off, so nothing comes between the two.
Schedule(m, call, q, d) ==
  \/ /\ d >= MaxDepth
     /\ Settle(m, "full")
     /\ queue' = q /\ depth' = d
  \/ /\ d < MaxDepth
     /\ place' = [place EXCEPT ![m] = call]
     /\ queue' = Append(q, m) /\ depth' = d + 1
     /\ UNCHANGED outcome

\* The job of the head leaves the chain.
Leave == queue' = Tail(queue) /\ depth' = depth - 1

\* waitForSlot
SlotFree == sinceCall >= MinInterval

\* prunedTimes.  The calls are in the order of time: what is too old comes first.
FirstRecent(ages) ==
  CHOOSE n \in 1..(Len(ages) + 1) : \A i \in DOMAIN ages : ages[i] < Window <=> i >= n
Recent(ages) == SubSeq(ages, FirstRecent(ages), Len(ages))

\* The turn of the head has come: it takes a slot of the budget and calls.
Reserve ==
  /\ queue # <<>> /\ ~calling /\ SlotFree
  /\ Len(Recent(times)) < Budget
  /\ times' = Append(Recent(times), 0)
  /\ sinceCall' = 0
  /\ calling' = TRUE
  /\ made' = Append(made, [age |-> 0, mine |-> TRUE])
  /\ spent' = [spent EXCEPT ![Head(queue)] = @ + 1]
  /\ UNCHANGED <<place, file, polls, outcome, queue, depth, cache, crashes>>

\* ... or finds none left.
OverBudget ==
  /\ queue # <<>> /\ ~calling /\ SlotFree
  /\ Len(Recent(times)) >= Budget
  /\ times' = Recent(times)
  /\ Leave
  /\ Settle(Head(queue), "budget")
  /\ UNCHANGED <<file, polls, calling, sinceCall, cache, history>>

-----------------------------------------------------------------------------
(* FileScanner.scanBytes                                                   *)

\* The file was downloaded; a known one is answered from the cache, and the
\* same verdict is written again.
ScanCached(m) ==
  /\ place[m] = "start"
  /\ Hash(m) \in cache
  /\ Settle(m, "verdict")
  /\ UNCHANGED <<file, polls, queue, calling, depth, sinceCall, times, cache,
                 history>>

ScanLookup(m) ==
  /\ place[m] = "start"
  /\ Hash(m) \notin cache
  /\ Schedule(m, "lookup", queue, depth)
  /\ UNCHANGED <<file, polls, calling, sinceCall, times, cache, history>>

\* The call of the head returns, and the scan goes on.
Returned(m) ==
  /\ queue # <<>> /\ calling /\ m = Head(queue)
  /\ calling' = FALSE
  /\ UNCHANGED <<file, sinceCall, times, history>>

\* VirusTotal knows the file, by its hash or because the analysis completed.
ReturnVerdict(m) ==
  /\ Returned(m)
  /\ place[m] \in {"lookup", "analysis"}
  /\ cache' = cache \cup {Hash(m)}
  /\ Leave
  /\ Settle(m, "verdict")
  /\ UNCHANGED polls

ReturnUnknown(m) ==
  /\ Returned(m)
  /\ place[m] = "lookup"
  /\ \/ Hash(m) \in Large /\ Leave /\ Settle(m, "too_large")
     \/ Hash(m) \notin Large /\ Schedule(m, "upload", Tail(queue), depth - 1)
  /\ UNCHANGED <<polls, cache>>

ReturnUploaded(m) ==
  /\ Returned(m)
  /\ place[m] = "upload"
  /\ Schedule(m, "analysis", Tail(queue), depth - 1)
  /\ UNCHANGED <<polls, cache>>

\* The analysis has not completed: polls again, or gives up.
ReturnUnfinished(m) ==
  /\ Returned(m)
  /\ place[m] = "analysis"
  /\ polls' = [polls EXCEPT ![m] = @ + 1]
  /\ \/ /\ polls[m] + 1 < MaxPolls
        /\ Schedule(m, "analysis", Tail(queue), depth - 1)
     \/ polls[m] + 1 >= MaxPolls /\ Leave /\ Settle(m, "pending")
  /\ UNCHANGED cache

\* Altered: a failed call leaves the chain rejected, and no job runs behind it.
ReturnFailsAndStops(m) ==
  /\ queue # <<>> /\ calling /\ m = Head(queue) /\ place[m] \in Call
  /\ \E kind \in {"auth", "error"} : Settle(m, kind)
  /\ UNCHANGED <<file, sinceCall, times, history, polls, cache, queue, depth,
                 calling>>

\* It failed: the API key was refused, or anything else.
ReturnFails(m) ==
  /\ Returned(m)
  /\ \E kind \in {"auth", "error"} : Settle(m, kind)
  /\ Leave
  /\ UNCHANGED <<polls, cache>>

-----------------------------------------------------------------------------
(* FileScanWatcher                                                         *)

Upload(m) ==
  /\ place[m] = "idle"
  /\ place' = [place EXCEPT ![m] = "start"]
  /\ UNCHANGED <<file, polls, outcome, queue, calling, depth, sinceCall, times,
                 cache, history>>

DownloadFails(m) ==
  /\ place[m] = "start"
  /\ Settle(m, "error")
  /\ UNCHANGED <<file, polls, queue, calling, depth, sinceCall, times, cache,
                 history>>

\* The reply was edited; the next file of the message, if there is one.
Report(m) ==
  /\ place[m] = "told"
  /\ \/ /\ file[m] < Len(Files[m])
        /\ file' = [file EXCEPT ![m] = @ + 1]
        /\ place' = [place EXCEPT ![m] = "start"]
     \/ /\ file[m] = Len(Files[m])
        /\ place' = [place EXCEPT ![m] = "over"]
        /\ file' = [file EXCEPT ![m] = 1]
  /\ polls' = [polls EXCEPT ![m] = 0]
  /\ outcome' = [outcome EXCEPT ![m] = "none"]
  /\ spent' = [spent EXCEPT ![m] = 0]
  /\ UNCHANGED <<queue, calling, depth, sinceCall, times, cache, made, crashes>>

-----------------------------------------------------------------------------
(* The world around it                                                     *)

Older(age, cap) == IF age < cap THEN age + 1 ELSE cap

Tick ==
  LET older == [i \in DOMAIN made |-> [made[i] EXCEPT !.age = @ + 1]]
      ages == [i \in DOMAIN made |-> made[i].age + 1]
  IN
  /\ sinceCall' = Older(sinceCall, MinInterval)
  /\ times' = [i \in DOMAIN times |-> Older(times[i], Window)]
  /\ made' = SubSeq(older, FirstRecent(ages), Len(older))
  /\ UNCHANGED <<place, file, polls, outcome, queue, calling, depth, cache,
                 spent, crashes>>

\* What is only in memory; a message whose handler was under way is lost.
Forget ==
  /\ place' = [m \in Messages |-> IF place[m] \in {"idle", "over"}
                                  THEN place[m] ELSE "lost"]
  /\ file' = [m \in Messages |-> 1]
  /\ polls' = [m \in Messages |-> 0]
  /\ outcome' = [m \in Messages |-> "none"]
  /\ queue' = <<>> /\ calling' = FALSE /\ depth' = 0
  /\ sinceCall' = MinInterval
  /\ made' = [i \in DOMAIN made |-> [made[i] EXCEPT !.mine = FALSE]]
  /\ spent' = [m \in Messages |-> 0]

\* The process dies and starts again: the tables remain, and what the members
\* were promised in their replies is forgotten.
Restart ==
  /\ crashes < MaxCrashes
  /\ crashes' = crashes + 1
  /\ Forget
  /\ UNCHANGED <<times, cache>>

Scan(m) ==
  \/ ScanCached(m) \/ ScanLookup(m) \/ DownloadFails(m)

Return(m) ==
  \/ ReturnVerdict(m) \/ ReturnUnknown(m) \/ ReturnUploaded(m)
  \/ ReturnUnfinished(m) \/ ReturnFails(m)

ScannerNext ==
  \/ \E m \in Messages : Upload(m) \/ Scan(m) \/ Return(m) \/ Report(m)
  \/ Reserve \/ OverBudget
  \/ Tick \/ Restart

ScannerSpec == ScannerInit /\ [][ScannerNext]_scannerVars

\* Downloads and calls have timeouts (DOWNLOAD_TIMEOUT_MS, HTTP_TIMEOUT_MS),
\* timers fire, and time passes.
ScannerFairness ==
  /\ WF_scannerVars(Tick)
  /\ WF_scannerVars(Reserve \/ OverBudget)
  /\ \A m \in Messages : /\ WF_scannerVars(Scan(m))
                         /\ WF_scannerVars(Return(m))
                         /\ WF_scannerVars(Report(m))

-----------------------------------------------------------------------------
(* Properties                                                              *)

\* The calls of one process begin at least MinInterval apart, whichever scans
\* they belong to and however each one ended (VirusTotal's calls per minute).
Spaced ==
  \A i, j \in DOMAIN made :
    i < j /\ made[i].mine /\ made[j].mine
      => made[i].age - made[j].age >= MinInterval

\* No window of 24 hours sees more calls than the budget, also when the process
\* restarts within it or dies with a call in flight.
BudgetRolling == Len(made) <= Budget

\* A file for which VirusTotal was already asked is never given up because the
\* queue is full: its next call takes the place that its last one left, however
\* many uploads arrive in between.
NothingPaidIsShed == \A m \in Messages : outcome[m] = "full" => spent[m] = 0

\* Both limits of the VirusTotal plan hold together, although one is kept in
\* memory by the queue and the other in a table that outlives the process, and
\* what was spent within them is not thrown away.
PlanWellSpent == Spaced /\ BudgetRolling /\ NothingPaidIsShed

\* Every file that is being scanned gets its line, and so every message its
\* end, unless the process dies.
EveryUploadAnswered ==
  \A m \in Messages : place[m] = "start" ~> place[m] \in {"over", "lost"}

=============================================================================
