--------------------------- MODULE MinutasSessions ---------------------------
(***************************************************************************)
(* The recordings of one guild, from /chopperbot-join to the published     *)
(* minutes: MinutasSessions.start and end (src/capabilities/minutas/       *)
(* session.ts), finalizeSession (pipeline.ts), and the sweep of the rows a *)
(* dead process left (capability.ts).                                      *)
(*                                                                         *)
(* Every join makes one session. What is recorded, the notices and the     *)
(* text of the minutes are left out; how the audio becomes text is         *)
(* LiveTranscriber. Whatever ends a recording without its timer (the       *)
(* command, an emptied channel, the end of a Discord event, a forced       *)
(* disconnection) is one action: all of them call end for the guild.       *)
(***************************************************************************)
EXTENDS Naturals, FiniteSets

CONSTANTS
  Joins,       \* the sessions that may be asked for
  NoSession,
  MaxRestarts  \* bound on restarts

ASSUME JoinsAssumption == NoSession \notin Joins

VARIABLES
  rowStatus,  \* the row of each session in minutas_sessions
  work,       \* what is being done with it
  current,    \* the guild's entry in the map of active sessions
  armed,      \* the sessions whose timer of maximum duration runs
  dirs,       \* the sessions with a directory on disk
  uploaded,   \* those whose artifacts are all in the object store
  posts,      \* history: minutes posted of each session
  cut,        \* history: restarts after minutes were posted, before the row said so
  overlapped, \* history: a join was connected over another session
  restarts

sessionVars == <<rowStatus, work, current, armed, dirs, uploaded, posts, cut, overlapped, restarts>>
sessionMemory == <<current, armed>>
disk == <<dirs, uploaded>>
sessionHistory == <<cut, overlapped, restarts>>

Statuses == {"none", "active", "processing", "done", "failed"}
Stages == {"none", "connecting", "recording", "ending", "draining", "finalizing",
           "posted", "stored", "over"}

SessionsInit ==
  /\ rowStatus = [s \in Joins |-> "none"] /\ work = [s \in Joins |-> "none"]
  /\ current = NoSession /\ armed = {} /\ dirs = {} /\ uploaded = {}
  /\ posts = [s \in Joins |-> 0] /\ cut = [s \in Joins |-> 0]
  /\ overlapped = FALSE /\ restarts = 0

Enters(s, place) == work' = [work EXCEPT ![s] = place]
Marked(s, value) == rowStatus' = [rowStatus EXCEPT ![s] = value]

-----------------------------------------------------------------------------
(* Joining.                                                                *)

\* The guild has no recording: neither in memory nor among the rows.
Join(s) ==
  /\ work[s] = "none"
  /\ current = NoSession /\ \A t \in Joins : rowStatus[t] # "active"
  /\ Enters(s, "connecting") /\ dirs' = dirs \cup {s}
  /\ UNCHANGED <<rowStatus, sessionMemory, uploaded, posts, sessionHistory>>

ConnectFails(s) ==
  /\ work[s] = "connecting" /\ Enters(s, "over")
  /\ UNCHANGED <<rowStatus, sessionMemory, disk, posts, sessionHistory>>

\* Up to twenty seconds after the check; the map has one entry of the guild.
Connected(s) ==
  /\ work[s] = "connecting" /\ Enters(s, "recording")
  /\ armed' = armed \cup {s} /\ current' = s
  /\ Marked(s, "active")
  /\ overlapped' = (overlapped \/ current # NoSession)
  /\ UNCHANGED <<disk, posts, cut, restarts>>

-----------------------------------------------------------------------------
(* Ending.                                                                 *)

\* Altered: the entry is removed when the recorders have finished.
KeptWhileEnding == current
AfterEnd == NoSession

\* Ends the guild's recording, if it has one; the timers in ringing have fired.
EndOf(ringing) ==
  IF current = NoSession
  THEN armed' = armed \ ringing /\ UNCHANGED <<work, current>>
  ELSE /\ armed' = armed \ (ringing \cup {current})
       /\ Enters(current, "ending")
       /\ current' = AfterEnd

EndSession ==
  /\ current # NoSession /\ EndOf({})
  /\ UNCHANGED <<rowStatus, disk, posts, sessionHistory>>

\* The timer of a session ends whichever session the guild has.
MaxTimer(s) ==
  /\ s \in armed /\ EndOf({s})
  /\ UNCHANGED <<rowStatus, disk, posts, sessionHistory>>

\* The recorders have finished, or fifteen seconds have passed.
Flushed(s) ==
  /\ work[s] = "ending" /\ Enters(s, "draining")
  /\ Marked(s, "processing")
  /\ UNCHANGED <<sessionMemory, disk, posts, sessionHistory>>

-----------------------------------------------------------------------------
(* Finalizing.                                                             *)

Drained(s) ==
  /\ work[s] = "draining" /\ Enters(s, "finalizing")
  /\ UNCHANGED <<rowStatus, sessionMemory, disk, posts, sessionHistory>>

\* The minutes are posted, or there is no channel to post them in, or nothing was
\* said.
PostMinutes(s) ==
  /\ work[s] = "finalizing" /\ s \in dirs
  /\ Enters(s, "posted")
  /\ posts' \in {posts, [posts EXCEPT ![s] = @ + 1]}
  /\ UNCHANGED <<rowStatus, sessionMemory, disk, sessionHistory>>

\* The directory goes once every artifact of it is stored.
UploadAudio(s) ==
  /\ work[s] = "posted" /\ Enters(s, "stored")
  /\ \/ dirs' = dirs \ {s} /\ uploaded' = uploaded \cup {s}
     \/ UNCHANGED disk
  /\ UNCHANGED <<rowStatus, sessionMemory, posts, sessionHistory>>

Done(s) ==
  /\ work[s] = "stored" /\ Enters(s, "over") /\ Marked(s, "done")
  /\ UNCHANGED <<sessionMemory, disk, posts, sessionHistory>>

\* No directory, no minutes from the model, no post, no disk.
FinalizeFails(s) ==
  /\ work[s] \in {"finalizing", "posted"}
  /\ Enters(s, "over") /\ Marked(s, "failed")
  /\ UNCHANGED <<sessionMemory, disk, posts, sessionHistory>>

-----------------------------------------------------------------------------
(* Restart.                                                                *)

\* Altered: only the recordings that were cut are swept.
SweptActive == {"active"}
Swept == {"active", "processing"}

MinutasRestart ==
  /\ restarts < MaxRestarts /\ restarts' = restarts + 1
  /\ current' = NoSession /\ armed' = {}
  /\ LET unfinished == {s \in Joins : rowStatus[s] \in Swept} IN
     /\ rowStatus' = [s \in Joins |-> IF s \in unfinished THEN "processing" ELSE rowStatus[s]]
     /\ work' = [s \in Joins |-> IF s \in unfinished THEN "draining"
                                 ELSE IF work[s] = "none" THEN "none" ELSE "over"]
  /\ cut' = [s \in Joins |-> IF work[s] \in {"posted", "stored"} THEN cut[s] + 1 ELSE cut[s]]
  /\ UNCHANGED <<disk, posts, overlapped>>

FinalStep(s) == Drained(s) \/ PostMinutes(s) \/ UploadAudio(s) \/ Done(s) \/ FinalizeFails(s)

SessionsNext ==
  \/ \E s \in Joins : Join(s) \/ ConnectFails(s) \/ Connected(s) \/ MaxTimer(s)
                      \/ Flushed(s) \/ FinalStep(s)
  \/ EndSession \/ MinutasRestart

\* A timer that was set fires, the wait for the recorders is bounded, and every
\* call of a finalization ends: whisper's, the model's, Discord's, the store's.
SessionsFairness ==
  \A s \in Joins : /\ WF_sessionVars(MaxTimer(s)) /\ WF_sessionVars(Flushed(s))
                   /\ WF_sessionVars(FinalStep(s))

SessionsSpec == SessionsInit /\ [][SessionsNext]_sessionVars /\ SessionsFairness

-----------------------------------------------------------------------------
(* Properties.                                                             *)

\* A session's minutes are posted once however many of the things that end it
\* come together, and again only when the process died between the post and its
\* record (MinutasSessions.end, finalizeSession).
MinutesPostedOnce == \A s \in Joins : posts[s] <= 1 + cut[s]

\* A recording ends, with minutes or with a failure that is reported, through
\* whatever restarts; unless two joins connected at once, when the row of the
\* first stays active until the next restart and keeps the guild from recording
\* (MinutasSessions.start, the sweep of MinutasCapability.start).
EverySessionSettles ==
  \A s \in Joins :
    rowStatus[s] \in {"active", "processing"}
      ~> rowStatus[s] \in {"done", "failed"} \/ overlapped

=============================================================================
