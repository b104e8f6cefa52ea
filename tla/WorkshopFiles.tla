---------------------------- MODULE WorkshopFiles ----------------------------
(***************************************************************************)
(* Where the files of a workshop session live: the local workspace, which  *)
(* is a cache, the object store, which is the primary durable copy, and    *)
(* the attachments of Discord messages, the fallback.  The manifest        *)
(* (workshop_files) names both durable copies of each file.                *)
(* src/capabilities/workshop/watcher.ts, archive.ts, storage.ts, store.ts. *)
(*                                                                         *)
(* One session.  Its turn (one at a time, see TurnQueue), a Limpiar press, *)
(* the hourly backfill and sweep and the closing of the session interleave *)
(* at their awaits.  Messages and versions of files are numbered by one    *)
(* clock; version 0 is no file and message 0 no message.                   *)
(***************************************************************************)
EXTENDS Integers, FiniteSets

CONSTANTS
  Files,
  Big,        \* files over MAX_SEND_FILE_BYTES, which only members upload
  Horizon,    \* bound on the clock
  Budget,     \* how often each of Kinds may happen
  Lossy       \* whether the calls to Discord and to the store may fail

Process == {"turn", "clear", "backfill", "close", "sweep"}
\* A turn may end in a clear of its own, and members delete messages.
Kinds == Process \union {"tool", "delete"}

ASSUME FilesAssumption ==
  /\ IsFiniteSet(Files) /\ Big \subseteq Files /\ Horizon \in Nat
  /\ Budget \in [Kinds -> Nat] /\ Lossy \in BOOLEAN

VARIABLES
  clock,       \* last message or version number given out
  session,     \* "active" or "closed": workshop_sessions.status
  channelUp,   \* the Discord channel exists
  dir,         \* the workspace directory exists
  local,       \* version of each file in the workspace
  msg,         \* workshop_files.message_id, 0 without a row
  key,         \* files whose row has a storage_key
  carried,     \* the versions each message carries as attachments
  objects,     \* version of each file in the object store
  pc,          \* where each process is
  list,        \* rows a process still has to rehydrate, as it read them
  files,       \* files it still has to save, upload or record
  puts,        \* its upload in flight, a set of at most one
  sent,        \* the message it posted
  doomed,      \* old carriers it is about to delete
  left,        \* how often each of Kinds may still happen
  recent,      \* processes begun before or during the last turn
  late         \* history: files recorded on a message about to be deleted

manifest == <<msg, key>>
world == <<session, channelUp, carried, clock>>
runs == <<left, recent, late>>
vars == <<world, dir, local, manifest, objects, pc, list, files, puts, sent,
          doomed, runs>>

Number == 0..Horizon
Versions == [Files -> Number]
NoFile == [f \in Files |-> 0]
Recorded == {f \in Files : msg[f] # 0}
Cached == {f \in Files : local[f] # 0}

\* idle; rehydrate and restore: fetching missing files, for the turn itself or
\* before an archive; save: attachments or pending uploads; work: the agent
\* loop and the deliveries; posted: a delivery is on its way back; archived and
\* doom: the awaits of archiveSessionFiles; wait, erase: those of closing and
\* sweeping.
Place == {"idle", "rehydrate", "restore", "save", "work", "posted", "archived",
          "doom", "wait", "erase"}

FilesTypeOK ==
  /\ clock \in Number
  /\ session \in {"active", "closed"}
  /\ channelUp \in BOOLEAN /\ dir \in BOOLEAN
  /\ local \in Versions /\ msg \in Versions /\ objects \in Versions
  /\ key \subseteq Recorded
  /\ carried \in [1..Horizon -> Versions]
  /\ pc \in [Process -> Place]
  /\ recent \subseteq Process
  /\ late \subseteq Files \X Number
  /\ files \in [Process -> SUBSET Files]
  /\ sent \in [Process -> Number]
  /\ \A p \in Process :
       /\ list[p] \subseteq [file : Files, num : Number, stored : BOOLEAN]
       /\ puts[p] \subseteq [file : Files, num : Number]
       /\ Cardinality(puts[p]) <= 1
       /\ doomed[p] \subseteq 1..Horizon

FilesInit ==
  /\ clock = 0
  /\ session = "active"
  /\ channelUp = TRUE
  /\ dir = FALSE
  /\ local = NoFile /\ msg = NoFile /\ objects = NoFile
  /\ key = {}
  /\ carried = [m \in 1..Horizon |-> NoFile]
  /\ pc = [p \in Process |-> "idle"]
  /\ list = [p \in Process |-> {}]
  /\ files = [p \in Process |-> {}]
  /\ puts = [p \in Process |-> {}]
  /\ sent = [p \in Process |-> 0]
  /\ doomed = [p \in Process |-> {}]
  /\ left = Budget
  /\ recent = {}
  /\ late = {}

-----------------------------------------------------------------------------
(* Steps of the stores.                                                    *)

At(p, place) == pc[p] = place /\ puts[p] = {}
Goto(p, place) == pc' = [pc EXCEPT ![p] = place]
Spend(kind) == left[kind] > 0 /\ left' = [left EXCEPT ![kind] = @ - 1]

Begin(p) ==
  /\ pc[p] = "idle"
  /\ Spend(p)
  /\ recent' = CASE p = "turn" -> {q \in Process : pc[q] # "idle"}
                 [] p # "turn" /\ pc["turn"] = "idle" -> recent \ {p}
                 [] p # "turn" /\ pc["turn"] # "idle" -> recent \union {p}
  /\ UNCHANGED late

\* workspace.writeBytes, which makes the directory.
Write(f, v) ==
  /\ local' = [local EXCEPT ![f] = v]
  /\ dir' = TRUE

\* store.removeFileRecord
Drop(S) ==
  /\ msg' = [f \in Files |-> IF f \in S THEN 0 ELSE msg[f]]
  /\ key' = key \ S

\* store.recordFile, which leaves the key of an existing row as it is.
Record(S, m) ==
  /\ msg' = [f \in Files |-> IF f \in S THEN m ELSE msg[f]]
  /\ UNCHANGED key

\* A message with attachments is posted; its number is the clock.
Post(attachments) ==
  /\ channelUp
  /\ clock < Horizon
  /\ clock' = clock + 1
  /\ carried' = [carried EXCEPT ![clock'] = attachments]
  /\ UNCHANGED <<session, channelUp>>

\* Rows whose file is not in the workspace.
Missing ==
  {[file |-> f, num |-> msg[f], stored |-> f \in key] : f \in Recorded \ Cached}

-----------------------------------------------------------------------------
(* rehydrate(session, workspace)                                           *)

\* One row of the list read at the start, whatever became of it since: the
\* object store, then the carrier message.  Only an unknown message drops the
\* row; a message without the attachment is a message that never had it.
RehydrateOne(p) ==
  /\ pc[p] \in {"rehydrate", "restore"}
  /\ \E r \in list[p] :
       /\ list' = [list EXCEPT ![p] = @ \ {r}]
       /\ \/ /\ r.stored /\ objects[r.file] # 0
             /\ Write(r.file, objects[r.file])
             /\ UNCHANGED manifest
          \/ /\ ~r.stored \/ objects[r.file] = 0 \/ Lossy
             /\ channelUp
             /\ IF carried[r.num][r.file] # 0
                THEN Write(r.file, carried[r.num][r.file]) /\ UNCHANGED manifest
                ELSE Drop({r.file}) /\ UNCHANGED <<dir, local>>
          \/ /\ Lossy \/ ~channelUp
             /\ UNCHANGED <<dir, local, manifest>>
  /\ UNCHANGED <<world, objects, pc, files, puts, sent, doomed, runs>>

RehydrateDone(p) ==
  /\ pc[p] = "rehydrate" /\ list[p] = {}
  /\ Goto(p, "save")
  /\ UNCHANGED <<world, dir, local, manifest, objects, list, files, puts, sent,
                 doomed, runs>>

\* Altered: the key is set before the upload is known to have landed.
UploadUnchecked(p) ==
  /\ \E u \in puts[p] :
       /\ \/ objects' = [objects EXCEPT ![u.file] = u.num]
          \/ Lossy /\ UNCHANGED objects
       /\ key' = key \union ({u.file} \intersect Recorded)
  /\ puts' = [puts EXCEPT ![p] = {}]
  /\ UNCHANGED <<world, dir, local, msg, pc, list, files, sent, doomed, runs>>

\* uploadToStorage returns: the bytes landed and the row, if it still exists,
\* gets its key; or the call failed and the row keeps the key it had.
Upload(p) ==
  /\ \E u \in puts[p] :
       \/ /\ objects' = [objects EXCEPT ![u.file] = u.num]
          /\ key' = key \union ({u.file} \intersect Recorded)
       \/ /\ Lossy
          /\ UNCHANGED <<objects, key>>
  /\ puts' = [puts EXCEPT ![p] = {}]
  /\ UNCHANGED <<world, dir, local, msg, pc, list, files, sent, doomed, runs>>

-----------------------------------------------------------------------------
(* A turn: the files of runTurn                                            *)

\* A message arrived, with attachments or not, and its turn starts.
TurnStart ==
  /\ session = "active"
  /\ Begin("turn")
  /\ \E A \in SUBSET Files :
       /\ Post([f \in Files |-> IF f \in A THEN clock + 1 ELSE 0])
       /\ files' = [files EXCEPT !["turn"] = A]
  /\ sent' = [sent EXCEPT !["turn"] = clock']
  /\ dir' = TRUE
  /\ list' = [list EXCEPT !["turn"] = Missing]
  /\ Goto("turn", "rehydrate")
  /\ UNCHANGED <<local, manifest, objects, puts, doomed>>

\* saveUploads: an attachment is written and recorded, and its upload starts.
TurnSave ==
  /\ At("turn", "save")
  /\ \E f \in files["turn"] :
       /\ files' = [files EXCEPT !["turn"] = @ \ {f}]
       /\ \/ /\ Write(f, sent["turn"])
             /\ Record({f}, sent["turn"])
             /\ puts' = [puts EXCEPT
                           !["turn"] = {[file |-> f, num |-> sent["turn"]]}]
             /\ late' = IF pc["clear"] = "doom" /\ sent["turn"] \in doomed["clear"]
                        THEN late \union {<<f, sent["turn"]>>}
                        ELSE late
          \/ /\ Lossy
             /\ UNCHANGED <<dir, local, manifest, puts, late>>
  /\ UNCHANGED <<world, objects, pc, list, sent, doomed, left, recent>>

TurnSaved ==
  /\ At("turn", "save") /\ files["turn"] = {}
  /\ Goto("turn", "work")
  /\ UNCHANGED <<world, dir, local, manifest, objects, list, files, puts, sent,
                 doomed, runs>>

\* A tool of the agent loop writes a file.  Files the turn wrote are kept in
\* files["turn"] until they are sent.
TurnWrite ==
  /\ At("turn", "work")
  /\ clock < Horizon /\ clock' = clock + 1
  /\ \E f \in Files \ Big :
       /\ Write(f, clock')
       /\ files' = [files EXCEPT !["turn"] = @ \union {f}]
  /\ UNCHANGED <<session, channelUp, carried, manifest, objects, pc, list, puts,
                 sent, doomed, runs>>

\* sendWorkspaceFile: the attachment is read as it is sent.
TurnSend ==
  /\ At("turn", "work")
  /\ \E f \in Cached \ Big :
       /\ Post([g \in Files |-> IF g = f THEN local[f] ELSE 0])
       /\ files' = [files EXCEPT !["turn"] = @ \ {f}]
       /\ list' = [list EXCEPT !["turn"] =
                     {[file |-> f, num |-> clock', stored |-> FALSE]}]
  /\ Goto("turn", "posted")
  /\ UNCHANGED <<dir, local, manifest, objects, puts, sent, doomed, runs>>

\* The message is back: the row is written, from the file as it is now, and
\* the upload starts.  Without the file the stat throws first.
TurnSent ==
  /\ pc["turn"] = "posted"
  /\ \E r \in list["turn"] :
       IF local[r.file] # 0
       THEN /\ Record({r.file}, r.num)
            /\ puts' = [puts EXCEPT
                          !["turn"] = {[file |-> r.file, num |-> local[r.file]]}]
       ELSE UNCHANGED <<manifest, puts>>
  /\ list' = [list EXCEPT !["turn"] = {}]
  /\ Goto("turn", "work")
  /\ UNCHANGED <<world, dir, local, objects, files, sent, doomed, runs>>

\* Files this turn wrote that no row records are sent by
\* autoSendForgottenDeliverables, unless sending failed.
Forgotten == (files["turn"] \intersect Cached) \ Recorded

\* The turn is over; after workshop_clear_session it archives first.  A turn
\* that closes the session sends nothing it forgot.
TurnEnd ==
  /\ At("turn", "work")
  /\ Forgotten = {} \/ Lossy \/ ~channelUp \/ pc["close"] # "idle"
  /\ files' = [files EXCEPT !["turn"] = {}]
  /\ \/ /\ Goto("turn", "idle")
        /\ UNCHANGED <<list, left, dir>>
     \/ /\ channelUp
        /\ Spend("tool")
        /\ dir' = TRUE
        /\ list' = [list EXCEPT !["turn"] = Missing]
        /\ Goto("turn", "restore")
  /\ UNCHANGED <<world, local, manifest, objects, puts, sent, doomed, recent, late>>

-----------------------------------------------------------------------------
(* Limpiar from the panel, and archiveSessionFiles                         *)

\* purgeChannel spares every message with attachments.
ClearStart ==
  /\ session = "active" /\ channelUp
  /\ Begin("clear")
  /\ dir' = TRUE
  /\ list' = [list EXCEPT !["clear"] = Missing]
  /\ Goto("clear", "restore")
  /\ UNCHANGED <<world, local, manifest, objects, files, puts, sent, doomed>>

\* Once rehydrated, the rows without a local file are dropped.  The small ones
\* of the others go on a new message, whose attachments are read as it is sent.
ArchiveSend(p) ==
  /\ pc[p] = "restore" /\ list[p] = {}
  /\ Drop(Recorded \ Cached)
  /\ LET rows == Recorded \intersect Cached
         attach == rows \ Big
     IN  \/ /\ attach # {}
            /\ Post([f \in Files |-> IF f \in attach THEN local[f] ELSE 0])
            /\ files' = [files EXCEPT ![p] = attach]
            /\ sent' = [sent EXCEPT ![p] = clock']
            /\ doomed' = [doomed EXCEPT ![p] = {msg[f] : f \in rows}]
            /\ Goto(p, "archived")
         \/ /\ attach = {} \/ Lossy \/ ~channelUp
            /\ Goto(p, "idle")
            /\ UNCHANGED <<world, files, sent, doomed>>
  /\ UNCHANGED <<dir, local, objects, list, puts, runs>>

\* The message is back: the rows are re-pointed, and the old carriers that no
\* row names any more are to be deleted.
ArchiveRecord(p) ==
  /\ pc[p] = "archived"
  /\ Record(files[p], sent[p])
  /\ files' = [files EXCEPT ![p] = {}]
  /\ doomed' = [doomed EXCEPT ![p] = @ \ ({msg'[f] : f \in Files} \union {sent[p]})]
  /\ Goto(p, "doom")
  /\ UNCHANGED <<world, dir, local, objects, list, puts, sent, runs>>

ArchiveDelete(p) ==
  /\ pc[p] = "doom"
  /\ IF doomed[p] = {}
     THEN Goto(p, "idle") /\ UNCHANGED <<carried, doomed>>
     ELSE \E m \in doomed[p] :
            /\ doomed' = [doomed EXCEPT ![p] = @ \ {m}]
            /\ carried' \in {[carried EXCEPT ![m] = NoFile]}
                            \union (IF Lossy THEN {carried} ELSE {})
            /\ UNCHANGED pc
  /\ UNCHANGED <<session, channelUp, clock, dir, local, manifest, objects, list,
                 files, puts, sent, runs>>

-----------------------------------------------------------------------------
(* Hourly maintenance: storageBackfill, then gcSweep, never side by side    *)

\* Rows without a key are re-uploaded, restored first if need be.
BackfillStart ==
  /\ session = "active"
  /\ pc["sweep"] = "idle"
  /\ Begin("backfill")
  /\ files' = [files EXCEPT !["backfill"] = Recorded \ key]
  /\ dir' = TRUE
  /\ list' = [list EXCEPT !["backfill"] =
                IF Recorded \ key \subseteq Cached THEN {} ELSE Missing]
  /\ Goto("backfill", "rehydrate")
  /\ UNCHANGED <<world, local, manifest, objects, puts, sent, doomed>>

BackfillOne ==
  /\ At("backfill", "save")
  /\ \E f \in files["backfill"] :
       /\ files' = [files EXCEPT !["backfill"] = @ \ {f}]
       /\ puts' = [puts EXCEPT !["backfill"] =
                     IF f \in Cached THEN {[file |-> f, num |-> local[f]]}
                                     ELSE {}]
  /\ UNCHANGED <<world, dir, local, manifest, objects, pc, list, sent, doomed,
                 runs>>

BackfillDone ==
  /\ At("backfill", "save") /\ files["backfill"] = {}
  /\ Goto("backfill", "idle")
  /\ UNCHANGED <<world, dir, local, manifest, objects, list, files, puts, sent,
                 doomed, runs>>

\* A session without a message for six hours, which outlast what was at work by
\* then: local copies of recorded files go, others may when two days old.  An
\* archive goes from its last rehydration to its send without an await.
SweepIdle ==
  /\ session = "active" /\ pc["turn"] = "idle"
  /\ \A p \in recent \union {"backfill"} : At(p, "idle")
  /\ \A p \in Process : pc[p] = "restore" => list[p] # {}
  /\ Begin("sweep")
  /\ \E old \in SUBSET (Cached \ Recorded) :
       local' = [f \in Files |->
                   IF f \in Recorded \union old THEN 0 ELSE local[f]]
  /\ UNCHANGED <<world, dir, manifest, objects, pc, list, files, puts, sent,
                 doomed>>

\* Everything the bot holds of the session but its objects.
Forget ==
  /\ local' = NoFile
  /\ dir' = FALSE
  /\ Drop(Files)

\* Altered: only directories of sessions with rows in the manifest.
SweepWithRows ==
  /\ session = "closed" /\ dir /\ Recorded # {}
  /\ pc["sweep"] = "idle" /\ At("backfill", "idle")
  /\ local' = NoFile /\ dir' = FALSE
  /\ Drop(Files)
  /\ Goto("sweep", "erase")
  /\ UNCHANGED <<world, objects, list, files, puts, sent, doomed, runs>>

\* A directory of a session that is not active.
SweepClosed ==
  /\ session = "closed" /\ dir
  /\ pc["sweep"] = "idle" /\ At("backfill", "idle")
  /\ Forget
  /\ Goto("sweep", "erase")
  /\ UNCHANGED <<world, objects, list, files, puts, sent, doomed, runs>>

\* deleteSessionObjects, after a sweep or a close.
EraseObjects(p) ==
  /\ pc[p] = "erase"
  /\ objects' \in {NoFile} \union (IF Lossy THEN {objects} ELSE {})
  /\ Goto(p, "idle")
  /\ UNCHANGED <<world, dir, local, manifest, list, files, puts, sent, doomed,
                 runs>>

-----------------------------------------------------------------------------
(* The end of a session                                                    *)

\* closeSession, up to the deletion of the channel, which may be refused.
CloseStart ==
  /\ session = "active" /\ channelUp
  /\ Begin("close")
  /\ Goto("close", "wait")
  /\ UNCHANGED <<world, dir, local, manifest, objects, list, files, puts, sent,
                 doomed>>

CloseDelete ==
  /\ pc["close"] = "wait"
  /\ channelUp
  /\ \/ /\ channelUp' = FALSE
        /\ session' = "closed"
        /\ Forget
        /\ Goto("close", "erase")
     \/ /\ Lossy
        /\ Goto("close", "idle")
        /\ UNCHANGED <<channelUp, session, dir, local, manifest>>
  /\ UNCHANGED <<clock, carried, objects, list, files, puts, sent, doomed, runs>>

\* The channel is deleted by hand, and handleChannelDelete closes the session.
ChannelDelete ==
  /\ channelUp
  /\ pc["close"] = "idle"
  /\ Spend("close")
  /\ channelUp' = FALSE
  /\ session' = "closed"
  /\ UNCHANGED <<clock, carried, dir, local, manifest, objects, pc, list, files,
                 puts, sent, doomed, recent, late>>

\* A member deletes a message in Discord.
MemberDeletes ==
  /\ channelUp
  /\ Spend("delete")
  /\ \E m \in 1..clock :
       /\ carried[m] # NoFile
       /\ carried' = [carried EXCEPT ![m] = NoFile]
  /\ UNCHANGED <<session, channelUp, clock, dir, local, manifest, objects, pc,
                 list, files, puts, sent, doomed, recent, late>>

FilesNext ==
  \/ \E p \in {"turn", "clear", "backfill"} :
       RehydrateOne(p) \/ RehydrateDone(p) \/ Upload(p)
  \/ TurnStart \/ TurnSave \/ TurnSaved \/ TurnWrite \/ TurnSend \/ TurnSent
  \/ TurnEnd
  \/ ClearStart
  \/ \E p \in {"turn", "clear"} :
       ArchiveSend(p) \/ ArchiveRecord(p) \/ ArchiveDelete(p)
  \/ BackfillStart \/ BackfillOne \/ BackfillDone
  \/ SweepIdle \/ SweepClosed
  \/ \E p \in {"close", "sweep"} : EraseObjects(p)
  \/ CloseStart \/ CloseDelete \/ ChannelDelete
  \/ MemberDeletes

\* What was started goes on, and the sweep comes around every hour.
FilesFairness ==
  /\ \A p \in {"turn", "clear", "backfill"} :
       /\ WF_vars(RehydrateOne(p)) /\ WF_vars(RehydrateDone(p))
       /\ WF_vars(Upload(p))
       /\ WF_vars(ArchiveSend(p)) /\ WF_vars(ArchiveRecord(p))
       /\ WF_vars(ArchiveDelete(p))
  /\ WF_vars(TurnSave) /\ WF_vars(TurnSaved) /\ WF_vars(TurnSent)
  /\ WF_vars(TurnEnd)
  /\ WF_vars(BackfillOne) /\ WF_vars(BackfillDone)
  /\ WF_vars(SweepClosed)
  /\ WF_vars(EraseObjects("close")) /\ WF_vars(EraseObjects("sweep"))

FilesSpec == FilesInit /\ [][FilesNext]_vars /\ FilesFairness

-----------------------------------------------------------------------------
(* Correctness.                                                            *)

Active == session = "active"

\* A key in the manifest is the key of an object that landed, whatever is sent
\* again, dropped, recorded anew or archived while uploads are in flight.
KeyedIsStored == Active => \A f \in key : objects[f] # 0

\* archiveSessionFiles deletes a message that a row names only beside a turn that
\* came on that message and recorded its files after the archive had looked
\* (archive.ts:186, watcher.ts:689); rehydrate drops a row whose message has the
\* file only if a process beside it named that message since (watcher.ts:759). The
\* file is in the workspace then, or on the message of the clear that named it.
OnlyTheGoneGo ==
  /\ \A p \in {"turn", "clear"} :
       ArchiveDelete(p) /\ Active =>
         \A m \in 1..clock, f \in Files :
           carried'[m] # carried[m] /\ msg[f] = m =>
             <<f, m>> \in late /\ f \in Cached
  /\ \A p \in {"turn", "clear", "backfill"} :
       RehydrateOne(p) =>
         \A f \in Recorded : msg'[f] = 0 /\ carried[msg[f]][f] # 0 =>
           /\ \E r \in list[p] : r.file = f /\ r.num # msg[f]
           /\ f \in Cached \/ msg[f] = sent["clear"]

\* Both together: every file of a session stays where its row says.
FilesKept == [][KeyedIsStored' /\ OnlyTheGoneGo]_vars

\* The directory of a closed session goes, however late a turn, a clear or a
\* backfill still writes to it.
ClosedDirGoes == ~Active ~> ~dir

=============================================================================
