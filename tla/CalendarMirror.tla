--------------------------- MODULE CalendarMirror ---------------------------
(***************************************************************************)
(* What Discord shows of one calendar row: the scheduled event members     *)
(* sign up to and the month card of the output channel, which the tool's   *)
(* handlers bring up to date after each write.                             *)
(* src/capabilities/calendar/{source,discord-events,publisher}.ts.         *)
(*                                                                         *)
(* A caller is a turn whose tool call is running; code between two awaits  *)
(* is one step.  The content of a row is all that its event would show.    *)
(***************************************************************************)
EXTENDS Integers, Sequences, FiniteSets

CONSTANTS
  Callers,
  Contents,       \* what a row says of its next session
  Past,           \* the content of a row that has none in the future
  MaxWrites,      \* bound on tool calls
  MaxTroubles,    \* bound on failed requests and restarts
  MaxHands        \* bound on what moderators do to the events by hand

ASSUME MirrorAssumption ==
  /\ Past \notin Contents /\ "gone" \notin Contents \cup {Past} /\ Callers # {}
  /\ {MaxWrites, MaxTroubles, MaxHands} \subseteq Nat

VARIABLES
  entry,          \* the row of calendar_events
  link,           \* its discord_event_id, 0 when null
  scheduled,      \* the guild's scheduled events, by id
  board,          \* the cards of the output channel, by id
  tracked,        \* the card of calendar_published, 0 when there is none
  callers,
  used            \* what is used of the bounds; history: two calls ran together

mirrorVars == <<entry, link, scheduled, board, tracked, callers, used>>

Gone == "gone"
Shown == Contents \cup {Past}
Idle == [pc |-> "idle", then |-> "none", id |-> 0, seen |-> Gone]

MirrorInit ==
  /\ entry \in Contents
  /\ link = 0 /\ scheduled = <<>>
  /\ board = <<>> /\ tracked = 0
  /\ callers = [c \in Callers |-> Idle]
  /\ used = [writes |-> 0, troubles |-> 0, hands |-> 0, together |-> FALSE]

Live(id) == id # 0 /\ scheduled[id].live
LiveWith(k) == {id \in 1..Len(scheduled) : Live(id) /\ scheduled[id].content = k}

At(c, pc) == callers[c].pc = pc
Proceed(c, pc) == callers' = [callers EXCEPT ![c].pc = pc]
End(c) == callers' = [callers EXCEPT ![c] = Idle]
Trouble == used.troubles < MaxTroubles /\ used' = [used EXCEPT !.troubles = @ + 1]

\* Once the board is published the handler goes on with then.
Afterwards(c) == IF callers[c].then = "none" THEN End(c) ELSE Proceed(c, callers[c].then)

-----------------------------------------------------------------------------
(* The handlers write, publish the board and then see to the event.        *)

Begin(c, pc, then) ==
  /\ At(c, "idle")
  /\ used.writes < MaxWrites
  /\ used' = [used EXCEPT !.writes = @ + 1,
                          !.together = @ \/ \E d \in Callers \ {c} : ~At(d, "idle")]
  /\ callers' = [callers EXCEPT ![c] = [Idle EXCEPT !.pc = pc, !.then = then]]

\* handleUpdate, and handleDelete of one session or of the following ones.
UpdateEvent(c, k) ==
  /\ entry # Gone
  /\ Begin(c, "publish", "refresh")
  /\ entry' = k
  /\ UNCHANGED <<link, scheduled, board, tracked>>

\* handleSetSessionTheme: an event that is not there yet is made.
SetTheme(c, k) ==
  /\ entry # Gone
  /\ Begin(c, "publish", "ensure")
  /\ entry' = k
  /\ UNCHANGED <<link, scheduled, board, tracked>>

\* Altered: the row is deleted first.
DeleteRowFirst(c) ==
  /\ entry # Gone
  /\ Begin(c, "publish", "remove")
  /\ entry' = Gone /\ link' = 0
  /\ UNCHANGED <<scheduled, board, tracked>>

\* handleDelete of the whole row: its event goes first.
DeleteEvent(c) ==
  /\ entry # Gone
  /\ Begin(c, "remove", "none")
  /\ UNCHANGED <<entry, link, scheduled, board, tracked>>

\* handleSyncDiscordEvent.
SyncEvent(c) ==
  /\ Begin(c, "sync", "none")
  /\ UNCHANGED <<entry, link, scheduled, board, tracked>>

\* handlePublishAll, or the watcher that turns the month.
PublishAll(c) ==
  /\ Begin(c, "publish", "none")
  /\ UNCHANGED <<entry, link, scheduled, board, tracked>>

-----------------------------------------------------------------------------
(* OutputChannelPublisher.reconcile.                                       *)

\* The channel is there: the rows are read and then drawn.
ReadRows(c) ==
  /\ At(c, "publish")
  /\ callers' = [callers EXCEPT ![c].pc = "draw", ![c].seen = entry]
  /\ UNCHANGED <<entry, link, scheduled, board, tracked, used>>

\* sendOrEdit: the tracked card is edited in place.
EditCard(c) ==
  /\ At(c, "draw")
  /\ tracked # 0
  /\ board' = [board EXCEPT ![tracked] = callers[c].seen]
  /\ Afterwards(c)
  /\ UNCHANGED <<entry, link, scheduled, tracked, used>>

\* There is none, or it cannot be edited, which also forgets it.
SendCard(c) ==
  /\ At(c, "draw")
  /\ IF tracked = 0 THEN UNCHANGED used ELSE Trouble
  /\ board' = Append(board, callers[c].seen)
  /\ tracked' = 0
  /\ callers' = [callers EXCEPT ![c].pc = "track", ![c].id = Len(board) + 1]
  /\ UNCHANGED <<entry, link, scheduled>>

TrackCard(c) ==
  /\ At(c, "track")
  /\ tracked' = callers[c].id
  /\ Afterwards(c)
  /\ UNCHANGED <<entry, link, scheduled, board, used>>

\* A failure is reported and does not keep the handler from going on.
PublishFails(c) ==
  /\ callers[c].pc \in {"publish", "draw"}
  /\ Trouble
  /\ Afterwards(c)
  /\ UNCHANGED <<entry, link, scheduled, board, tracked>>

-----------------------------------------------------------------------------
(* createEventSyncer: the row is read when the call begins.                *)

\* ensureDiscordEventSynced.
Ensure(c) ==
  /\ At(c, "ensure")
  /\ IF entry = Gone THEN End(c) ELSE Proceed(c, IF link = 0 THEN "sync" ELSE "refresh")
  /\ UNCHANGED <<entry, link, scheduled, board, tracked, used>>

Look(c, pc) == callers' = [callers EXCEPT ![c] = [@ EXCEPT !.pc = pc, !.id = link, !.seen = entry]]

RefreshStart(c) ==
  /\ At(c, "refresh")
  /\ IF entry = Gone \/ link = 0 THEN End(c) ELSE Look(c, "fetch")
  /\ UNCHANGED <<entry, link, scheduled, board, tracked, used>>

\* fetchScheduledEvent: null for an event that is over or deleted, and also
\* when the request fails.
Fetched(c, found) ==
  IF found THEN Live(callers[c].id) /\ UNCHANGED used
  ELSE IF Live(callers[c].id) THEN Trouble ELSE UNCHANGED used

\* The link is taken for stale, or there may be something to change.
RefreshFetched(c, found) ==
  /\ At(c, "fetch")
  /\ Fetched(c, found)
  /\ link' = IF found THEN link ELSE 0
  /\ IF found /\ callers[c].seen # Past THEN Proceed(c, "edit") ELSE End(c)
  /\ UNCHANGED <<entry, scheduled, board, tracked>>

\* Nothing to change, or the edit, which fails for an event that is gone.
EditEvent(c) ==
  /\ At(c, "edit")
  /\ scheduled' = IF Live(callers[c].id)
                  THEN [scheduled EXCEPT ![callers[c].id].content = callers[c].seen]
                  ELSE scheduled
  /\ End(c)
  /\ UNCHANGED <<entry, link, board, tracked, used>>

SyncStart(c) ==
  /\ At(c, "sync")
  /\ IF entry = Gone THEN End(c) ELSE Look(c, IF link = 0 THEN "match" ELSE "known")
  /\ UNCHANGED <<entry, link, scheduled, board, tracked, used>>

\* An event that is live is the one: its link stays.  Otherwise it is stale.
SyncFetched(c, found) ==
  /\ At(c, "known")
  /\ Fetched(c, found)
  /\ link' = IF found THEN link ELSE 0
  /\ IF found THEN End(c) ELSE Proceed(c, "match")
  /\ UNCHANGED <<entry, scheduled, board, tracked>>

\* The events at that time with that title.
Matches(c) == LiveWith(callers[c].seen)

\* One match is adopted, several are left to the moderators.
MatchEvent(c) ==
  /\ At(c, "match")
  /\ IF callers[c].seen # Past /\ Cardinality(Matches(c)) = 0
     THEN Proceed(c, "create") ELSE End(c)
  /\ link' = IF callers[c].seen # Past /\ Cardinality(Matches(c)) = 1
             THEN CHOOSE id \in Matches(c) : TRUE ELSE link
  /\ UNCHANGED <<entry, scheduled, board, tracked, used>>

\* createScheduledEvent answers with the new event ...
MintEvent(c) ==
  /\ At(c, "create")
  /\ scheduled' = Append(scheduled, [content |-> callers[c].seen, live |-> TRUE, by |-> "bot"])
  /\ callers' = [callers EXCEPT ![c].pc = "link", ![c].id = Len(scheduled) + 1]
  /\ UNCHANGED <<entry, link, board, tracked, used>>

\* ... and its id is remembered.
LinkEvent(c) ==
  /\ At(c, "link")
  /\ link' = IF entry = Gone THEN link ELSE callers[c].id
  /\ End(c)
  /\ UNCHANGED <<entry, scheduled, board, tracked, used>>

\* remove reads the link; a row without one is deleted at once.
RemoveStart(c) ==
  /\ At(c, "remove")
  /\ IF entry = Gone THEN End(c) ELSE Look(c, IF link = 0 THEN "drop" ELSE "unlink")
  /\ UNCHANGED <<entry, link, scheduled, board, tracked, used>>

RemoveFetched(c, found) ==
  /\ At(c, "unlink")
  /\ Fetched(c, found)
  /\ link' = IF found THEN link ELSE 0
  /\ Proceed(c, IF found THEN "cancel" ELSE "drop")
  /\ UNCHANGED <<entry, scheduled, board, tracked>>

CancelEvent(c) ==
  /\ At(c, "cancel")
  /\ scheduled' = [scheduled EXCEPT ![callers[c].id].live = FALSE]
  /\ link' = 0
  /\ Proceed(c, "drop")
  /\ UNCHANGED <<entry, board, tracked, used>>

\* Whatever came of that, the row is deleted and the board published.
DropRow(c) ==
  /\ At(c, "drop")
  /\ entry' = Gone /\ link' = 0
  /\ Proceed(c, IF entry = Gone THEN "idle" ELSE "publish")
  /\ UNCHANGED <<scheduled, board, tracked, used>>

\* The request fails, which is reported: a cancellation is followed by the
\* deletion all the same.
AfterFailure(c) == IF At(c, "cancel") THEN Proceed(c, "drop") ELSE End(c)

RequestFails(c) ==
  /\ callers[c].pc \in {"edit", "match", "create", "cancel"}
  /\ Trouble
  /\ AfterFailure(c)
  /\ UNCHANGED <<entry, link, scheduled, board, tracked>>

-----------------------------------------------------------------------------
(* The world.                                                              *)

Hand == used.hands < MaxHands /\ used' = [used EXCEPT !.hands = @ + 1]

HandMakes(k) ==
  /\ Hand
  /\ scheduled' = Append(scheduled, [content |-> k, live |-> TRUE, by |-> "hand"])
  /\ UNCHANGED <<entry, link, board, tracked, callers>>

HandDeletes(id) ==
  /\ Hand
  /\ Live(id)
  /\ scheduled' = [scheduled EXCEPT ![id].live = FALSE]
  /\ UNCHANGED <<entry, link, board, tracked, callers>>

MirrorRestart ==
  /\ Trouble
  /\ \E c \in Callers : ~At(c, "idle")
  /\ callers' = [c \in Callers |-> Idle]
  /\ UNCHANGED <<entry, link, scheduled, board, tracked>>

MirrorCall(c) ==
  \/ \E k \in Shown : UpdateEvent(c, k) \/ SetTheme(c, k)
  \/ DeleteEvent(c) \/ SyncEvent(c) \/ PublishAll(c)

Publishing(c) == ReadRows(c) \/ EditCard(c) \/ SendCard(c) \/ TrackCard(c) \/ PublishFails(c)

Syncing(c) ==
  \/ Ensure(c) \/ RefreshStart(c) \/ SyncStart(c) \/ RemoveStart(c)
  \/ \E found \in BOOLEAN :
       RefreshFetched(c, found) \/ SyncFetched(c, found) \/ RemoveFetched(c, found)
  \/ EditEvent(c) \/ MatchEvent(c) \/ MintEvent(c) \/ LinkEvent(c)
  \/ CancelEvent(c) \/ DropRow(c) \/ RequestFails(c)

World ==
  \/ \E k \in Contents : HandMakes(k)
  \/ \E id \in 1..Len(scheduled) : HandDeletes(id)
  \/ MirrorRestart

MirrorNext == World \/ \E c \in Callers : MirrorCall(c) \/ Publishing(c) \/ Syncing(c)

MirrorSpec == MirrorInit /\ [][MirrorNext]_mirrorVars

-----------------------------------------------------------------------------
(* Properties.                                                             *)

\* The bot never makes a second list for the same session while one that it
\* made is live, whatever failed or was cut short between making an event and
\* remembering it.
MintsNoSecond ==
  \A c \in Callers :
    MintEvent(c) => \A id \in LiveWith(callers[c].seen) : scheduled[id].by = "hand"
NoSecondList == [][MintsNoSecond]_mirrorVars

Quiet == \A c \in Callers : At(c, "idle")

\* Once every call is over, and unless a request failed or two calls ran
\* together, the event of the row and the card show what the row says, and no
\* event of the bot is left without the row: an edit that leaves the row without
\* a future session leaves its event as it was.
MirrorCurrent ==
  Quiet /\ used.troubles = 0 /\ ~used.together =>
    /\ link # 0 /\ Live(link) => entry = Past \/ scheduled[link].content = entry
    /\ \A id \in 1..Len(scheduled) : Live(id) /\ scheduled[id].by = "bot" => id = link
    /\ tracked # 0 => board[tracked] = entry

\* Both together: one list per session, and it shows the session, for as long as
\* no call begins while another runs. Nothing in the code keeps them apart: what
\* two calls that run together do is NoSecondList of two callers.
OneTrueList == [][MirrorCurrent' /\ (~used.together => MintsNoSecond)]_mirrorVars

=============================================================================
