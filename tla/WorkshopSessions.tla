--------------------------- MODULE WorkshopSessions ---------------------------
(***************************************************************************)
(* How workshop sessions begin and end (src/capabilities/workshop:         *)
(* watcher.ts, store.ts): a member clicks the reaction of the welcome      *)
(* message and gets a private channel; the panel, a tool or the console    *)
(* closes the session and deletes its channel; a moderator may delete the  *)
(* channel by hand.                                                        *)
(*                                                                         *)
(* The row of a session and its channel are two things that no transaction *)
(* covers: each is written while the other is awaited. The session's       *)
(* conversation is WorkshopTurns, its files are WorkshopFiles.             *)
(***************************************************************************)
EXTENDS Integers, FiniteSets

CONSTANTS
  Members,
  Rooms,        \* the channels Discord may create, each at most once
  MaxSessions,  \* maxSessionsPerUser
  Clicks,       \* bound: reactions handled at a time
  Closers,      \* bound: closings under way at a time
  MaxCrashes,   \* bound: crashes and requests whose answer is lost
  NoRoom, NoMember

ASSUME SessionsAssumption == MaxSessions \in Nat \ {0} /\ MaxCrashes \in Nat

VARIABLES
  room,      \* Discord's channels: "unused", "open" or "gone"
  status,    \* workshop_sessions.status, "none" without a row
  owner,     \* workshop_sessions.user_id
  creating,  \* members whose channel is being created, in memory
  click,     \* a reaction's handler: where it is, for whom, the channel it made
  closer,    \* a closing: where it is, of which session
  events,    \* ChannelDelete events not yet delivered
  stranded,  \* history: channels a crash, a lost answer or a deletion before
             \* the row was written left without their counterpart
  crashes

sessVars ==
  <<room, status, owner, creating, click, closer, events, stranded, crashes>>
rows == <<status, owner>>

IdleClick == [at |-> "idle", who |-> NoMember, room |-> NoRoom]
IdleCloser == [at |-> "idle", room |-> NoRoom]

WorkshopInit ==
  /\ room = [c \in Rooms |-> "unused"]
  /\ status = [c \in Rooms |-> "none"] /\ owner = [c \in Rooms |-> NoMember]
  /\ creating = {} /\ click = [k \in Clicks |-> IdleClick]
  /\ closer = [j \in Closers |-> IdleCloser]
  /\ events = {} /\ stranded = {} /\ crashes = 0

ActiveSessionsFor(m) == {c \in Rooms : status[c] = "active" /\ owner[c] = m}

-----------------------------------------------------------------------------
(* A reaction becomes a session.                                           *)

\* Altered: a second click of a member is handled beside the first.
FreeAlways(m) == m = m
Free(m) == m \notin creating

\* A click of a member whose channel is being created is dropped.
HandleReaction(k, m) ==
  /\ click[k].at = "idle" /\ Free(m)
  /\ creating' = creating \cup {m}
  /\ click' = [click EXCEPT ![k] = [at |-> "message", who |-> m, room |-> NoRoom]]
  /\ UNCHANGED <<room, rows, closer, events, stranded, crashes>>

ClickEnds(k) ==
  /\ click' = [click EXCEPT ![k] = IdleClick]
  /\ creating' = creating \ {click[k].who}

\* The welcome message was fetched: the limit is read here, and the channel
\* that is to count against it is awaited only now.
CheckLimit(k) ==
  /\ click[k].at = "message"
  /\ click' = [click EXCEPT ![k].at =
       IF Cardinality(ActiveSessionsFor(click[k].who)) >= MaxSessions
         THEN "limit" ELSE "channel"]
  /\ UNCHANGED <<room, rows, creating, closer, events, stranded, crashes>>

NoChannel(k) ==
  /\ click[k].at \in {"message", "channel", "limit"} /\ ClickEnds(k)
  /\ UNCHANGED <<room, rows, closer, events, stranded, crashes>>

\* Discord creates the channel before its answer reaches the handler.
CreateChannel(k, c) ==
  /\ click[k].at = "channel" /\ room[c] = "unused"
  /\ room' = [room EXCEPT ![c] = "open"]
  /\ click' = [click EXCEPT ![k].at = "made", ![k].room = c]
  /\ UNCHANGED <<rows, creating, closer, events, stranded, crashes>>

AnswerLost(k) ==
  /\ click[k].at = "made" /\ crashes < MaxCrashes /\ crashes' = crashes + 1
  /\ stranded' = stranded \cup {click[k].room} /\ ClickEnds(k)
  /\ UNCHANGED <<room, rows, closer, events>>

CreateSession(k) ==
  LET c == click[k].room IN
  /\ click[k].at = "made"
  /\ status' = [status EXCEPT ![c] = "active"]
  /\ owner' = [owner EXCEPT ![c] = click[k].who]
  /\ click' = [click EXCEPT ![k].at = "intro"]
  /\ UNCHANGED <<room, creating, closer, events, stranded, crashes>>

\* Introduction, panel and pin: what fails of them is skipped.
Introduced(k) ==
  /\ click[k].at = "intro" /\ ClickEnds(k)
  /\ UNCHANGED <<room, rows, closer, events, stranded, crashes>>

-----------------------------------------------------------------------------
(* A session is closed.                                                    *)

\* Somebody who may close it confirms; who it is has to be fetched.
Confirm(j, c) ==
  /\ closer[j].at = "idle" /\ status[c] = "active"
  /\ closer' = [closer EXCEPT ![j] = [at |-> "confirmed", room |-> c]]
  /\ UNCHANGED <<room, rows, creating, click, events, stranded, crashes>>

CloseRow(c) == status' = [status EXCEPT ![c] = "closed"] /\ UNCHANGED owner
CloserEnds(j) == closer' = [closer EXCEPT ![j] = IdleCloser]

\* The row is read again. A channel that is known to be gone only leaves its
\* row to close; else the goodbye is sent and five seconds pass.
ReadAgain(j) ==
  LET c == closer[j].room
      known == room[c] = "gone" /\ c \notin events
  IN  /\ closer[j].at = "confirmed"
      /\ IF status[c] # "active" \/ known
           THEN CloserEnds(j) ELSE closer' = [closer EXCEPT ![j].at = "waiting"]
      /\ IF status[c] = "active" /\ known THEN CloseRow(c) ELSE UNCHANGED rows
      /\ UNCHANGED <<room, creating, click, events, stranded, crashes>>

RemoveRoom(c) ==
  /\ room' = [room EXCEPT ![c] = "gone"]
  /\ events' = events \cup {c}

DeleteChannel(j) ==
  LET c == closer[j].room IN
  /\ closer[j].at = "waiting" /\ room[c] = "open" /\ RemoveRoom(c)
  /\ closer' = [closer EXCEPT ![j].at = "deleted"]
  /\ UNCHANGED <<rows, creating, click, stranded, crashes>>

\* No permission, or somebody else deleted it meanwhile: the row stays as it is.
DeleteFails(j) ==
  /\ closer[j].at = "waiting" /\ CloserEnds(j)
  /\ UNCHANGED <<room, rows, creating, click, events, stranded, crashes>>

MarkClosed(j) ==
  /\ closer[j].at = "deleted" /\ CloseRow(closer[j].room) /\ CloserEnds(j)
  /\ UNCHANGED <<room, creating, click, events, stranded, crashes>>

ModeratorDeletes(c) ==
  /\ room[c] = "open" /\ RemoveRoom(c)
  /\ UNCHANGED <<rows, creating, click, closer, stranded, crashes>>

\* Altered: only a session nobody is closing is marked.
HandledUnlessClosing(c) == status[c] = "active" /\ \A j \in Closers : closer[j].room # c
Handled(c) == status[c] = "active"

Making(c) == \E k \in Clicks : click[k].at = "made" /\ click[k].room = c

\* A channel whose row is still to be written keeps that row for good.
HandleChannelDelete(c) ==
  /\ c \in events /\ events' = events \ {c}
  /\ IF Handled(c) THEN CloseRow(c) ELSE UNCHANGED rows
  /\ stranded' = IF Making(c) THEN stranded \cup {c} ELSE stranded
  /\ UNCHANGED <<room, creating, click, closer, crashes>>

\* What the gateway did not deliver before the crash it never delivers.
Restart ==
  /\ crashes < MaxCrashes /\ crashes' = crashes + 1
  /\ creating' = {} /\ events' = {}
  /\ click' = [k \in Clicks |-> IdleClick] /\ closer' = [j \in Closers |-> IdleCloser]
  /\ stranded' = stranded \cup
       {c \in Rooms : \/ status[c] = "active" /\ room[c] = "gone"
                      \/ status[c] = "none" /\ room[c] # "unused"}
  /\ UNCHANGED <<room, rows>>

WorkshopNext ==
  \/ \E k \in Clicks, m \in Members : HandleReaction(k, m)
  \/ \E k \in Clicks : \/ CheckLimit(k) \/ NoChannel(k) \/ AnswerLost(k)
                       \/ CreateSession(k) \/ Introduced(k)
  \/ \E k \in Clicks, c \in Rooms : CreateChannel(k, c)
  \/ \E j \in Closers, c \in Rooms : Confirm(j, c)
  \/ \E j \in Closers : \/ ReadAgain(j) \/ DeleteChannel(j) \/ DeleteFails(j)
                        \/ MarkClosed(j)
  \/ \E c \in Rooms : ModeratorDeletes(c) \/ HandleChannelDelete(c)
  \/ Restart

WorkshopSpec == WorkshopInit /\ [][WorkshopNext]_sessVars

-----------------------------------------------------------------------------
(* Properties.                                                             *)

Recording(c) == \E j \in Closers : closer[j].at = "deleted" /\ closer[j].room = c

\* No member has more open sessions than allowed, however fast they click,
\* close and lose channels; and but for a crash, a lost answer or a deletion
\* before the row, an open private channel has its session (or its row is about
\* to be written), and an open session has its channel (or its end is about to
\* be noticed) (handleReaction, createSessionFor, closeSession,
\* handleChannelDelete).
SessionsAccounted ==
  /\ \A m \in Members : Cardinality(ActiveSessionsFor(m)) <= MaxSessions
  /\ \A c \in Rooms \ stranded :
       /\ room[c] = "open" => status[c] = "active" \/ Making(c)
       /\ status[c] = "active" /\ room[c] = "gone" => c \in events \/ Recording(c)
=============================================================================
