-------------------------- MODULE TranscriptCache --------------------------
(***************************************************************************)
(* What a turn reads of its channel: the transcripts kept in memory by     *)
(* src/discord/transcript-cache.ts, fed by the gateway's events, by pages  *)
(* fetched from Discord and by the fetches of edits whose text did not     *)
(* come with their event.                                                  *)
(*                                                                         *)
(* One channel, whose turns read one at a time (TurnQueue); what the other *)
(* channels do to it is that its entry is evicted. A message is its place  *)
(* in the channel, its text the number of its version. The limits of size  *)
(* and of age are one bound on the messages kept.                          *)
(***************************************************************************)
EXTENDS Naturals, Sequences, FiniteSets, FiniteSetsExt

CONSTANTS
  MaxPosts,     \* bound on the messages of the channel
  MaxVersions,  \* bound on the versions of a message
  PageSize,     \* messages in a page
  MaxPages,     \* CONTEXT_BACKFILL_PAGES
  Kept,         \* the limits of one channel, in messages
  MaxLag,       \* bound on the events on their way
  MaxLost       \* bound on the sessions of the gateway that are lost

ASSUME CacheAssumption ==
  /\ {MaxPosts, MaxVersions, PageSize, MaxPages, Kept} \subseteq Nat \ {0}
  /\ {MaxLag, MaxLost} \subseteq Nat

Posts == 1..MaxPosts
\* In place of a version: no such message; and what an event says of one that
\* was deleted, above every version.
Gone == 0
Deleted == MaxVersions + 1

VARIABLES
  posted,   \* the messages posted so far
  content,  \* Discord: the version of each message
  gateway,  \* events on their way to the bot
  online,   \* the gateway has a session
  told,     \* history: what the last event of each message said
  entry,    \* the entry of the channel in entries, or None
  partial,  \* partialFetches: how far the fetch of each message is
  reader,   \* the read that runs
  lost      \* sessions lost so far

discord == <<posted, content, gateway, online, lost>>
cacheVars == <<discord, told, entry, partial, reader>>

NoEntry == [exists |-> FALSE, text |-> [m \in Posts |-> Gone],
            loaded |-> FALSE, loading |-> FALSE, changes |-> {}]
NewEntry == [NoEntry EXCEPT !.exists = TRUE]
\* own: the entry it reads is the one in entries; page: what a page answered.
Idle == [step |-> "idle", before |-> 0, own |-> FALSE, low |-> 0, pages |-> 0,
         page |-> [m \in Posts |-> Gone]]
Nothing == [step |-> "none", version |-> Gone]

CacheInit ==
  /\ posted = 0 /\ content = [m \in Posts |-> Gone]
  /\ gateway = <<>> /\ online = TRUE /\ lost = 0
  /\ told = [m \in Posts |-> Gone]
  /\ entry = NoEntry /\ partial = [m \in Posts |-> Nothing]
  /\ reader = Idle

Holds(text) == {m \in Posts : text[m] # Gone}

-----------------------------------------------------------------------------
(* Discord.                                                                *)

\* full: the text comes with the event, else discord.js knows only the id.
Event(kind, m) == [kind |-> kind, message |-> m, version |-> content'[m]]
Announced(kind, m) ==
  /\ Len(gateway) < MaxLag
  /\ gateway' = IF online THEN Append(gateway, Event(kind, m)) ELSE gateway

MemberPosts ==
  /\ posted < MaxPosts /\ posted' = posted + 1
  /\ content' = [content EXCEPT ![posted'] = 1]
  /\ Announced("full", posted')
  /\ UNCHANGED <<online, lost, told, entry, partial, reader>>

MemberEdits(m) ==
  /\ content[m] \in 1..(MaxVersions - 1)
  /\ content' = [content EXCEPT ![m] = @ + 1]
  /\ \E kind \in {"full", "partial"} : Announced(kind, m)
  /\ UNCHANGED <<posted, online, lost, told, entry, partial, reader>>

MemberDeletes(m) ==
  /\ content[m] # Gone
  /\ content' = [content EXCEPT ![m] = Gone]
  /\ Announced("delete", m)
  /\ UNCHANGED <<posted, online, lost, told, entry, partial, reader>>

\* The session is lost with the events on their way, and cannot be resumed.
SessionLost ==
  /\ online /\ lost < MaxLost
  /\ online' = FALSE /\ gateway' = <<>> /\ lost' = lost + 1
  /\ UNCHANGED <<posted, content, told, entry, partial, reader>>

\* Its first event is the one of its start.
SessionStarts ==
  /\ ~online /\ online' = TRUE
  /\ gateway' = <<[kind |-> "ready", message |-> 0, version |-> Gone]>>
  /\ UNCHANGED <<posted, content, lost, told, entry, partial, reader>>

-----------------------------------------------------------------------------
(* The entry of the channel.                                               *)

Opened == IF entry.exists THEN entry ELSE NewEntry
\* The newest that fit.
Trim(e) ==
  [e EXCEPT !.text = [m \in Posts |->
     IF Cardinality({n \in Holds(e.text) : n >= m}) <= Kept THEN e.text[m] ELSE Gone],
   !.changes = IF e.loading THEN @ ELSE {}]

Update(m, version) ==
  entry' = Trim([Opened EXCEPT !.text[m] = version, !.changes = @ \cup {m}])
Removed(m) ==
  IF entry.exists
  THEN Trim([entry EXCEPT !.text[m] = Gone, !.changes = @ \cup {m}])
  ELSE entry

\* Out of entries: a reader keeps what it was given, and nothing changes it now.
Orphaned == [reader EXCEPT !.own = FALSE]

\* Altered: a new session keeps what was read in the one before.
ClearKeeps == UNCHANGED <<entry, partial, reader>>
Clear ==
  /\ entry' = NoEntry /\ partial' = [m \in Posts |-> Nothing]
  /\ reader' = Orphaned

RefreshPartial(m) ==
  /\ entry' = Removed(m)
  /\ partial' = [partial EXCEPT ![m] =
       IF entry.exists THEN [step |-> "asked", version |-> Gone] ELSE Nothing]

\* registerTranscriptCache: the handlers of the events, each one whole.
EventArrives ==
  /\ gateway # <<>> /\ gateway' = Tail(gateway)
  /\ LET e == Head(gateway) m == e.message IN
       \/ /\ e.kind = "full"
          /\ Update(m, e.version) /\ partial' = [partial EXCEPT ![m] = Nothing]
          /\ UNCHANGED reader
       \/ /\ e.kind = "partial" /\ RefreshPartial(m) /\ UNCHANGED reader
       \/ /\ e.kind = "delete"
          /\ entry' = Removed(m) /\ partial' = [partial EXCEPT ![m] = Nothing]
          /\ UNCHANGED reader
       \/ e.kind = "ready" /\ Clear
  /\ told' = IF Head(gateway).kind = "ready" THEN told
             ELSE [told EXCEPT ![Head(gateway).message] =
                     IF Head(gateway).kind = "delete" THEN Deleted
                     ELSE Head(gateway).version]
  /\ UNCHANGED <<posted, content, online, lost>>

\* The limits of all channels together, or too many changes during a load.
Evict ==
  /\ entry.exists
  /\ entry' = NoEntry /\ reader' = Orphaned
  /\ UNCHANGED <<discord, told, partial>>

\* Discord answers the fetch of an edited message, or it fails.
PartialServed(m) ==
  /\ partial[m].step = "asked"
  /\ \/ /\ content[m] # Gone
        /\ partial' = [partial EXCEPT ![m] = [step |-> "served", version |-> content[m]]]
     \/ partial' = [partial EXCEPT ![m] = Nothing]
  /\ UNCHANGED <<discord, told, entry, reader>>

\* A fetch that a later event overtook is no longer in partial.
PartialArrives(m) ==
  /\ partial[m].step = "served"
  /\ Update(m, partial[m].version)
  /\ partial' = [partial EXCEPT ![m] = Nothing]
  /\ UNCHANGED <<discord, told, reader>>

-----------------------------------------------------------------------------
(* TranscriptCache.read.                                                   *)

\* For the turn of a message, at any time after it was posted; checks access.
ReadStarts(before) ==
  /\ reader.step = "idle" /\ before <= posted
  /\ reader' = [Idle EXCEPT !.step = "access", !.before = before]
  /\ UNCHANGED <<discord, told, entry, partial>>

\* The check of access or the request of a page fails, before or after a load.
ReadFails ==
  /\ reader.step \in {"access", "page", "recheck"}
  /\ reader' = Idle
  /\ entry' = IF reader.step = "page" /\ reader.own
              THEN Trim([entry EXCEPT !.loading = FALSE]) ELSE entry
  /\ UNCHANGED <<discord, told, partial>>

Accessed ==
  /\ reader.step = "access"
  /\ IF Opened.loaded
     THEN /\ entry' = Opened
          /\ reader' = [reader EXCEPT !.step = "recheck", !.own = TRUE]
     ELSE /\ entry' = [Opened EXCEPT !.loading = TRUE]
          /\ reader' = [reader EXCEPT !.step = "page", !.own = TRUE, !.low = reader.before]
  /\ UNCHANGED <<discord, told, partial>>

\* The newest messages before the cursor, as Discord has them now.
PageServed ==
  /\ reader.step = "page"
  /\ LET older == {m \in Posts : m < reader.low /\ content[m] # Gone}
         page  == {m \in older : Cardinality({n \in older : n >= m}) <= PageSize}
     IN  reader' = [reader EXCEPT !.step = "batch", !.pages = @ + 1,
           !.page = [m \in Posts |-> IF m \in page THEN content[m] ELSE Gone]]
  /\ UNCHANGED <<discord, told, entry, partial>>

Takes(m) == m \notin entry.changes

WithPage ==
  [entry EXCEPT !.text = [m \in Posts |->
     IF reader.page[m] # Gone /\ Takes(m) THEN reader.page[m] ELSE entry.text[m]]]

\* The load ends: with the last page, enough messages, or enough pages. A reader
\* whose entry is no longer the channel's throws, after the load it shares.
LastPage ==
  \/ Cardinality(Holds(reader.page)) < PageSize
  \/ Cardinality(Holds(WithPage.text)) >= Kept
  \/ reader.pages = MaxPages

PageArrives ==
  /\ reader.step = "batch" /\ reader.own
  /\ IF LastPage
     THEN /\ entry' = Trim([WithPage EXCEPT !.loaded = TRUE, !.loading = FALSE])
          /\ reader' = [reader EXCEPT !.step = "recheck"]
     ELSE /\ entry' = WithPage
          /\ reader' = [reader EXCEPT !.step = "page", !.low = Min(Holds(reader.page))]
  /\ UNCHANGED <<discord, told, partial>>

Invalidated ==
  /\ reader.step \in {"page", "batch"} /\ ~reader.own
  /\ reader' = Idle
  /\ UNCHANGED <<discord, told, entry, partial>>

\* Access is still given: the turn gets its window.
ReadReturns ==
  /\ reader.step = "recheck"
  /\ reader' = Idle
  /\ UNCHANGED <<discord, told, entry, partial>>

CacheNext ==
  \/ MemberPosts
  \/ \E m \in Posts : MemberEdits(m) \/ MemberDeletes(m)
  \/ SessionLost \/ SessionStarts \/ EventArrives \/ Evict
  \/ \E m \in Posts : PartialServed(m) \/ PartialArrives(m)
  \/ \E m \in Posts : ReadStarts(m)
  \/ Accessed \/ PageServed \/ PageArrives \/ Invalidated \/ ReadReturns \/ ReadFails

CacheSpec == CacheInit /\ [][CacheNext]_cacheVars

-----------------------------------------------------------------------------
(* Properties.                                                             *)

\* What the gateway said is never undone by an answer that was under way: no
\* page and no fetch brings back a deleted message or an older version than its
\* last event (registerTranscriptCache: "authoritative over an overlapping REST
\* load").  Once every event has been handled, whatever sessions were lost with
\* all that was deleted in between, the cache shows nothing that Discord no
\* longer shows (ShardReady: "a removed message could live on in ambient
\* context").
CacheTruthful ==
  \A m \in Holds(entry.text) :
    /\ entry.text[m] >= told[m]
    /\ online /\ gateway = <<>> => entry.text[m] = content[m]
=============================================================================
