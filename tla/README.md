# TLA+ verification of ChopperBot

ChopperBot is a Discord bot: one Node process, one gateway connection, a
language model behind an HTTP API, SQLite for what must last. It answers
mentions, keeps *talleres* (workshops: private channels in which a member and
the model work on files), scans uploads with VirusTotal, follows Instagram
accounts, runs a calendar with announcements, turns ticket forms into events,
lets moderators act on members and records voice meetings into minutes.

JavaScript runs one callback at a time, so between two `await`s a handler is
atomic. What is hard in this program happens *at* the awaits: a handler reads a
row, a map or a list, waits for Discord, the model or a disk, and goes on with
what it read while other handlers ran, a timer fired or the process died. The
modules here model each handler as the steps between its awaits; SQLite calls
are synchronous (`better-sqlite3`) and belong to the step that makes them.

Source paths below are relative to `src/src/` of the repository.
`PROJECT.json` lists every component with its sources, every run, theorem and
finding, every hazard at the line where it bites, and for each definition the
lines it models.

## 1. Inventory

| component | state | what is hard | module |
|---|---|---|---|
| LLM gate (`llm/gate.ts`) | running count, waiters | hand-over of a slot against new arrivals | Semaphore |
| turn queue (`discord/turn-queue.ts`) | tails, depths, total, gate | clean-up of an old turn after a newer one chained; the limit | TurnQueue, TurnOrder |
| workshop turns (`workshop/watcher.ts`) | abort flags | a newer message supersedes a queued or running one | WorkshopTurns |
| mention turns (`discord/{handlers,error-replies}.ts`) | queue, error cooldown | delivery happens outside the queue | MentionTurns |
| LLM loop (`llm/client.ts`, `tools/source.ts`) | conversation, tool cache, retries | four nested retry mechanisms around tools with effects | AskLoop |
| LLM health, process (`llm/health.ts`, `lifecycle.ts`, `app.ts`) | failure streak, marker files | crash between two files; alerts whose memory dies | ProcessWatch |
| presenter (`discord/{presenter,status-*}.ts`) | status line, reaction, timers | requests nobody awaits, lost answers | TurnPresentation |
| transcript cache (`discord/transcript-cache.ts`) | entry, revisions, loads | pages and fetches against gateway events, lost sessions | TranscriptCache |
| moderation (`moderation/{store,trail}.ts`) | trail of rows | limits counted from rows, unknown outcomes | ModerationTrail |
| workshop sessions (`workshop/{watcher,store}.ts`) | rows, channels | a limit read before an await; row and channel written apart | WorkshopSessions |
| workshop context (`workshop/{history,compact,store}.ts`) | clear mark, summary, watermark | compaction in the background against a clear | WorkshopContext |
| workshop files (`workshop/{storage,workspace,archive,watcher}.ts`) | local copy, row, carrier message, object | four copies updated over many awaits, each of which may fail | WorkshopFiles |
| file scanner (`file_scanner/*`) | call queue, spacing, budget, verdicts | bounded queue shared by jobs of several calls, restarts | FileScanner |
| announcements (`calendar/{announcer,broadcast*,source,store}.ts`) | leases, receipts, drafts | two senders and a ledger that is not atomic with Discord | Broadcast |
| one post (`calendar/{announcer,broadcast-channels}.ts`) | copies in the channel | a transport that repeats requests | AnnounceSweep |
| daily pass (`calendar/{announcer,announce,match}.ts`) | links, nudges | lists read before awaits; overlapping passes | DailyPass |
| event and card of a row (`calendar/{discord-events,publisher,source}.ts`) | link, card | outside effect before its record | CalendarMirror |
| board of the months (`calendar/publisher.ts`) | cards, template alerts | two passes, the turn of the month, a new channel | MonthBoard |
| series (`calendar/{recurrence,ics,store,source}.ts`) | rows, overrides | edits of part of a series; another program's expansion | CalendarSeries |
| Instagram feed (`instagram_monitor/{scheduler,store}.ts`) | anchor, seen posts | verdicts that are missing, polls in flight against commands | InstagramFeed |
| Instagram gates (`scheduler.ts`, `fetcher.ts`) | budget, cooldowns, kill-switch | awaited notices, restarts | InstagramGates |
| Instagram cadence (`scheduler.ts`, `store.ts`) | intervals, due times | starvation, bursts after an outage | InstagramCadence |
| Instagram fetchers (`fetcher.ts`, `browser-fetcher.ts`) | browser, id, hints | idle timer against a poll, failing set-ups | InstagramFetch |
| fetch health (`fetch-health.ts`) | outage record | written back after an await | FetchHealth |
| event intake (`event_intake/*`) | ticket, flyer job, cover | handlers of one ticket without a queue | EventIntake |
| voice sessions (`minutas/{session,pipeline,capability}.ts`) | recordings, status | 20 s between check and record, restarts | MinutasSessions |
| transcription (`minutas/{live,pipeline}.ts`) | batches, ledger | a worker that is drained while it runs | LiveTranscriber |
| tables (`memory/migrations.ts`, the stores) | schema, version | statements that cannot run twice | SchemaMigrations |
| registry, console (`app.ts`, `capabilities/{routing,registry,configuration}`) | bindings, router, settings | three sources that must agree over restarts | Routing |

How they interact. A gateway event reaches `registerHandlers` (mentions) or the
listener of the capability that owns the channel (workshop, intake, scanner,
transcript cache). Mentions and workshop messages go through the *same*
`TurnQueue`, which runs a channel's turns in order and at most `Limit` turns at
a time. A turn calls `ask()`, whose requests pass the LLM gate and whose tools
call the stores. Timers run sweeps, backfills, the Instagram tick, the announcer
and the watcher of the month. Each capability owns its tables; tools of the
console write the rows that timers read.

Not modelled: workshop tools, sandbox, document index and skills; settings and
texts of the scanner; reading of history, audiences and turn context; storage
drivers; attachments; language checks; scripts and deployment (section 7).

## 2. Modules

A component's module has its state, one action per handler, step or timer, its
invariants and, before each altered definition, a comment that starts with
*Altered*: a plausible bug of the definition that follows. For each property one
of them makes TLC find a counterexample, so none holds for lack of anything that
could break it. Constants are the settings and the sets of the program;
`...Assumption` says what the code or its settings guarantee of them.

Most components share no state. An `MC*` module puts several of them side by
side: its variable `part` picks one, and a behaviour of the run is a behaviour
of that one. Where components do share state, modules extend each other:

* **TurnQueue** EXTENDS **Semaphore**, its gate. **WorkshopTurns** and
  **MentionTurns** EXTEND TurnQueue and drive it as the program does;
  **TurnOrder** is the abstract promise that TurnQueue implements
  (`ImplementsOrder`, a property of MentionTurns' run and a theorem).
* Everywhere else the border is drawn at what one side takes for granted of the
  other, and the other side checks it: Broadcast posts in one step what
  AnnounceSweep posts over a repeating transport; DailyPass announces in one
  step what Broadcast reserves, sends and records; InstagramGates charges polls
  what InstagramFetch shows that they cost; MonthBoard keeps messages whose
  content CalendarMirror follows; MinutasSessions finalizes in steps what
  LiveTranscriber transcribes.

### Turns

**Semaphore.** `holders` is the set of tasks inside `run`, `active` the code's
counter and `waiters` its array. `TakeSlot` and `Wait` are the synchronous part
of `run`, `Release` its `finally`, which hands the slot to the first waiter
without lowering the count.

**TurnQueue.** `stage` follows a turn: absent, rejected, chained (awaits
`prior`), entered (inside `gate.run`), settled, done. Entering the gate, the end
of the task and the `finally` are promise reactions and steps of their own: a
new call may fall between any two.

**WorkshopTurns** adds the abort flags, named by their message, the outcome of
each message, what is posted and, as history, the `newest` message of each channel.
`handleMessage` up to the queue is one step: supersession (`watcher.ts:381-384`) and
admission happen together. The effects after a reply are a step that may throw
(`FinishFails`). **MentionTurns** has the intake, the queued turn with the replies it
reads, the delivery outside the queue, and the catch around both with its own reply
(`Report`); `ErrorReplyGuard` is the set of channels that are muted.

**AskLoop** is one `ask()`: the conversation as the sequence of message kinds
with the ids of tool calls, the tool cache, the iteration and retry counters. The
provider answers every request in every way the code distinguishes: text,
nothing, tool calls (malformed, unparsable, repeated), no choices, no message,
degenerate output, refusal, error.

**TurnPresentation** is what one turn shows: the chain of reactions (`reactor`),
or the status line with its timers, the edits on their way (`wire`), what the
channel shows (`line`, `copies`, `sorry`, `reacted`) and, as history, which
requests failed and which of those were carried out all the same.

**ProcessWatch** is a boot: the marker file, the boot stamp, the login attempts,
the handlers of the signals (`Install`), before which a signal ends the process as a
crash would, the shutdown, whose marker may fail to be written (`ShutdownUnmarked`),
the crash notice, and the streak of failures of the model with its alerts.

### Channels

**TranscriptCache** is one channel: `content` is what Discord shows, `gateway`
the events on their way, `entry` the cached transcript, `reader` a read with its
pages, `partial` the fetches of edits that came without text, `told` what the
last event of each message said. A session of the gateway may be lost.

**ModerationTrail** keeps a row per trigger, what the turn of each message is
doing, and how often Discord did what was asked, answered or not.

### Workshop

**WorkshopSessions**: the reaction's handler, the closings from panel, tool and
console, channels deleted by hand, and a crash between channel and row;
`stranded` remembers which channels and rows lost their counterpart.

**WorkshopContext**: a message is the instant at which it was posted. `row` is
the session row with its clear mark, summary (a set of messages) and watermark
`covers`; `snap` is the row each message read on arrival, `read` what the
running turn took from the history, `job` the compaction in flight, `purging` a
Limpiar press whose purge has not run. `Fetches` are the numbers of messages that the
pages may hold before one fails or their bound is reached (`history.ts:117-129`),
`Transcripts` those that fit in a compaction's transcript (`compact.ts:56`). `gap`, as
history of a row, is what its compactions passed over themselves.

**WorkshopFiles**: for each file its version in the workspace, its row (`msg`,
`key`), the versions each message carries, the object in the store. Each process
(turn, clear of the panel, backfill, sweep, close) is a program counter with the
locals the code keeps over its awaits; they overlap freely, but for the sweep
(section 3). Store and Discord
may fail at each call (`Lossy`); members delete messages. `recent` are the processes
that began before or during the last turn, `late` the files that `saveUploads`
recorded on a message an archive had already resolved to delete.

### Calendar

**Broadcast**: one occurrence and all who may announce it. `ledger` holds the
delivery row of each channel (a lease while its receipt is 0) and the daily
receipt; each transaction of `store.ts` is an operator. A post is its place in
`channel`. `thread` names the turn that keeps the JavaScript thread through the
loop of `postParkedDraft`. `turns[h].at` and `passes[p].at` are the clocks the
code reads once. `delivered` and `waived` are history.

**AnnounceSweep**: mark the end of the channel, send, look at what landed, keep
the oldest copy, delete the rest, with lost answers, failing looks and deletions
and other messages of the bot. **DailyPass**: two runs of the pass over sessions
and scheduled events that appear, vanish and are linked meanwhile.

**CalendarMirror**: one row (`entry`), its `link`, the guild's scheduled events,
the card that is tracked, and the callers: each tool call writes, publishes, then
refreshes, ensures or removes the event; `used.together` remembers that two calls ran
at the same time. **MonthBoard**: the cards of the output
channel and their rows through passes of the watcher and of a turn.
**CalendarSeries**: rows with rule, anchor, cut-off and overrides; `Board` says
which sessions a row stands for on the board, `File` what the file says to a
client that reads it by RFC 5545 (`ClientDates`), over a calendar in which an
instant is a slot. `CountedAlike` are the rows whose weeks both count alike;
`Shortened` and `Astray` are the two differences that the others still have.
`SeriesAssumption` takes any months of 28 to 31 days and any
rules of the four frequencies.

**FileScanner**: one handler per message with attachments, the limiter's chain,
the stored request times, the verdict cache. Time is kept as ages that saturate
where the code stops comparing them. A restart forgets what lives in memory.

### Instagram

**InstagramFeed**: the account's row with its anchor, the poll over its window of
the `Media`, verdicts, cards in the `Outlets`, the posts `onRecord` and the cards that
a crash left `unrecorded`. **InstagramGates**: tick, budget in memory
and in the table, cooldowns, kill-switch and its awaited notice.
**InstagramCadence**: intervals, stretch, due ticks, one account a tick, the
paced return of the fleet; `waits` counts the ticks an account was certainly due.
**InstagramFetch**: the ways to the feed over HTTP and with a browser, request
by request. **FetchHealth**: the outage record and the notices in flight; a notice
is posted (`NoticePosted`) before its answer is written (`NoticeRecorded`), and the
answer may be lost (`fetch-health.ts:125-130`).

### Tickets, minutes, tables, console

**EventIntake**: the ticket's row, what each handler awaits with its locals,
the status each card shows, the calendar rows with their events. The watcher's
tools create, sync (`ModSyncsEvent`) and delete events, its turn may throw after them
(`TurnThrows`), and a flyer may not resolve to an image (`ResolveFlyer`). `missed` are
the events whose flyer was at hand when a step of the code left them without it.
**MinutasSessions**: joins of one guild to the published minutes.
**LiveTranscriber**: the bursts on disk, the worker's batches, the drain, the
finalization's own batches and its ledger. **SchemaMigrations**: a database left
by any earlier release, started by newer and newer ones, with crashes between
any two transactions; a table is its set of columns. **Routing**: registration
or skipping of capabilities, bindings, router, one setting of each kind, the
console's orders and the purge.

## 3. Runs

Each run ends within five minutes with two workers; its configuration and
bounds are in the `.cfg` named in `PROJECT.json`. `CHECK_DEADLOCK FALSE` appears
because every instance ends once its bounded messages and events have happened,
and the program, rightly, waits for more.

| run | properties |
|---|---|
| `turns` | NewestNeverDropped, AnswersInOrder, WatchTruthful, NothingLeftBehind, BoardKept, MinutesPostedOnce, OpenJobShowsOpen; EveryMessageSettles, MonthComes, EverySessionSettles, DecisionsStand |
| `workshop` | SessionsAccounted, SummaryExact, SchemaWhole, OperatorsObeyed; FilesKept, ClosedDirGoes |
| `announcements` | DailyFollowsDelivery, SweptClean, ModeratorsToldTruly, ConversationAccepted, NoCallRunsTwice, RequestsBounded; SendsApart, NoReplay, OneTrueList |
| `workers` | PlanWellSpent, TranscribedExactly; SeriesReadAlike, EveryUploadAnswered, FinishedSpeechIsTranscribed |
| `channels` | CacheTruthful, ReadsInOrder, TrailTruthful, PollsPaced, RecoveryOwed, ReadsAccounted; ImplementsOrder, EachPostOnce, PollingBounded |

(Invariants before the semicolon, action and temporal properties after it. What
each says in full is the comment before its definition.)

Bounds, and the cases they are chosen for:

* `turns`. Three messages of one channel, one slot, `MaxQueued` 1: a turn that
  runs, one that waits and one that is over the limit, so that a tail, a flag or
  a counter can be wrong. Three boots, threshold 3, cooldown and window 2 on a clock
  of 5, two logins: an outage that outlives a cooldown, a crash loop inside a window.
  Three changes of progress, a reply of two chunks, two requests that fail: an edit
  that overlaps the end, both the edit and the fallback post lost. Three months of
  which the second has a template, two output channels, two events. Two joins, two
  restarts. Two handlers of a ticket, two cards, two events, two flyers, three tool
  calls, two forms: a proposal that is replaced while its cover is on the way.
* `workshop`. Two files, one too big for the archive's batch; any four of the
  processes and outside events, each once (`FilesBound`), in every order and overlap.
  Five instants with a live window of two turns; pages that hold two messages or all,
  transcripts of one or all. Two members, two rooms, two clicks and two closings at
  once, one crash. Three starts of any releases for the tables of every capability.
  Three channels, three capabilities, two starts, two orders of the console, one turn.
* `announcements`. Two channels, two management channels, a draft for both and a
  repost for one, one pass, two turns, one fault; lease and TTL of 2 on a clock
  of 4 instants: a lease runs out under its holder, a draft fails in one channel
  of two, a receipt is deleted. Any two of the two turns and the pass are in
  flight at once, never all three (`InPairs`). A post in two copies among pages of
  four messages, one hiccup. Two sessions and two scheduled events, one clearly
  the first's and the other nearly so, one change, one failure; or one session,
  one scheduled event (`OneEventIfForced`) and a forced pass beside the timer's. One
  row with two contents, four tool calls of one caller, two failures or restarts, one
  act by hand. Three iterations of two calls, a cacheable write and an uncached read,
  one empty answer: a repeated call, a read after a write, a forced pass, a restart
  after a refusal.
* `workers`. Three uploads of four files over two contents, a queue of two, a budget
  of two in a window of two, one restart. Three bursts of two voices, a flush after
  two, one failed batch, one cut. A quarter of a year in half days (31, 28, 31 days),
  six rhythms, starts on a Tuesday and on a 31st, two rows, two edits.
* `channels`. Three mentions in one channel and one in another share one slot; the
  handler of the other channel only answers (`OneOfB`). Three reports, any two with a
  reporter, place or person in common, gaps of 2 and 1, days of 2, at most one
  repeated delivery or crash (`FewRepeats`). Two messages of two versions, pages of
  one, one message kept, two events behind, one lost session. Three posts, two of the
  same time, a window of two, one push a poll, two commands and restarts together
  (`FewReloads`): the window overflows and the anchor falls out of it. Budget 3, a
  kill-switch after two throttled polls. Two accounts, one that posts often, one
  seldom, on a day of 12 ticks with quiet ones. Four reads of one fetcher, two
  failures of a set-up, two restarts. Two notices in flight.

Names that are interchangeable come in order: messages (`InOrder`), joins, cards and
events (`JoinsInOrder`, `TicketInOrder`), bursts and voices (`BurstsInOrder`), the
outlets of the feed (`OutletsInOrder`), the board's first channel. Each behaviour that
this leaves out is one of those kept with its names exchanged.

They are enough for what they ask because each interesting case occurs: the
altered definitions confirm it, since each needs its case to be caught. For most
of the safety properties the proofs remove the bounds (section 5).

Restrictions that the code does not enforce:

* `Patience < Lease` (Broadcast): a turn ends, and a post is made after the
  renewal, in less time than the ten minutes of a lease.
* Six hours (WorkshopFiles): the sweep of an idle session runs when nothing was
  posted for six hours (`workshop/watcher.ts:1106`), and what was at work around the
  last turn (`recent`) has ended by then; a clear or a backfill begun later may run
  beside it. Sweep and backfill, two jobs that the same hourly tick starts one after
  the other, do not overlap.
* One caller (CalendarMirror, in `announcements`). `OneTrueList` excuses calls that run
  together, which the one caller of that run never does; what two callers do is the
  run `calendar_two_lists`.

Seven runs expect a violation: TLC finds a behaviour of the code that contradicts
what a comment, test name or doc of the repository says. The quoted lines are in
`PROJECT.json`, "findings".

| run | the claim | what the code does |
|---|---|---|
| `turns_refused` | the newer turn answers, with the full history, for the older one that it interrupts | the older turn is interrupted before the full queue refuses the newer message: nobody answers either |
| `settings_refilled` | what operators edit is never undone by a restart | a list that they emptied is seeded from the environment again |
| `daily_cap` | reservations of concurrent turns cannot race; a daily cap of delivered notes | a row counts only once its note is confirmed, so two turns in flight, or a lost answer, exceed the cap |
| `announcements_link` | an event that an admin deleted loses its stale link | a request that fails looks the same, and clears the link of a live event |
| `calendar_two_lists` | a sync is idempotent: no second list of signups | two overlapping syncs both find no event and both make one |
| `calendar_split` | an edit of the following sessions keeps the rhythm | a fortnight of two weekdays, split at the second, moves the first one's sessions by a week |
| `minutas_audio_kept` | without a transcriber, bursts stay, kept | everything but the raw audio is uploaded, then the directory is removed |

Three more claims are contradicted in the same way and are kept as definitions
without a run: `FileSpellsBoard` (`ics.ts:50-54`: each modifier has a direct
spelling in the file; not for a fortnight that starts on the later of its weekdays, nor
for days that a month lacks), `OrphansIgnored` (`app.ts:164`: messages of a channel
whose capability is missing are ignored; general_chat answers them) and
`OlderLiveInSummary` (`workshop/watcher.ts:480`: older turns live in the summary; not
those of a gap).

### Met while modelling

Not kept as runs; the lines are where to look.

Turns and channels.

* The queue's limit and its `queued` getter count the turn that executes.
* An effect that throws after a workshop's reply was posted posts an error behind it
  (`workshop/watcher.ts:581-607`).
* The previous reply is delivered outside the queue, so a turn may not see it, and
  replies of one channel can arrive out of order (`discord/handlers.ts:332`).
* A write repeated as A, B, A is answered from the cache and leaves B
  (`llm/client.ts:610`); the forcing pass ignores `shouldAbort` (`:674`) and does
  not name a refusal as one (`:707`).
* When the answer to the edit that turns the status line into the reply is lost,
  the reply is posted twice; an error has no fallback post; a crash leaves the
  line.
* The transcript window that was already checked is returned although its entry
  was evicted during the second check; a load works with the `before` of its
  queued turn, and later messages are never loaded while the entry says that it is
  complete; it also says so after a trim.
* The marker of a clean shutdown goes before the login: a crash is not told of
  when the boot that found it cannot log in. A shutdown whose marker cannot be written
  still ends with 0 (`app.ts:227-231`), and one before the handlers are installed
  (`:243`) writes none: the next boot reports a crash. The cooldown of the model's alert is
  stamped also when the alert could not be posted; a restart forgets it.

Workshop.

* A turn queued before a clear injects the summary of the row it read on arrival
  (`watcher.ts:361`, `:523`).
* A history page that fails midway, the bound on pages, a message too long for the
  window that shorter older ones still enter (`history.ts:148`), and the cut of the
  transcript (`compact.ts:56`) leave gaps that the watermark passes: no summary ever
  holds those messages.
* An archive resolves which messages to delete before its awaits: a file that is
  recorded on one meanwhile (`archive.ts:186-195`, `watcher.ts:689`) loses its
  carrier. Rehydration drops a row that was re-pointed meanwhile (`watcher.ts:774`) or
  overwrites a newer file saved meanwhile (`:759`). A transient failure followed by an
  archive drops the row (`archive.ts:116-135`).
* The backfill keeps an object that a newer version has outdated (`store.ts:291`,
  `watcher.ts:866`); the idle sweep removes a file rewritten since its last copy
  (`:1125`); an upload in flight at the close lands after the objects were
  erased, and a crash after the directory went leaves them (`:1067`).
* A lost answer or a crash between channel and row leaves a channel without a
  session; a channel deleted while its row is written, or while the bot is down,
  leaves a session that counts against the limit.

Moderation and scanner.

* A row is stamped as not delivered before the send, so a note whose answer was
  lost is a refusal in the trail.
* The scanner sheds with `maxQueueDepth - 1` waiting, since the call in flight
  counts, and never asks again about a file whose verdict is on record
  (`scanner.ts:86`); a restart forgets that moderators were alerted
  (`watcher.ts:254`).

Announcements.

* A turn older than the lease reserves with the clock of its start: its lease is
  born expired and another sender may take it while it posts (`source.ts:1361`).
* A repost drops the receipt before it posts: when the post fails, the next pass
  announces the occurrence again (`source.ts:1364`).
* The search for duplicates keeps the earliest message of the bot in its window,
  whatever it is: another message in the same seconds costs the announcement
  (`announcer.ts:574`).
* A pass clears whichever link is stored after its await; a list that could not be
  fetched reads as one without events; `postToMods` says that it posted whatever
  happened; two rows may link one event; nudges repeat after a crash or beside a
  console pass; a session that is moved or cancelled while the model writes is
  announced as it was (`announcer.ts:505`, `docs/capabilities/calendar.md:308`).

Mirror, board and series.

* A transient failure to fetch the linked event makes a second list when the row
  is next synced; concurrent refreshes lose an update.
* After a change of the output channel the new one gets nothing until the next
  edit or month, since the row of the old channel counts as published; the old
  channel keeps its cards, and coming back to it doubles them. A card deleted by
  hand is not restored before the next edit; console edits do not publish; a pass
  that began before the month turned may prune the new card; the warning that
  templates run out is sent only by the watcher's own publication, and counts as
  sent when the send failed.
* The cut-off of a split series is copied as an absolute instant: with a later
  start the last session is lost; a refused title is looked for after truncation
  (`source.ts:693-697`).
* The file and the board differ for fortnights of several weekdays that do not start
  on the first of them, and for days that a month lacks (`ics.ts:49`). Bringing the
  cut-off of a series forward (`source.ts:743-764`) and a console edit of its rhythm
  leave overrides of dates that it no longer has: a session moved from one is in the
  file and not on the board.

Instagram.

* Warm-up requests ignore a 429; a failed navigation is charged nothing; a browser
  whose set-up fails stays; the idle timer is not cancelled when a read begins; a
  post whose publication fails is recorded as seen.
* The kill-switch counts after the awaited notice, and a restart during it loses
  the count. An outage notice that was posted and whose answer was lost, or a restart
  before it is written (`fetch-health.ts:125-130`), leaves the end of the outage
  unannounced unless the outage is announced again; `force_poll` does not clear failures of the session; the cap on
  overflow ignores jitter and back-off; the comment on the digest says BEFORE where
  the code is AFTER; `docs/capabilities/instagram-monitor.md:31` promises a burst
  that the pacing spreads.

Intake and minutes.

* Two requests, or a form and a request, at once leave a card that no job names;
  two form messages get two proposals (`event_intake/watcher.ts:211`); a crash
  between card and record loses the card.
* An approved flyer does not reach its event when a moderator's sync, which takes the
  image as an option, makes or links the event after the delivery (`source.ts:960`),
  when the turn throws after the create (`event_intake/watcher.ts:600-620`), when the
  flyer cannot be read (`flyer-service.ts:319-335`) or when Discord refuses the image
  (`discord-events.ts:559`).
* Overlapping joins lock a guild until the next restart; a crash between
  publication and record publishes twice; one between the removal and the status
  reports a failure. Bursts whose recorder still flushes are not awaited at the
  end of a recording; one whose name is being fetched when the connection goes
  is lost; a room that is empty from the start ends only with the maximum.

Start and configuration.

* Besides the watched channels of `settings_refilled`, the scanner's media channels and
  the intake's categories, roles and agitprop channels are seeded again when they were
  emptied; the announcement's mentions are kept empty. Bindings of the environment are ignored once the console wrote
  one.
* `app.ts:164` and `health.ts:208` say that an unbound channel will be ignored;
  `handlers.ts:154-157` falls back to the general chat.
* The purge's text says that nothing of the calendar is purged, whose tables have
  a channel; its prefix takes an underscore for any character.
* `migrations.ts:6` says "Idempotent SQL"; the `ALTER`s are not, and are safe
  only because each migration commits with its row. Version 3 of the calendar
  drops all events and version 10 all drafts.

## 4. Fairness

Only weak fairness, only what Node and the timeouts give, and only for the
liveness properties. A promise continuation that is ready runs: weak fairness of
each handler's next step (`Proceed(m)` of a workshop message, the steps of a
scan, of a session's files, of a batch, of a finalization, of a
pass over the board). A task ends: model requests, downloads, whisper and
VirusTotal calls all have timeouts, with success or failure left open. Timers
fire: the scanner's clock, the flush of a voice, the longest recording, the check
of the month, the sweep. Nothing is assumed of members or moderators, of
the order of answers, of the store coming back or of restarts not happening.
There is no strong fairness.

| property | run | fairness |
|---|---|---|
| EveryMessageSettles | `turns` | `WorkshopFairness` |
| ClosedDirGoes | `workshop` | `FilesFairness` |
| MonthComes | `turns` | `CheckMonth`, `PassStep(r)` |
| EveryUploadAnswered | `workers` | `ScannerFairness` |
| EverySessionSettles | `turns` | `SessionsFairness` |
| FinishedSpeechIsTranscribed | `workers` | `LiveFairness` |

## 5. Proofs

All proofs are for arbitrary constants under the modules' named assumptions
(finite sets where a cardinality is taken, positive limits, each task in one
channel, markers that are no members). Each is by an inductive invariant: the
initial states satisfy it, one lemma per action or group of actions that it is
kept, and a last temporal step. Each is about the specification that the runs check,
without assumptions of its own; what a property excuses is in its formula and in the
comment before it.

| module | about | inductive invariants |
|---|---|---|
| TurnQueueProofs | Semaphore, TurnQueue | `GateInv`, `QueueIndInv` |
| TurnsProofs | WorkshopTurns, AskLoop, ProcessWatch, TurnPresentation | `TurnsIndInv`, `AnswersInv`, `Paid`, `ConvoInv`, `WatchInv`, `PresenterInv` |
| ChannelProofs | MentionTurns, ModerationTrail, TranscriptCache | `ReadsInv`, `TrailInv`, `CacheInv` |
| WorkshopProofs | WorkshopSessions, WorkshopContext, WorkshopFiles | `WorkshopInv`, `ContextInv`, `FilesInv` |
| AnnouncementsProofs | Broadcast, AnnounceSweep, DailyPass | `BroadcastIndInv`, `ApartInv`, `SweepInv`, `DailyInv` |
| CalendarProofs | CalendarMirror, MonthBoard, CalendarSeries, FileScanner | `MirrorInv`, `BoardInv`, `SeriesInv`, `UploadsInv` |
| InstagramProofs | FetchHealth, InstagramFetch, InstagramGates, InstagramCadence, InstagramFeed | `HealthInv`, `PollInv`, `BrowserInv`, `GatesInv`, `CadenceInv`, `FeedInv` |
| TicketsMinutasProofs | EventIntake, MinutasSessions, LiveTranscriber, SchemaMigrations, Routing | `IntakeInv`, `DecisionsInv`, `SessionsInv`, `LiveInv`, `SchemaInv`, `RoutingInv` |

The arguments, and why the properties are not inductive as they stand:

* **Queue.** Whether a turn may start depends on the promise it captured, so
  `QueueIndInv` says which one that was: exact counters, a channel's tail is its
  newest turn on the books, `prior` is the turn admitted just before, or none if
  that one had left, arrival numbers are distinct and in order, and the gate's
  holders and waiters are the turns whose stage says so. `QueueImplementsOrder`
  maps admission, start and end of a task to the steps of TurnOrder, all other
  steps to stutters.
* **Workshop turns** run the queue (`WorkshopRunsTheQueue`), which imports all of
  that. `TurnsIndInv`: whoever registers interrupts whoever was registered, so
  `turnAborts` names the only live message whose flag is not raised, whoever was
  dropped had been interrupted, and the newest message of a channel never was
  (`NewestIsHeard`): it is live, refused with the busy reply, or told something.
  `AnswersInv`: a turn that has answered was done before the next one began.
* **Mention turns** run the queue too. `ReadsInv` keeps what a turn read among
  the turns that ended before it.
* **Conversation.** `ConvoInv` says where in the sequence of messages the loop
  is: which calls of the last assistant message are still to be answered, at every
  place where it may stop, recover or be interrupted. *No effect twice*: a
  cacheable call that succeeded is in the cache and was counted, and the restart
  after a refusal happens only while nothing was counted. `Paid` weighs what
  each counter of the loop may still cost, which gives `RequestsBounded`.
* **Presentation.** `PresenterInv` says which step of the turn owns the line, the
  timers and the reaction's handle; a sign without an owner has a failed
  request behind it; while the first chunk is unconfirmed its copies are at most
  the answers lost, and one more afterwards; a missing reply has two failures
  behind it.
* **Process.** `WatchInv`: what the marker and the stamp say at each step of a boot,
  after a crash, a shutdown that left its marker and one that could not, and the
  distances of notices and alerts to the last stamp.
* **Trail.** `TrailInv`: a turn that acts has reserved its row, rows carry the
  time of their turn, and rows that count for a person or a place are a gap
  apart; what was done is never ahead of the rows.
* **Transcript.** `CacheInv`: the events under way come in order, never behind what
  was told nor ahead of what happened, and while there is a session the last one
  says how things are; a load has the entry that it fills; whatever may still be
  written into the entry is not older than what was told, and current unless an
  event on its way will correct it.
* **Sessions.** `WorkshopInv`: clicks of one member exclude each other through
  `creating`, which makes the count read before the await good afterwards; each
  open channel and active row has its counterpart, somebody about to write it, an
  event on its way, or is stranded.
* **Context.** `ContextInv`: row, snapshots and job remember only what follows the
  last clear, and everything between it and their watermark that the channel still
  shows but what is in their `gap`, also the rows that turns read on arrival.
* **Files.** `FilesInv`, over all those overlaps. A row that is to be restored
  still names the message that was read, or was dropped, or was re-pointed by the
  archive of the panel's clear, or its file is in the workspace (`ReadTrue`). A row
  names a message that is about to be deleted only if it was recorded late and its
  file is in the workspace (`DoomedLate`), which nobody removes under a turn: the
  sweep waits, also for a clear beside it (`Beside`). Messages in flight are named by
  no row yet (`InFlight`), numbers are given out once (`GivenOut`), uploads in flight
  carry a version, objects are erased only when the session is closed.
  `FilesAreKept` gives both halves of `FilesKept`.
* **Announcements.** `BroadcastIndInv`: a confirming turn owns its draft; the
  channels it has to do, is at and failed in are different ones; a row has the
  time of the turn that made it; a pass that still has its reservation has it over
  no receipt. `ApartInv` adds ages: every post of a channel is waived, older than
  a lease less the patience of a request, or guarded by the channel's row, which
  is held by whoever posted or is its receipt, and refuses all others.
* **Post, pass.** `SweepInv` follows the copies of each send from its mark to its
  report. `DailyInv`: the locals of a run never take a live link for missing, and
  what was told has its key or an excuse (a failed message, a restart, an overlap).
* **Mirror.** Until two calls run together, one caller is the only one that may be
  running (`LoneInv`, `Single`), and what it read stays true until it writes (`Sees`):
  content and link are those of the row. Before it makes an event there is no link
  and only events made by hand show that content (`Knows`). Unless a request
  failed, a live event of the bot is the one that is linked or about to be
  (`ShowsList`), wrong content stands only while a refresh is owed, and a wrong
  card only while the board is being painted (`ShowsCard`).
* **Board.** What a pass holds over its awaits is what the rows said when it looked,
  or less: the card it edits and those it is about to prune are still tracked, or
  gone (`Follows`). So a row forgets only a card that is gone, unless the step
  counts as one that leaves a card behind. A pass that is alone has a card
  for each month it has done, and once it prunes only what it has yet to prune
  stands besides (`Advances`); its last step, the file, finds exactly what is due.
* **Series.** `SeriesInv` says little, that every row has a rule and at most one
  override for a date; the work is that board and file agree on every such row whose
  weeks are counted alike (`CountedAlike`, which `WeeksSpelled` says day by day), but
  for exactly the days in `Shortened` and `Astray`. Each date of a rule is a day that fits the client's reading
  (`Drawn`), and each day that fits is a date of the rule (`Covered`): by quotients
  and remainders for days and weeks, with the rank of a weekday among the offsets
  counted as a cardinality; for months because no month has two days that the rule
  keeps (`KeptOnce`) and the n-th date is one of them. That every day lies in one
  month follows from the least month for which it would not. `OnePerDate` makes
  overrides take the same dates out of both, and an edit keeps them on the rhythm
  because it either keeps start and rule or drops them.
* **Uploads.** `UploadsInv`: the table's ages are those of the calls of the last
  window behind older ones (`OnTable`), so what the filter leaves is as long as what
  was called; a call of this process is as old as the last one at least (`Waited`);
  the counter is the length of the chain, whose messages are different and wait for
  a call (`Chained`), so a call that returns leaves the place that the next one takes.
* **Feed.** A poll handles new posts in order of time (`Ordered`), and leaves each
  one on record with every channel or with the first undecided one held
  (`Handing`); anchors are never below the floor that seeding set (`AnchorFloor`);
  a card without a record is in flight or a crash's (`OnRecord`).
* **Cadence.** Of the accounts that are due the one polled longest ago goes first,
  so an account that stays certainly due sits out at most a gap for each account
  polled since its own poll, one for each command, and the gap that runs
  (`WaitBound`).
* **Fetchers.** `PollInv` counts what a poll was charged against the ways it has
  tried; `BrowserInv` says who owns each browser. `HealthInv`: a notice in flight was
  read at the threshold or, of an end, without failures, so what it writes back still
  owes the recovery, unless its outage is counted as `missed`.
* **Gates.** `GatesInv` keeps three counts of requests apart, for each instant: what
  was sent, what memory reckons with and what the table holds. Memory is ahead of
  the table by one poll at most, and what was sent ahead of memory by one poll for
  each restart (`Lags`); a poll begins below the budget. That a step changes a sum
  over a window by what it changes at one instant is shown once, by taking the
  least window for which it would fail. A flag has stopped the monitor, or is about
  to with the notice in flight (`FlagStops`).
* **Intake.** `IntakeInv`: which handler may still edit a card, and that an open
  job's card asks. `DecisionsInv`: a delivered flyer is on the approved event or on its
  way there with some handler, the event is gone, or it has no Discord event and no
  handler is about to leave it bare; all but for an event in `missed`.
* **Minutes.** `SessionsInv`: what is posted is the record plus one for each
  restart between. `LiveInv`: pending, running and done bursts are apart for each
  worker, and the finalization's pending set is what the ledger lacks.
* **Tables.** `SchemaInv`: the migrations that ran are the first n of the owner, its
  tables are those of version n, and a row that was written is still there unless
  a migration that ran was meant to drop it. Each migration of each owner is
  evaluated statement by statement on any such tables, so a start that crashes
  between two transactions leaves what the next one, of any release, expects.
* **Routing.** `RoutingInv`: row, router and what was asked agree, at every step
  of a start, a purge and an order.

Every invariant and every action property of the passing runs is stated by a
theorem. Only model-checked are the liveness properties (`EveryMessageSettles`,
`ClosedDirGoes`, `MonthComes`, `EveryUploadAnswered`,
`EverySessionSettles`, `FinishedSpeechIsTranscribed`): fairness is about ENABLED,
on which the prover does not reason. The claims of the seven runs that end in a
violation are false, and nothing is proved of them.

## 6. Abstractions

* Texts, prompts, layouts and wordings are left out everywhere; a content is a
  model value. A language model or a person may answer anything that the code
  distinguishes.
* **WorkshopContext.** Discord's timestamps and `Date.now` are one clock. A message
  is its instant; how long messages are is a choice of which ones enter the window,
  and of how many a transcript holds.
* **WorkshopFiles.** A session's messages are posted when their turn starts. One
  clear of the panel at a time. A batch of an archive is one message.
* **MentionTurns.** A turn's work is one step that answers, says nothing or fails;
  what a turn reads is a set of messages.
* **AskLoop.** Arguments are folded into the call's identity; a read returns the
  last write in effect. The gate's wait is part of the request.
* **TurnPresentation.** Text is how far the progress is; a reply is its number of
  chunks. Edits reach Discord in the order in which they were sent.
* **TranscriptCache.** One channel; the limits in characters and age are one bound
  on messages; other channels appear as evictions.
* **ModerationTrail.** One guild; who may use a tool is a choice. Every look at
  the evidence may find it changed.
* **FileScanner.** Which attachments deserve a scan, permissions and the alert to
  moderators are left out. A verdict is known or unknown. The stored times are in
  order, so what their filter drops is a prefix.
* **Broadcast.** One occurrence; the window in which it is due is `Dawn`, and the
  grace for late ones is left out. A post in a forum is a post.
* **DailyPass.** The likeness of names is a table; dry runs are left out.
* **CalendarMirror.** One row, and its next session as one content. An event that
  matches shows the same content. A row is drawn on one card. Changes of the
  output channel are MonthBoard's.
* **MonthBoard.** A card is a message of a channel for a month.
* **CalendarSeries.** No time zones or clock changes; a day has `DayLen` slots.
  The overrides are a moved or a cancelled session.
* **Instagram.** What pages hold is the choice of an outcome; quiet hours, jitter
  and the interval's formula only delay polls. The stretch is written as its
  square.
* **EventIntake.** One ticket; calendar rows that share one Discord event are one.
* **LiveTranscriber.** How long a burst lasts is left out, and with it the
  thresholds of a batch: any cut of one voice's bursts is a plan.
* **SchemaMigrations.** SQL types, defaults and indexes are left out, and so is a
  return to an older release.
* **Routing.** One setting of each kind, over environment and tables.

## 7. Not modelled, and why

Tool bodies, sandbox, document index, prompts, formatting, image layout, scraping
and audio conversion: their behaviour is in data and in external programs.
Storage drivers: each call is one atomic, possibly failing step of the models
above. Attachments, language checks and the reading of history are stateless
queries. Voice capture below a burst (codecs, streams) is external to
LiveTranscriber. The order of disposal at a shutdown, the digest of the
Instagram monitor and the HTTP feed of the calendar are left out: nothing that is
modelled depends on them.

## 8. Plan

1. DailyPass against Broadcast: announcing in one step as an abstraction of the
   reservation, the post and the receipt.
2. Two rows of CalendarMirror that share an event, and the workshop's document
   index as pure operators.

## 9. Running

    tlc -workers 2 -config MCTurns.cfg MCTurns.tla
    tlapm TurnQueueProofs.tla

Each entry of "runs" in `PROJECT.json` names its module and configuration. The
slowest proofs, AnnouncementsProofs and CalendarProofs, take about four minutes
from nothing.
