-------------------------- MODULE SchemaMigrations --------------------------
(***************************************************************************)
(* The tables of one capability (or of the framework) as its migrations    *)
(* make them, src/memory/migrations.ts and the *_MIGRATIONS of the stores. *)
(* The database may have been left by any earlier release, the process     *)
(* dies between any two transactions, and each start may be of a newer     *)
(* release.                                                                *)
(*                                                                         *)
(* A table is its set of columns, and only tables that later migrations    *)
(* change are given all of theirs.  SQL types, defaults and indexes are    *)
(* left out, and so is a return to an older release.                       *)
(***************************************************************************)
EXTENDS Naturals, Sequences, FiniteSets, SequencesExt

CONSTANTS
  MaxBoots,  \* starts of the process
  MaxRows    \* rows written

ASSUME SchemaAssumption == MaxBoots \in Nat /\ MaxRows \in Nat

VARIABLES
  whose,   \* whose migrations: a capability, or the framework
  code,    \* how many migrations the release that runs knows
  db,      \* its tables: [tables |-> name -> columns, rows |-> <<table, written under>>]
  applied, \* the rows of _migrations
  boot,    \* "off", "migrating", "failed", "skipped", "running"
  boots,
  written  \* history: the rows ever written

theProcess == <<whose, code, boot, boots>>
theDatabase == <<db, applied, written>>
schemaVars == <<theProcess, theDatabase>>

-----------------------------------------------------------------------------
(* The statements the migrations are made of.                              *)

NoColumns == {}
Sql(o, t, u, c) == [op |-> o, table |-> t, to |-> u, columns |-> c]
CreateTable(t, c) == Sql("create", t, t, c)
CreateOnce(t, c) == Sql("once", t, t, c)
AddColumns(t, c) == Sql("add", t, t, c)
CopyRows(t, u, c) == Sql("copy", t, u, c)
DropTable(t) == Sql("drop", t, t, NoColumns)
Rename(t, u) == Sql("rename", t, u, NoColumns)
DeleteRows(t) == Sql("delete", t, t, NoColumns)

\* A rebuild: a new table, its rows copied, the old one dropped, the name taken.
Rebuild(t, new, columns, copied) ==
  <<CreateTable(new, columns), CopyRows(t, new, copied), DropTable(t), Rename(new, t)>>

Has(d, t) == t \in DOMAIN d.tables

\* Does SQLite accept the statement?
Accepted(d, s) ==
  CASE s.op = "create" -> ~ Has(d, s.table)
    [] s.op \in {"once", "drop"} -> TRUE
    [] s.op = "add" -> Has(d, s.table) /\ s.columns \cap d.tables[s.table] = {}
    [] s.op = "copy" -> /\ Has(d, s.table) /\ Has(d, s.to)
                        /\ s.columns \subseteq d.tables[s.table] \cap d.tables[s.to]
    [] s.op = "rename" -> Has(d, s.table) /\ ~ Has(d, s.to)
    [] OTHER -> Has(d, s.table)

WithTable(d, t, c) ==
  [d EXCEPT !.tables = [u \in DOMAIN d.tables \cup {t} |-> IF u = t THEN c ELSE d.tables[u]]]
WithoutTable(d, t) ==
  [tables |-> [u \in DOMAIN d.tables \ {t} |-> d.tables[u]],
   rows |-> {r \in d.rows : r[1] # t}]
RowsOf(d, t) == {r \in d.rows : r[1] = t}
MovedRows(d, t, u) == {<<u, r[2]>> : r \in RowsOf(d, t)}

Effect(d, s) ==
  CASE s.op = "create" -> WithTable(d, s.table, s.columns)
    [] s.op = "once" -> IF Has(d, s.table) THEN d ELSE WithTable(d, s.table, s.columns)
    [] s.op = "add" -> WithTable(d, s.table, d.tables[s.table] \cup s.columns)
    [] s.op = "copy" -> [d EXCEPT !.rows = @ \cup MovedRows(d, s.table, s.to)]
    [] s.op = "drop" -> WithoutTable(d, s.table)
    [] s.op = "rename" ->
         LET moved == WithTable(WithoutTable(d, s.table), s.to, d.tables[s.table])
         IN [moved EXCEPT !.rows = @ \cup MovedRows(d, s.table, s.to)]
    [] OTHER -> [d EXCEPT !.rows = @ \ RowsOf(d, s.table)]

\* db.exec(m.up): the statements in order, none after one that is refused.
Execute(d, statements) ==
  FoldLeft(LAMBDA r, s: IF ~ r.ok \/ ~ Accepted(r.d, s) THEN [r EXCEPT !.ok = FALSE]
                        ELSE [ok |-> TRUE, d |-> Effect(r.d, s)],
           [ok |-> TRUE, d |-> d], statements)

-----------------------------------------------------------------------------
(* The migrations.                                                         *)

EventFields == {"created_by", "title", "description", "start_at", "end_at", "location",
                "created_at", "updated_at"}
CalendarMigrations1 ==
  LET ev == "calendar_events"
      owned == EventFields \cup {"id", "discord_user_id", "recurrence_freq", "recurrence_until"}
      global == owned \ {"discord_user_id"} IN
  << <<CreateOnce(ev, EventFields \cup {"id", "channel_id"})>>,
     <<AddColumns(ev, {"recurrence_freq", "recurrence_until"})>>,
     <<DeleteRows(ev), AddColumns(ev, {"discord_user_id"})>>,
     Rebuild(ev, "calendar_events_new", owned, owned),
     Rebuild(ev, "calendar_events_global", global, global)
       \o <<CreateOnce("calendar_published", {"pub_key", "channel_id", "message_id"}),
            CreateOnce("calendar_settings", {"output_channel_id"})>> >>
Drafts(targets) ==
  targets \cup {"token", "event_id", "occurrence_start_at", "content", "role_ids_json",
    "everyone", "image_url", "discord_event_id", "requested_by", "source_channel_id",
    "created_at", "posted_at", "posted_message_ids_json"}
CalendarMigrations2 ==
  LET ev == "calendar_events"
      dr == "calendar_announcement_drafts" IN
  << <<CreateOnce("calendar_event_overrides", {"master_id", "occurrence_start_at"})>>,
     <<AddColumns(ev, {"discord_event_id"}),
       CreateOnce("calendar_announcements", {"announce_key", "channel_id"}),
       AddColumns("calendar_settings", {"announce_channel_id"}),
       AddColumns("calendar_settings", {"announce_mentions_json"})>>,
     <<AddColumns(ev, {"flyer_channel_id"}), AddColumns(ev, {"flyer_image_message_id"})>>,
     <<CreateOnce(dr, Drafts({"channel_ids_json"}))>>,
     <<DropTable(dr), CreateTable(dr, Drafts({"targets_json", "thread_title"}))>>,
     <<AddColumns(ev, {"recurrence_interval", "recurrence_byday", "recurrence_monthly"})>>,
     <<CreateTable("calendar_broadcast_deliveries",
                  {"event_id", "occurrence_start_at", "channel_id"})>>,
     <<AddColumns(dr, {"repost"})>> >>

AccountFields == {"username", "added_by", "added_at", "paused", "last_polled_at",
                  "last_post_id", "consecutive_failures"}
InstagramMigrations1 ==
  LET acc == "instagram_monitor_accounts" IN
  << <<CreateOnce(acc, AccountFields \cup {"id", "channel_id"}),
       CreateOnce("instagram_monitor_seen_posts", {"ig_post_id", "channel_id"})>>,
     Rebuild(acc, "instagram_monitor_accounts_new", AccountFields \cup {"id"}, AccountFields),
     <<AddColumns(acc, {"last_post_at"})>>,
     <<AddColumns(acc, {"consecutive_auth_failures"})>> >>
InstagramMigrations2 ==
  LET acc == "instagram_monitor_accounts"
      rt == "instagram_monitor_runtime" IN
  << <<CreateOnce(rt, {"global_stop", "stop_reason", "stopped_at", "recent_auth_json",
         "recent_429_json", "auth_cooldown_until", "rate_cooldown_until",
         "budget_pause_until", "requests_24h", "heartbeat_at"})>>,
     <<AddColumns(acc, {"poll_interval_ms", "posts_per_day", "cadence_updated_at"})>>,
     <<AddColumns(rt, {"poll_stretch", "last_digest_at"})>>,
     <<AddColumns(acc, {"consecutive_hard_failures"})>>,
     <<AddColumns(acc, {"ig_pk", "prefer_username_feed", "prefer_username_feed_at"})>>,
     <<AddColumns(rt, {"poll_alloc_scale", "request_window_json"})>>,
     <<AddColumns(rt, {"fetch_health_json"})>> >>

ScannerMigrations ==
  << <<CreateOnce("file_scanner_settings", {"watched_channels_json"}),
       CreateOnce("file_scanner_runtime", {"request_times_json"}),
       CreateOnce("file_scanner_scans", {"sha256"})>>,
     <<AddColumns("file_scanner_settings", {"media_channels_json"})>> >>
IntakeMigrations ==
  LET set == "event_intake_settings" IN
  << <<CreateOnce(set, {"watched_categories_json", "mod_roles_json"}),
       CreateOnce("event_intake_tickets", {"channel_id", "guild_id", "requester_id",
         "parsed_form_json", "resolved_start_at", "status", "proposal_message_id",
         "created_event_id", "created_at", "updated_at"})>>,
     <<AddColumns(set, {"agitprop_channel_id", "agitprop_roles_json"}),
       AddColumns("event_intake_tickets", {"flyer_status", "flyer_request_message_id",
         "flyer_image_channel_id", "flyer_image_message_id", "flyer_notes"})>>,
     <<AddColumns(set, {"moderation_roles_json"})>> >>
WorkshopMigrations ==
  << <<CreateOnce("workshop_settings", {"welcome_channel_id"}),
       CreateOnce("workshop_sessions", {"channel_id", "guild_id", "user_id", "user_tag",
         "status", "created_at", "last_activity_at", "context_cleared_at",
         "panel_message_id", "closed_at"})>>,
     <<AddColumns("workshop_sessions", {"summary", "summary_covers_until"}),
       CreateOnce("workshop_files", {"channel_id", "rel_path", "message_id", "bytes",
         "updated_at"})>>,
     <<AddColumns("workshop_files", {"storage_key"})>> >>
MinutasMigrations ==
  << <<CreateOnce("minutas_settings", {"output_channel_id"}),
       CreateOnce("minutas_sessions", {"id", "guild_id", "channel_id", "channel_name",
         "title", "started_by", "started_by_tag", "started_at", "ended_at", "status",
         "end_reason", "minio_prefix", "summary_message_id", "participants_json",
         "stats_json", "error"})>>,
     <<AddColumns("minutas_sessions", {"transcribe_after"})>>,
     <<AddColumns("minutas_sessions", {"output_channel_id"}),
       AddColumns("minutas_sessions", {"agenda"}),
       AddColumns("minutas_sessions", {"max_duration_minutes"})>> >>
UsersMigrations == << <<CreateOnce("users", {"discord_user_id"})>> >>
ModerationMigrations ==
  << <<CreateTable("framework_moderation_settings", {"guild_id"}),
       CreateTable("framework_moderation_trail", {"id", "channel_id"})>> >>
ConfigurationMigrations == << <<CreateOnce("configuration_bindings", {"channel_id"})>> >>

\* What each part hands to migrate.  The framework's versions are one sequence.
Migrations ==
  [calendar |-> CalendarMigrations1 \o CalendarMigrations2,
   instagram_monitor |-> InstagramMigrations1 \o InstagramMigrations2,
   file_scanner |-> ScannerMigrations, event_intake |-> IntakeMigrations,
   workshop |-> WorkshopMigrations, minutas |-> MinutasMigrations,
   framework |-> UsersMigrations \o ModerationMigrations,
   configuration |-> ConfigurationMigrations]
Known == Len(Migrations[whose])

-----------------------------------------------------------------------------
(* The rows as the stores declare them: the columns their statements name.  *)

CalendarEvent == EventFields \cup {"id", "recurrence_freq", "recurrence_until",
  "recurrence_interval", "recurrence_byday", "recurrence_monthly", "discord_event_id",
  "flyer_channel_id", "flyer_image_message_id"}
CalendarSettings == {"output_channel_id", "announce_channel_id", "announce_mentions_json"}
AnnouncementDraft == {"token", "event_id", "occurrence_start_at", "targets_json", "content",
  "thread_title", "role_ids_json", "everyone", "image_url", "discord_event_id",
  "requested_by", "source_channel_id", "created_at", "posted_at",
  "posted_message_ids_json", "repost"}
MonitoredAccount == AccountFields \cup {"id", "last_post_at", "consecutive_auth_failures",
  "consecutive_hard_failures", "poll_interval_ms", "posts_per_day", "cadence_updated_at",
  "ig_pk", "prefer_username_feed", "prefer_username_feed_at"}
RuntimeState == {"global_stop", "stop_reason", "stopped_at", "recent_auth_json",
  "recent_429_json", "auth_cooldown_until", "rate_cooldown_until", "budget_pause_until",
  "requests_24h", "heartbeat_at", "poll_stretch", "last_digest_at", "poll_alloc_scale",
  "request_window_json", "fetch_health_json"}
TicketRow == {"channel_id", "guild_id", "requester_id", "parsed_form_json",
  "resolved_start_at", "status", "proposal_message_id", "created_event_id",
  "flyer_status", "flyer_request_message_id", "flyer_image_channel_id",
  "flyer_image_message_id", "flyer_notes", "created_at", "updated_at"}
WorkshopSession == {"channel_id", "guild_id", "user_id", "user_tag", "status", "created_at",
  "last_activity_at", "context_cleared_at", "panel_message_id", "closed_at", "summary",
  "summary_covers_until"}
WorkshopFileRecord == {"channel_id", "rel_path", "message_id", "bytes", "updated_at",
  "storage_key"}
MinutasSessionRow == {"id", "guild_id", "channel_id", "channel_name", "title",
  "output_channel_id", "agenda", "max_duration_minutes", "started_by", "started_by_tag",
  "started_at", "ended_at", "status", "transcribe_after", "end_reason", "minio_prefix",
  "summary_message_id", "participants_json", "stats_json", "error"}

Rows ==
  [calendar |-> [calendar_events |-> CalendarEvent, calendar_settings |-> CalendarSettings,
                 calendar_announcement_drafts |-> AnnouncementDraft],
   instagram_monitor |-> [instagram_monitor_accounts |-> MonitoredAccount,
                          instagram_monitor_runtime |-> RuntimeState],
   event_intake |-> [event_intake_tickets |-> TicketRow],
   workshop |-> [workshop_sessions |-> WorkshopSession,
                 workshop_files |-> WorkshopFileRecord],
   minutas |-> [minutas_sessions |-> MinutasSessionRow]]

-----------------------------------------------------------------------------
NoTables == [t \in {} |-> {}]

SchemaInit ==
  /\ whose \in DOMAIN Migrations
  /\ code = 0 /\ boot = "off" /\ boots = 0
  /\ db = [tables |-> NoTables, rows |-> {}] /\ applied = {} /\ written = {}

\* The process starts, of the same or of a newer release.
BootRelease(release) ==
  /\ boot = "off" /\ boots < MaxBoots
  /\ release \in (code .. Known) \ {0}
  /\ code' = release /\ boot' = "migrating" /\ boots' = boots + 1
  /\ UNCHANGED <<whose, theDatabase>>

Pending == (1 .. code) \ applied
\* Altered: sorted by falling version.
Highest == CHOOSE v \in Pending : \A w \in Pending : v >= w
Lowest == CHOOSE v \in Pending : \A w \in Pending : v <= w

\* One transaction: the statements and the row that says they ran.
RunMigration ==
  /\ boot = "migrating" /\ Pending # {}
  /\ LET r == Execute(db, Migrations[whose][Lowest]) IN
       /\ db' = (IF r.ok THEN r.d ELSE db)
       /\ applied' = (IF r.ok THEN applied \cup {Lowest} ELSE applied)
       /\ boot' = (IF r.ok THEN boot ELSE "failed")
  /\ UNCHANGED <<whose, code, boots, written>>

\* The rest of init: the capability is registered, or skipped for another reason.
InitEnds ==
  /\ boot = "migrating" /\ Pending = {}
  /\ boot' \in (IF whose = "framework" THEN {"running"} ELSE {"running", "skipped"})
  /\ UNCHANGED <<whose, code, boots, theDatabase>>

\* The capability writes a row to one of its tables.
WriteRow(t) ==
  /\ boot = "running" /\ Cardinality(written) < MaxRows
  /\ t \in DOMAIN db.tables
  /\ db' = [db EXCEPT !.rows = @ \cup {<<t, code>>}]
  /\ written' = written \cup {<<t, code>>}
  /\ UNCHANGED <<theProcess, applied>>

\* The process ends, at any point.
ProcessEnds ==
  /\ boot # "off"
  /\ boot' = "off"
  /\ UNCHANGED <<whose, code, boots, theDatabase>>

SchemaNext ==
  \/ \E v \in 1 .. Known : BootRelease(v)
  \/ RunMigration \/ InitEnds \/ ProcessEnds
  \/ \E t \in DOMAIN db.tables : WriteRow(t)

SchemaSpec == SchemaInit /\ [][SchemaNext]_schemaVars

-----------------------------------------------------------------------------
\* The rows that a migration is meant to drop: the events of one user's
\* calendar before version 3, the drafts before version 10.
MeantToGo(r, version) ==
  \/ r[1] = "calendar_events" /\ r[2] < 3 /\ version >= 3
  \/ r[1] = "calendar_announcement_drafts" /\ r[2] < 10 /\ version >= 10

\* No capability is ever refused its own tables, whichever releases ran before
\* and wherever they died (migrations.ts: each migration commits with its row).
NeverRefused == boot # "failed"
\* With the newest release every table has the columns its rows declare, and no
\* half-made copy of a table remains.
RowsFit ==
  boot = "running" /\ code = Known /\ whose \in DOMAIN Rows =>
    \A t \in DOMAIN Rows[whose] : Has(db, t) /\ Rows[whose][t] = db.tables[t]
NoLeftovers == \A t \in DOMAIN db.tables :
  t \notin {"calendar_events_new", "calendar_events_global", "instagram_monitor_accounts_new"}
\* Rows outlive every update, except those a migration is meant to drop.
RowsKept == \A r \in written :
  r \in db.rows \/ \E v \in applied : MeantToGo(r, v)

\* The database comes out of every update whole: its tables accepted, as the
\* stores declare them, and with its rows (src/memory/migrations.ts).
SchemaWhole == NeverRefused /\ RowsFit /\ NoLeftovers /\ RowsKept
=============================================================================
