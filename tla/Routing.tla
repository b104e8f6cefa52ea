------------------------------ MODULE Routing ------------------------------
(***************************************************************************)
(* Which capability serves a channel: src/app.ts, capabilities/routing.ts  *)
(* and registry.ts, and the console's bindings, settings and purge         *)
(* (capabilities/configuration).  The start registers the capabilities     *)
(* whose init succeeds, loads the bindings and builds the router; tools    *)
(* change row and router; turns wait in the queue and are routed when they *)
(* begin; the process stops or dies at any point.                          *)
(*                                                                         *)
(* The tables themselves are SchemaMigrations.  One setting is studied: a  *)
(* list of the scanner or of the intake (also its design channel), which   *)
(* the console can empty; a channel of the calendar, the minutes or the    *)
(* workshop, which it can only replace; or the announcement's mentions,    *)
(* where empty is stored apart from never stored.                          *)
(***************************************************************************)
EXTENDS Naturals, Sequences, FiniteSets

CONSTANTS
  Channels, ConfigChannel, \* ConfigChannel is CHOPPERBOT_CONFIG_CHANNEL_ID
  DirectChannels,          \* those outside a guild
  Candidates,              \* the capabilities in the order of app.ts
  EnvSeed,                 \* DISCORD_CHANNEL_CAPABILITIES: channel -> capability
  MaxStarts, MaxOrders, MaxMessages

Capabilities == {Candidates[i] : i \in 1 .. Len(Candidates)}
Configuration == "configuration"
GeneralChat == "general_chat"

ASSUME RoutingAssumption ==
  /\ ConfigChannel \in Channels /\ DirectChannels \subseteq Channels \ {ConfigChannel}
  /\ Candidates[1] = Configuration /\ Candidates[Len(Candidates)] = GeneralChat
  /\ DOMAIN EnvSeed \subseteq Channels
  /\ MaxStarts \in Nat /\ MaxOrders \in Nat /\ MaxMessages \in Nat

VARIABLES
  routes,   \* configuration_bindings: channel -> capability, or "none"
  stored,   \* the studied setting's column
  setting,  \* [kind, seed]: its kind and what the environment gives for it
  startup,  \* "off", "init", "aborted", "running"
  at,       \* the candidate whose init is next
  registry, skipped,
  map,      \* the router's map
  waiting,  \* channels of the turns that wait in the queue
  answer,   \* the last turn: who served it, what its channel was meant to be
            \* bound to, and what was registered
  wanted,   \* history: what the operators last asked for each channel
  asked,    \* history: what they last set, and whether the process started since
  cutRows,  \* history: channels whose row a purge of configuration_* deleted
  starts, orders, turns

settingsDisk == <<routes, stored, setting>>
process == <<startup, at, registry, skipped, map, waiting>>
past == <<wanted, asked, cutRows>>
bounds == <<starts, orders, turns>>
routingVars == <<settingsDisk, process, answer, past, bounds>>

Unbound == "none"
Never == "never"
Lists == {"scanner", "intake"}
Replaceable == {"calendar", "minutas", "workshop"}
Settings == Lists \cup Replaceable \cup {"mentions"}
Empty == "empty"
Values == {Empty, "a", "b"}
NoAnswer == [by |-> Unbound, bound |-> {}, offered |-> {}]
NoRoutes == [c \in Channels |-> Unbound]

RoutingInit ==
  /\ routes = NoRoutes /\ stored = Never
  /\ setting \in [kind : Settings, seed : {Empty, "a"}]
  /\ startup = "off" /\ at = 1 /\ registry = {} /\ skipped = {} /\ map = NoRoutes
  /\ waiting = <<>> /\ answer = NoAnswer
  /\ wanted = NoRoutes /\ asked = [value |-> Never, since |-> FALSE] /\ cutRows = {}
  /\ starts = 0 /\ orders = 0 /\ turns = 0

-----------------------------------------------------------------------------
(* The start.                                                              *)

Start ==
  /\ startup = "off" /\ starts < MaxStarts
  /\ startup' = "init" /\ at' = 1 /\ starts' = starts + 1
  /\ registry' = {} /\ skipped' = {} /\ map' = NoRoutes /\ waiting' = <<>>
  /\ asked' = [asked EXCEPT !.since = TRUE]
  /\ UNCHANGED <<settingsDisk, answer, wanted, cutRows, orders, turns>>

\* Does the stored value count as nothing configured yet?
Unset(v) == IF setting.kind = "mentions" THEN v = Never ELSE v \in {Never, Empty}
\* The mentions are not written but resolved so at every read
\* (announce-settings.ts), which is the same while the environment stays.
Seeded(v) == IF setting.seed # Empty /\ Unset(v) THEN setting.seed ELSE v

\* init of the next candidate: it is registered, or it throws and is skipped.
\* The capability that owns the setting is the second one and seeds it.
InitCapability ==
  /\ startup = "init" /\ at <= Len(Candidates)
  /\ \/ registry' = registry \cup {Candidates[at]} /\ UNCHANGED skipped
     \/ skipped' = skipped \cup {Candidates[at]} /\ UNCHANGED registry
  /\ stored' = (IF at = 2 /\ Candidates[at] \in registry' THEN Seeded(stored) ELSE stored)
  /\ at' = at + 1
  /\ UNCHANGED <<routes, setting, startup, map, waiting, answer, past, bounds>>

\* Without the console there is no routing table: run() throws.
AbortStart ==
  /\ startup = "init" /\ at > Len(Candidates) /\ Configuration \notin registry
  /\ startup' = "aborted"
  /\ UNCHANGED <<settingsDisk, at, registry, skipped, map, waiting, answer, past, bounds>>

NoRows == \A c \in Channels : routes[c] = Unbound
\* The rows once the environment has been copied into an empty table.
SeedRows == IF NoRows
            THEN [c \in Channels |-> IF c \in DOMAIN EnvSeed THEN EnvSeed[c] ELSE Unbound]
            ELSE routes
WithConsole(r) == [r EXCEPT ![ConfigChannel] = Configuration]

\* The seeding commits, and the process may die before the console's row.
SeedBindings ==
  /\ startup = "init" /\ at > Len(Candidates) /\ Configuration \in registry
  /\ NoRows /\ DOMAIN EnvSeed # {}
  /\ routes' = SeedRows /\ wanted' = SeedRows /\ cutRows' = {}
  /\ UNCHANGED <<stored, setting, process, answer, asked, bounds>>

BuildRouter ==
  /\ startup = "init" /\ at > Len(Candidates) /\ Configuration \in registry
  /\ ~ NoRows \/ DOMAIN EnvSeed = {}
  /\ routes' = WithConsole(routes) /\ wanted' = WithConsole(wanted)
  /\ map' = WithConsole(routes) /\ cutRows' = cutRows \ {ConfigChannel}
  /\ startup' = "running"
  /\ UNCHANGED <<stored, setting, at, registry, skipped, waiting, answer, asked, bounds>>

\* A signal, a crash, or systemd after an aborted start.
Stop ==
  /\ startup # "off"
  /\ startup' = "off"
  /\ UNCHANGED <<settingsDisk, at, registry, skipped, map, waiting, answer, past, bounds>>

-----------------------------------------------------------------------------
(* The console.                                                            *)

Order ==
  /\ startup = "running" /\ orders < MaxOrders
  /\ orders' = orders + 1
  /\ UNCHANGED <<setting, startup, at, registry, skipped, waiting, answer, starts, turns>>

\* Altered: only the row is written.
NotRerouted(c, k) == map

\* config_bindings bind: refused for the console's channel, for the two built-in
\* capabilities and for one that is not registered.
Rerouted(c, k) == [map EXCEPT ![c] = k]
BindChannel(c, k) ==
  /\ Order
  /\ c # ConfigChannel /\ k \in registry \ {Configuration, GeneralChat}
  /\ routes' = [routes EXCEPT ![c] = k] /\ map' = Rerouted(c, k)
  /\ wanted' = [wanted EXCEPT ![c] = k] /\ cutRows' = cutRows \ {c}
  /\ UNCHANGED <<stored, asked>>

UnbindChannel(c) ==
  /\ Order
  /\ c # ConfigChannel /\ (routes[c] # Unbound \/ map[c] # Unbound)
  /\ routes' = [routes EXCEPT ![c] = Unbound] /\ map' = [map EXCEPT ![c] = Unbound]
  /\ wanted' = [wanted EXCEPT ![c] = Unbound] /\ cutRows' = cutRows \ {c}
  /\ UNCHANGED <<stored, asked>>

\* purge_channel_data refuses the name configuration, and then deletes the rows
\* of tables LIKE '<name>_%', where the underscore stands for any character: the
\* name cut short by one letter reaches configuration_bindings.
Names == {"other", Configuration, "configuratio"}
Reaches(name) == name = "configuratio"
PurgeChannelData(name, c) ==
  /\ Order
  /\ name # Configuration
  /\ routes' = (IF Reaches(name) THEN [routes EXCEPT ![c] = Unbound] ELSE routes)
  /\ cutRows' = (IF Reaches(name) /\ routes[c] # Unbound THEN cutRows \cup {c} ELSE cutRows)
  /\ UNCHANGED <<stored, map, wanted, asked>>

\* The console's orders for the settings: each writes the column.
SetSetting(kind, v) ==
  /\ Order
  /\ setting.kind = kind
  /\ stored' = v /\ asked' = [value |-> v, since |-> FALSE]
  /\ UNCHANGED <<routes, map, wanted, cutRows>>
SetScannerChannels(v) == SetSetting("scanner", v)
SetIntakeList(v) == SetSetting("intake", v)
SetMentions(v) == SetSetting("mentions", v)
SetCalendarChannel(v) == v # Empty /\ SetSetting("calendar", v)
SetMinutesChannel(v) == v # Empty /\ SetSetting("minutas", v)
\* A field left out keeps what is stored.
SetWorkshopChannels(v) == v # Empty /\ SetSetting("workshop", v)

-----------------------------------------------------------------------------
(* The turns.                                                              *)

\* A message that addresses the bot: outside a guild only in a bound channel.
Heard(c) == map[c] # Unbound \/ c \notin DirectChannels
Message(c) ==
  /\ startup = "running" /\ turns < MaxMessages
  /\ Heard(c)
  /\ waiting' = Append(waiting, c) /\ turns' = turns + 1
  /\ UNCHANGED <<settingsDisk, startup, at, registry, skipped, map, answer, past, starts, orders>>

\* The queued turn begins and is routed by the map as it is now.
Server(c) == IF map[c] \in registry THEN map[c]
             ELSE IF GeneralChat \in registry THEN GeneralChat ELSE Unbound
Meant(c) == {wanted[c]} \cup (IF c \in cutRows THEN {routes[c]} ELSE {})
TurnBegins(i) ==
  /\ startup = "running" /\ i \in 1 .. Len(waiting)
  /\ answer' = [by |-> Server(waiting[i]), bound |-> Meant(waiting[i]),
                offered |-> registry]
  /\ waiting' = [j \in 1 .. Len(waiting) - 1 |-> waiting[IF j < i THEN j ELSE j + 1]]
  /\ UNCHANGED <<settingsDisk, startup, at, registry, skipped, map, past, bounds>>

RoutingNext ==
  \/ Start \/ InitCapability \/ AbortStart \/ SeedBindings \/ BuildRouter \/ Stop
  \/ \E c \in Channels, k \in Capabilities : BindChannel(c, k)
  \/ \E c \in Channels : UnbindChannel(c) \/ Message(c)
  \/ \E n \in Names, c \in Channels : PurgeChannelData(n, c)
  \/ \E v \in Values : \/ SetScannerChannels(v) \/ SetIntakeList(v) \/ SetMentions(v)
                       \/ SetCalendarChannel(v) \/ SetMinutesChannel(v)
                       \/ SetWorkshopChannels(v)
  \/ \E i \in 1 .. MaxMessages : TurnBegins(i)

RoutingSpec == RoutingInit /\ [][RoutingNext]_routingVars

-----------------------------------------------------------------------------
\* What collectHealth reports of all this: capabilities that did not start,
\* channels bound to one that is not registered, an intake with nothing to watch.
Orphans == {c \in Channels : map[c] \notin registry \cup {Unbound}}
Problems ==
  (IF skipped # {} THEN {"skipped"} ELSE {})
    \cup (IF Orphans # {} THEN {"orphans"} ELSE {})
    \cup (IF setting.kind = "intake" /\ Candidates[2] \in registry /\ stored \in {Never, Empty}
          THEN {"nothing watched"} ELSE {})

\* Row and router agree with what the operators last asked, over restarts; a
\* purge that reaches the bindings leaves its channel routed until the restart.
BindingsKept ==
  \A c \in Channels :
    /\ routes[c] = (IF c \in cutRows THEN Unbound ELSE wanted[c])
    /\ startup = "running" => map[c] \in {wanted[c], routes[c]}
\* A turn is served by the capability its channel was bound to when it began, if
\* that one started, and by general_chat otherwise: which is what the router does,
\* and not what the warning of the start says (OrphansIgnored).
ServedAsBound ==
  answer # NoAnswer =>
    \E k \in answer.bound :
      answer.by = (IF k \in answer.offered THEN k
                   ELSE IF GeneralChat \in answer.offered THEN GeneralChat ELSE Unbound)
\* A setting is what the operators last set, but for the one thing that the stores'
\* comments deny and EditsSurvive states: a list they emptied is filled from the
\* environment again, at the next start.
SettingKept ==
  \/ stored = asked.value
  \/ /\ stored = setting.seed /\ asked.since
     /\ asked.value = Never \/ (setting.kind \in Lists /\ asked.value = Empty)
\* When the report names no problem, every channel is served as it was asked.
ReportHonest ==
  startup = "running" /\ Problems = {} =>
    \A c \in Channels \ cutRows : wanted[c] # Unbound => Server(c) = wanted[c]

\* What operators ask of bindings holds in the table, in the router and for the
\* turns, and what they ask of a setting in its store, over failing inits, crashes
\* of the start and restarts (src/app.ts, configuration/store.ts loadBootBindings,
\* the seeds of the stores); but a list they emptied returns to the environment's,
\* and a channel whose capability did not start is served by general_chat.
OperatorsObeyed == BindingsKept /\ ServedAsBound /\ SettingKept /\ ReportHonest

\* What the stores say of their seeds: they only write while nothing was configured
\* yet, so an operator's later edits are never undone by a restart
\* (file_scanner/store.ts seedWatchedChannels, seedMediaChannels;
\* event_intake/store.ts seedWatchedCategories).  An emptied list counts as nothing
\* configured: this is violated.
EditsSurvive == asked.value # Never => stored = asked.value

\* What the start warns of a channel mapped to a capability that is not registered:
\* messages there will be ignored (src/app.ts).  The router gives them to
\* general_chat: this is violated.
OrphansIgnored ==
  answer # NoAnswer =>
    \A k \in answer.bound \ {Unbound} :
      answer.by \in {k, Unbound}
=============================================================================
