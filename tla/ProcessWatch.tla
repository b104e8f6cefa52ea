----------------------------- MODULE ProcessWatch -----------------------------
(***************************************************************************)
(* What the operators hear of the process itself: the notice that it ended *)
(* without a shutdown (src/lifecycle.ts, src/app.ts), and the alerts of an *)
(* outage of the language model and of its end (src/llm/health.ts), posted *)
(* to the administration channel (src/discord/admin-alert.ts).             *)
(*                                                                         *)
(* The marker of a clean shutdown and the stamp of the last boot are files *)
(* written one after the other; everything about the outage is in memory;  *)
(* an alert that fails to reach Discord is logged and not repeated.        *)
(***************************************************************************)
EXTENDS Integers, FiniteSets

CONSTANTS
  Threshold,  \* TRANSIENT_ALERT_THRESHOLD
  Cooldown,   \* ALERT_COOLDOWN_MS
  Window,     \* CRASH_ALERT_MIN_INTERVAL_MS
  Logins,     \* attempts of loginWithDnsRetry
  LastTime,   \* bound: the clock
  MaxBoots,   \* bound: boots
  Never

ASSUME WatchAssumption ==
  /\ {Threshold, Cooldown, Window, Logins} \subseteq Nat \ {0}
  /\ LastTime \in Nat /\ MaxBoots \in Nat
  /\ Never \notin Nat

VARIABLES
  time,
  phase,     \* "off", "booting", "setup", "login", "up" or "stopping"
  clean,     \* the file .shutdown-clean exists
  stamp,     \* mtime of .boot-stamp, Never without it
  check,     \* BootCrashCheck of this boot
  tries,     \* logins tried
  failures,  \* consecutiveFailures
  alertAt,   \* lastAlertAtMs
  alerted,   \* alertedThisOutage
  asked,     \* history: the last end was ordered by an operator
  lapse,     \* history: its marker could not be written
  told,      \* history: the boots whose crash notice was attempted
  wrong,     \* history: a process took a shutdown for a crash, or a crash for one
  outages,   \* history: the times of this process's outage alerts
  ends,      \* history: recovery notices of this process
  boots

watchVars == <<time, phase, clean, stamp, check, tries, failures, alertAt, alerted,
               asked, lapse, told, wrong, outages, ends, boots>>
files == <<clean, stamp>>
health == <<failures, alertAt, alerted, outages, ends>>
seen == <<asked, lapse, told, wrong>>

NoCheck == [crashed |-> FALSE, suppress |-> FALSE]

WatchInit ==
  /\ time = 0 /\ phase = "off" /\ clean = FALSE /\ stamp = Never
  /\ check = NoCheck /\ tries = 0
  /\ failures = 0 /\ alertAt = Never /\ alerted = FALSE
  /\ asked = TRUE /\ lapse = FALSE /\ told = {} /\ wrong = FALSE
  /\ outages = {} /\ ends = 0 /\ boots = 0

-----------------------------------------------------------------------------
(* Boots and ends.                                                         *)

\* Altered: the marker is looked for after it was removed.
CrashedAlways(marker) == stamp # Never
Crashed(marker) == stamp # Never /\ ~marker

\* The marker is read and removed; the stamp is written after it.
Boot ==
  /\ phase = "off" /\ boots < MaxBoots /\ boots' = boots + 1
  /\ phase' = "booting" /\ clean' = FALSE /\ tries' = 0
  /\ check' = [crashed |-> Crashed(clean),
               suppress |-> Crashed(clean) /\ time - stamp < Window]
  /\ failures' = 0 /\ alertAt' = Never /\ alerted' = FALSE
  /\ outages' = {} /\ ends' = 0
  /\ UNCHANGED <<time, stamp, seen>>

Stamp ==
  /\ phase = "booting" /\ phase' = "setup" /\ stamp' = time
  /\ UNCHANGED <<time, clean, check, tries, health, seen, boots>>

\* The capabilities are made; last come the handlers of SIGINT and SIGTERM.
Install ==
  /\ phase = "setup" /\ phase' = "login"
  /\ UNCHANGED <<time, files, check, tries, health, seen, boots>>

\* A name that does not resolve is tried again, what else fails ends the process.
LoginAgain ==
  /\ phase = "login" /\ tries < Logins - 1 /\ tries' = tries + 1
  /\ UNCHANGED <<time, phase, files, check, health, seen, boots>>

\* The notice is attempted once.
LoggedIn ==
  LET notice == check.crashed /\ ~check.suppress
  IN  /\ phase = "login" /\ phase' = "up"
      /\ told' = IF notice THEN told \cup {stamp} ELSE told
      /\ wrong' = (wrong \/ check.crashed = (asked /\ ~lapse))
      /\ UNCHANGED <<time, files, check, tries, health, asked, lapse, boots>>

\* A crash, a kill, a signal before its handler, a login that failed for good, or
\* the end that was ordered.  What dies before the first stamp has never booted.
Die ==
  /\ phase # "off" /\ phase' = "off" /\ asked' = (phase = "stopping" \/ stamp = Never)
  /\ lapse' = (lapse /\ phase = "stopping")
  /\ UNCHANGED <<time, files, check, tries, health, told, wrong, boots>>

\* SIGTERM: the marker comes first, then everything is disposed of.
Shutdown ==
  /\ phase \in {"login", "up", "stopping"} /\ phase' = "stopping"
  /\ clean' = TRUE /\ lapse' = FALSE
  /\ UNCHANGED <<time, stamp, check, tries, health, asked, told, wrong, boots>>

\* The marker could not be written, which is only logged.
ShutdownUnmarked ==
  /\ phase \in {"login", "up", "stopping"} /\ phase' = "stopping"
  /\ lapse' = ~clean
  /\ UNCHANGED <<time, files, check, tries, health, asked, told, wrong, boots>>

-----------------------------------------------------------------------------
(* Requests to the language model.                                         *)

Kinds == {"deterministic", "transient", "content_filter"}

ReportSuccess ==
  /\ phase \in {"up", "stopping"}
  /\ failures' = 0 /\ alerted' = FALSE
  /\ ends' = IF alerted THEN ends + 1 ELSE ends
  /\ UNCHANGED <<time, phase, files, check, tries, alertAt, outages, seen, boots>>

ShouldAlert(kind, n) == kind = "deterministic" \/ n >= Threshold
\* Altered: the cooldown is not looked at.
NeverCooling == FALSE
Cooling == alertAt # Never /\ time - alertAt < Cooldown

\* The provider's filter refusing one prompt is no failure of the provider.
ReportFailure(kind) ==
  LET n == failures + 1
      alert == ShouldAlert(kind, n) /\ ~Cooling
  IN  /\ phase \in {"up", "stopping"} /\ kind # "content_filter"
      /\ failures' = IF n > Threshold THEN Threshold ELSE n
      /\ alertAt' = IF alert THEN time ELSE alertAt
      /\ alerted' = (alerted \/ alert)
      /\ outages' = IF alert THEN outages \cup {time} ELSE outages
      /\ UNCHANGED <<time, phase, files, check, tries, ends, seen, boots>>

Pass ==
  /\ time < LastTime /\ time' = time + 1
  /\ UNCHANGED <<phase, files, check, tries, health, seen, boots>>

WatchNext ==
  \/ Boot \/ Stamp \/ Install \/ LoginAgain \/ LoggedIn
  \/ Die \/ Shutdown \/ ShutdownUnmarked
  \/ ReportSuccess \/ \E kind \in Kinds : ReportFailure(kind)
  \/ Pass

WatchSpec == WatchInit /\ [][WatchNext]_watchVars

-----------------------------------------------------------------------------
(* Properties.                                                             *)

Apart(times, gap) == \A t, u \in times : t < u => u - t >= gap

\* Whenever the process dies, also between its own files, the next one that
\* reaches Discord knows whether it crashed, and takes a shutdown for a crash only
\* when its marker could not be written; the notices of a crash loop are a
\* window apart, alerts of an outage a cooldown, and each end of an outage that
\* is announced had been alerted (checkBootAndDetectCrash, markCleanShutdown,
\* reportSuccess, reportFailure).
WatchTruthful ==
  /\ ~wrong /\ Apart(told, Window) /\ Apart(outages, Cooldown)
  /\ ends + (IF alerted THEN 1 ELSE 0) <= Cardinality(outages)
=============================================================================
