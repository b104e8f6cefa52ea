---------------------------- MODULE InstagramGates ----------------------------
(***************************************************************************)
(* When the Instagram monitor may poll, and what a poll's failure sets     *)
(* off: the gates of a tick, the rolling budget of requests, cooldowns,    *)
(* the persistent kill-switch, the counters that pause an account, and the *)
(* requests one poll costs (src/capabilities/instagram_monitor:            *)
(* scheduler.ts, store.ts, fetcher.ts).                                    *)
(*                                                                         *)
(* One account; what a successful poll does with the posts is              *)
(* InstagramFeed. Quiet hours, the random skip and the cadence only delay  *)
(* polls: a poll here may begin at any time its gates are open.            *)
(***************************************************************************)
EXTENDS Integers, FiniteSetsExt

CONSTANTS
  Budget,        \* dailyRequestBudget
  Day,           \* REQUEST_WINDOW_MS and EVENT_WINDOW_MS
  AuthPause,     \* AUTH_PAUSE_THRESHOLD
  HardPause,     \* HARD_PAUSE_THRESHOLD
  TripCount,     \* RATE_LIMIT_TRIP_COUNT
  AuthCooldown,  \* AUTH_FAILURE_COOLDOWN_MS
  RateCooldown,  \* RATE_LIMIT_COOLDOWN_BASE_MS
  LongCooldown,  \* RATE_LIMIT_COOLDOWN_MAX_MS
  EndTime,       \* bound: the clock
  MaxCommands,   \* bound: commands of operators
  MaxRestarts    \* bound: restarts of the process

ASSUME GatesAssumption ==
  /\ {Budget, Day, AuthPause, HardPause, TripCount} \subseteq Nat \ {0}
  /\ {AuthCooldown, RateCooldown, LongCooldown} \subseteq Nat
  /\ {EndTime, MaxCommands, MaxRestarts} \subseteq Nat

VARIABLES
  gateClock,
  stopped,   \* global_stop, kept in the database
  throttles, \* recent_429_json, kept in the database: events at each time
  spent,     \* requestTimestamps: requests at each time, in memory
  saved,     \* request_window_json: spent, as the last tick wrote it
  authUntil, \* authCooldownUntilMs, in memory
  rateUntil, \* rateLimitCooldownUntilMs, in memory
  why,       \* lastBlockReason, in memory
  account,   \* the account's row
  phase,     \* where the tick is
  sent,      \* history: the requests Instagram got at each time
  flagged,   \* history: Instagram flagged the session, or throttled too often,
             \* since an operator last resumed the monitor
  hits,      \* history: throttled polls since then, at each time
  commands, restarts

gatesVars == <<gateClock, stopped, throttles, spent, saved, authUntil, rateUntil, why,
               account, phase, sent, flagged, hits, commands, restarts>>
memory == <<spent, authUntil, rateUntil, why>>
history == <<sent, flagged, hits>>
bounds == <<gateClock, commands, restarts>>

Times == 0..EndTime
Never == [t \in Times |-> 0]
\* What happened in the last day, as both windows are pruned.
Recent(f) == FoldSet(LAMBDA t, n : n + f[t], 0, {t \in Times : t >= gateClock - Day})
NewAccount ==
  [pk |-> FALSE, byName |-> FALSE, paused |-> FALSE, auth |-> 0, hard |-> 0]

GatesInit ==
  /\ gateClock = 0 /\ stopped = FALSE /\ throttles = Never /\ spent = Never
  /\ saved = Never /\ authUntil = 0 /\ rateUntil = 0 /\ why = "none"
  /\ account = NewAccount /\ phase = "idle"
  /\ sent = Never /\ flagged = FALSE /\ hits = Never
  /\ commands = 0 /\ restarts = 0

-----------------------------------------------------------------------------
(* A tick.                                                                 *)

\* The first gate that is closed.
Closed ==
  CASE stopped                 -> "killswitch"
    [] gateClock < authUntil       -> "auth"
    [] gateClock < rateUntil       -> "rate"
    [] Recent(spent) >= Budget -> "budget"
    [] OTHER                   -> "none"

TickBlocked ==
  /\ phase = "idle" /\ Closed # "none" /\ why' = Closed
  /\ UNCHANGED <<bounds, history, stopped, throttles, spent, saved, authUntil,
                 rateUntil, account, phase>>

Pollable ==
  ~account.paused /\ account.auth < AuthPause /\ account.hard < HardPause

\* The gates are open: the pause, if there was one, is over.
TickOpen ==
  /\ phase = "idle" /\ Closed = "none"
  /\ why' = "none" /\ (why # "none" \/ Pollable)
  /\ phase' = IF Pollable THEN "polling" ELSE "idle"
  /\ UNCHANGED <<bounds, history, stopped, throttles, spent, saved, authUntil,
                 rateUntil, account>>

Failures == {"unexpected", "account", "session", "rate", "html", "hard"}

\* A poll's requests, what came of them and what the account's hints are then:
\* an optional warm-up, the lookup of the numeric id unless it or the feed by
\* name is remembered, and the feed; a lookup that fails for good falls back to
\* the feed by name.
Fetches ==
  LET warm == {0, 1}
      F(n, outs, pk, byName) ==
        [cost : {n + w : w \in warm}, out : outs, pk : {pk}, byName : {byName}]
      known == account.pk \/ account.byName
  IN  [cost : {1}, out : {"session"}, pk : {account.pk}, byName : {account.byName}]
      \cup IF known
             THEN F(1, Failures \cup {"ok"}, account.pk, account.byName)
             ELSE F(1, Failures \ {"hard"}, FALSE, FALSE)
                  \cup F(2, Failures \cup {"ok"}, TRUE, FALSE)
                  \cup F(2, {"ok"}, FALSE, TRUE)
                  \cup F(2, Failures \ {"unexpected"}, FALSE, FALSE)

MostPerPoll == 3

\* The counters: success clears them, a failure of its class adds one.
Counted(f) ==
  [account EXCEPT
     !.pk = f.pk, !.byName = f.byName,
     !.auth = IF f.out = "ok" THEN 0
              ELSE IF f.out \in {"account", "session"} THEN @ + 1 ELSE @,
     !.hard = IF f.out = "ok" THEN 0 ELSE IF f.out = "hard" THEN @ + 1 ELSE @]

Cooldown(n) ==
  LET long == RateCooldown * 2 ^ Min({n - 1, 3})
  IN  Min({long, LongCooldown})

Trips(n) == n >= TripCount

\* Of some failures the operators are first told.
PhaseAfter(f, n) ==
  CASE f.out = "session"                                  -> "alerting"
    [] f.out = "rate" /\ Trips(n)                         -> "telling"
    [] f.out = "hard" /\ account.hard + 1 = HardPause     -> "telling"
    [] OTHER                                              -> "idle"

\* The tick ends and its requests are written with the heartbeat.
FetchAnswers(f) ==
  LET more(g) == [g EXCEPT ![gateClock] = @ + 1]
      used == [spent EXCEPT ![gateClock] = @ + f.cost]
      n == Recent(throttles) + 1
      wait == IF f.out = "rate" THEN Cooldown(n) ELSE RateCooldown
  IN  /\ phase = "polling"
      /\ spent' = used /\ sent' = [sent EXCEPT ![gateClock] = @ + f.cost]
      /\ account' = Counted(f)
      /\ phase' = PhaseAfter(f, n)
      /\ saved' = IF phase' = "idle" THEN used ELSE saved
      /\ authUntil' = IF f.out = "session" THEN gateClock + AuthCooldown ELSE authUntil
      /\ rateUntil' = IF f.out \in {"rate", "html"}
                       THEN Max({rateUntil, gateClock + wait}) ELSE rateUntil
      /\ throttles' = IF f.out = "rate" THEN more(throttles) ELSE throttles
      /\ hits' = IF f.out = "rate" THEN more(hits) ELSE hits
      /\ stopped' = (stopped \/ (f.out = "rate" /\ Trips(n)))
      /\ flagged' = (\/ flagged \/ f.out = "session"
                     \/ f.out = "rate" /\ Recent(hits) + 1 >= TripCount)
      /\ UNCHANGED <<bounds, why>>

\* The operators were told, or could not be. Only now a flagged session
\* engages the kill-switch.
Told ==
  /\ phase \in {"alerting", "telling"}
  /\ phase' = "idle" /\ stopped' = (stopped \/ phase = "alerting")
  /\ saved' = spent
  /\ UNCHANGED <<bounds, history, throttles, memory, account>>

-----------------------------------------------------------------------------
(* Operators, time and restarts.                                           *)

Instruct == commands < MaxCommands /\ commands' = commands + 1
Apart == UNCHANGED <<gateClock, restarts, memory, saved, phase, sent>>

ResumeMonitor ==
  /\ Instruct /\ stopped' = FALSE /\ throttles' = Never
  /\ flagged' = FALSE /\ hits' = Never
  /\ UNCHANGED account /\ Apart

Pause ==
  /\ Instruct /\ account' = [account EXCEPT !.paused = TRUE]
  /\ UNCHANGED <<stopped, throttles, flagged, hits>> /\ Apart

\* Resuming the account and forcing a poll both try it again from the start.
TryAgain(paused) ==
  /\ Instruct
  /\ account' = [account EXCEPT !.paused = paused, !.hard = 0, !.byName = FALSE]
  /\ UNCHANGED <<stopped, throttles, flagged, hits>> /\ Apart

Pass ==
  /\ gateClock < EndTime /\ gateClock' = gateClock + 1
  /\ UNCHANGED <<commands, restarts, history, stopped, throttles, memory, saved,
                 account, phase>>

\* Altered: the window of requests begins empty.
RestoredNone == Never
Restored == saved

\* A restart loses the memory, clears the failures that a restart may heal, and
\* keeps the kill-switch. One that comes while the operators are being told of
\* a flagged session comes before the kill-switch (see the README).
Restart ==
  /\ restarts < MaxRestarts /\ restarts' = restarts + 1
  /\ spent' = Restored /\ authUntil' = 0 /\ rateUntil' = 0
  /\ why' = (IF stopped THEN "killswitch" ELSE "none")
  /\ account' = [account EXCEPT !.auth = 0]
  /\ phase' = "idle"
  /\ flagged' = (flagged /\ phase # "alerting")
  /\ UNCHANGED <<gateClock, commands, stopped, throttles, saved, sent, hits>>

GatesNext ==
  \/ TickBlocked \/ TickOpen \/ Told
  \/ \E f \in Fetches : FetchAnswers(f)
  \/ ResumeMonitor \/ Pause \/ Pass \/ Restart
  \/ \E b \in {account.paused, FALSE} : TryAgain(b)

GatesSpec == GatesInit /\ [][GatesNext]_gatesVars

-----------------------------------------------------------------------------
(* Properties.                                                             *)

\* In any day Instagram gets at most the daily budget, the rest of the poll
\* that reached it, and for each restart one poll that was never written down
\* (tickOnce, heartbeat, start: the window survives a restart).
BudgetRespected ==
  Recent(sent) <= Budget - 1 + MostPerPoll * (1 + restarts)

\* After Instagram flagged the session, or throttled TripCount polls in a day,
\* no poll begins until an operator resumed the monitor, whatever restarts and
\* time do to cooldowns (tripBreaker, tickOnce).
FlagStopsPolling == phase = "idle" /\ phase' = "polling" => ~flagged

\* Both together: no step overdraws the day or polls against the flag.
PollingBounded == [][BudgetRespected' /\ FlagStopsPolling]_gatesVars
=============================================================================
