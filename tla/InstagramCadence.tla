--------------------------- MODULE InstagramCadence ---------------------------
(***************************************************************************)
(* Which account the Instagram monitor polls next                          *)
(* (src/capabilities/instagram_monitor: scheduler.ts, store.ts): each has  *)
(* an interval learned from its posts, the allocator stretches the         *)
(* intervals until the day's requests fit the budget, failures back off,   *)
(* chance delays a poll, one account is polled a tick, and after an outage *)
(* the fleet catches up slowly.                                            *)
(*                                                                         *)
(* Time is counted in ticks. The allocator's scale is written as the       *)
(* stretch x = day / scale^2, so that an account with natural interval m   *)
(* gets the interval sqrt(m * x).  What one poll does is InstagramFeed;    *)
(* when polling is allowed at all is InstagramGates.                       *)
(***************************************************************************)
EXTENDS Integers, FiniteSets, FiniteSetsExt

CONSTANTS
  Accounts,
  Learnable,       \* what the posts may teach: natural interval and overflow cap
  Cold,            \* CADENCE_COLD_START_INTERVAL_MS
  Ceil,            \* CADENCE_MAX_INTERVAL_MS
  MaxBackoff,      \* MAX_BACKOFF_MS
  HardLimit,       \* HARD_PAUSE_THRESHOLD
  DayTicks, Quiet, \* a day and its quiet hours
  Ceiling,         \* polls a day that fit the budget
  Gap,             \* RESUME_DRIP_GAP_MS
  Stale,           \* RESUME_DRIP_STALE_MS
  MaxFailures,     \* bound: failures counted
  MaxOrders,       \* bound: commands of operators, and restarts
  Unknown

ASSUME CadenceAssumption ==
  /\ IsFiniteSet(Accounts)
  /\ {Cold, Ceil, MaxBackoff, HardLimit, DayTicks, Gap} \subseteq Nat \ {0}
  /\ {Quiet, Ceiling, Stale, MaxFailures, MaxOrders} \subseteq Nat
  /\ Learnable \subseteq [every : 1..Ceil, most : Nat]

VARIABLES
  acc,      \* instagram_monitor_accounts: age of the last poll, failures, ...
  later,    \* pairs of accounts, the second polled after the first's last poll
  stretch,  \* poll_alloc_scale, 0 for NULL
  since,    \* since lastPollAttemptAtMs, in memory; Gap when longer ago or never
  real,     \* history: since a poll was really made, Gap when longer ago
  waits,    \* history: ticks that could poll but left out an account, while it was
            \* certainly due
  rushed,   \* history: a stale fleet was polled twice within Gap
  fresh,    \* history: the process has not polled yet, and the fleet was
            \* not stale when it started
  orders

cadenceVars == <<acc, later, stretch, since, real, waits, rushed, fresh, orders>>
past == <<real, waits, rushed>>

NeverPolled == -1

\* Up to this fraction of the interval is waited at random.
Jitter(base) == (3 * base) \div 4

\* Failed five times for a reason that stays, or paused.
Off(r) == r.paused \/ r.hard >= HardLimit

\* The band of an account: an unknown one is not stretched.
MinOf(r) == IF r.learned = Unknown THEN Cold ELSE r.learned.every
MaxOf(r) ==
  IF r.learned = Unknown THEN Cold ELSE Max({MinOf(r), Min({Ceil, r.learned.most})})

Root(n) == Max({k \in 0..n : k * k <= n})
BaseInterval(r, x) ==
  IF x = 0 THEN MinOf(r) ELSE Min({Max({Root(MinOf(r) * x), MinOf(r)}), MaxOf(r)})

\* Polls a day at an interval, in sixtieths: those of the waking hours and one
\* at their beginning. One tick stands for what chance adds.
ExpectedPolls(iv) ==
  Min({(60 * DayTicks) \div (iv + 1), (60 * (DayTicks - Quiet)) \div (iv + 1) + 60})

PollsAt(a, x) ==
  MapThenSumSet(LAMBDA u : ExpectedPolls(BaseInterval(a[u], x)),
                {u \in Accounts : ~Off(a[u])})

\* The intervals asked for if they fit, else the least stretch that fits, else
\* every account at its slowest.
Allocation(a) ==
  LET fits(x) == PollsAt(a, x) <= 60 * Ceiling
      most == Max({0} \cup {MaxOf(a[u]) * MaxOf(a[u]) : u \in {v \in Accounts : ~Off(a[v])}})
  IN  IF fits(0) THEN 0 ELSE Min({most} \cup {x \in 1..most : fits(x)})

\* How long after its last poll an account is due at the earliest, and at the
\* latest under the worst draw.
SoonestDue(r, x) ==
  LET base == BaseInterval(r, x)
  IN  Min({base * 2 ^ r.failures, Max({MaxBackoff, base})})
LatestDue(r, x) == SoonestDue(r, x) + Jitter(BaseInterval(r, x))
MaxAge == Max({Ceil, MaxBackoff}) + Jitter(Ceil) + Stale + 1

AddedAccount ==
  [age |-> NeverPolled, failures |-> 0, hard |-> 0, paused |-> FALSE, learned |-> Unknown]

CadenceInit ==
  /\ acc = [u \in Accounts |-> AddedAccount] /\ stretch = Allocation(acc)
  /\ later = {} /\ since = Gap /\ real = Gap /\ waits = [u \in Accounts |-> 0]
  /\ rushed = FALSE /\ fresh = FALSE /\ orders = 0

-----------------------------------------------------------------------------
(* A tick.                                                                 *)

MayBeDue(r) == ~Off(r) /\ (r.age = NeverPolled \/ r.age >= SoonestDue(r, stretch))
MustBeDue(r) == ~Off(r) /\ (r.age = NeverPolled \/ r.age >= LatestDue(r, stretch))

\* What chance may make due.
Draws(a) ==
  {due \in SUBSET {u \in Accounts : MayBeDue(a[u])} :
     \A u \in Accounts : MustBeDue(a[u]) => u \in due}

PolledBefore(u, v) == <<u, v>> \in later

\* Altered: the account polled last comes first.
NewestFirst(a, u, v) ==
  a[u].age # NeverPolled /\ (a[v].age = NeverPolled \/ PolledBefore(v, u))
\* ORDER BY COALESCE(last_polled_at, 0)
Before(a, u, v) ==
  a[v].age # NeverPolled /\ (a[u].age = NeverPolled \/ PolledBefore(u, v))

\* One account a tick, of the oldest that are due.
Oldest(a, due) == {u \in due : \A v \in due : ~Before(a, v, u)}

FleetIsStale(a) ==
  \E u \in Accounts :
    LET base == BaseInterval(a[u], stretch)
    IN  /\ ~Off(a[u])
        /\ a[u].age = NeverPolled \/ a[u].age >= base + Jitter(base) + Stale

ShouldDrip(a, s) == s < Gap /\ FleetIsStale(a)

Reallocate == stretch' = Allocation(acc')

Older(n, most) == IF n = NeverPolled THEN n ELSE Min({n + 1, most})
Aged == [u \in Accounts |-> [acc[u] EXCEPT !.age = Older(@, MaxAge)]]

\* What the posts of the last weeks teach, if they are enough to teach anything.
Learned(r) == Learnable \cup {r.learned}

\* What a poll leaves: an account polled anew, with what its posts taught.
Polled(r) ==
  [age : {0}, failures : {0}, hard : {0}, paused : {r.paused},
   learned : Learned(r)]
  \cup {[r EXCEPT !.age = 0, !.failures = Min({@ + 1, MaxFailures}),
                 !.hard = Min({@ + h, HardLimit})] :
          h \in {0, 1}}

Waited(a, u) == IF MustBeDue(a[u]) /\ a[u].age # NeverPolled THEN waits[u] + 1 ELSE 0

\* A kill-switch, a cooldown, the budget, quiet hours or chance: no poll.
ClosedTick ==
  /\ acc' = Aged /\ since' = Older(since, Gap) /\ real' = Older(real, Gap)
  /\ Reallocate
  /\ UNCHANGED <<later, waits, rushed, fresh, orders>>

\* Nobody is due, or the last poll of a fleet that catches up is too recent.
IdleTick ==
  /\ {} \in Draws(Aged) \/ ShouldDrip(Aged, Older(since, Gap))
  /\ acc' = Aged /\ since' = Older(since, Gap) /\ real' = Older(real, Gap)
  /\ Reallocate
  /\ waits' = [u \in Accounts |-> Waited(Aged, u)]
  /\ UNCHANGED <<later, rushed, fresh, orders>>

PollTick(u, r) ==
  /\ \E due \in Draws(Aged) : u \in Oldest(Aged, due)
  /\ ~ShouldDrip(Aged, Older(since, Gap))
  /\ acc' = [Aged EXCEPT ![u] = r] /\ r \in Polled(Aged[u])
  /\ later' = {p \in later : u \notin {p[1], p[2]}} \cup {<<v, u>> : v \in Accounts \ {u}}
  /\ since' = 0 /\ real' = 0
  /\ Reallocate
  /\ waits' = [v \in Accounts |-> IF v = u THEN 0 ELSE Waited(Aged, v)]
  /\ rushed' = (rushed \/ (FleetIsStale(Aged) /\ Older(real, Gap) < Gap /\ ~fresh))
  /\ fresh' = FALSE /\ UNCHANGED orders

\* An operator pauses an account, resumes it, or asks for a poll of it now.
Operate(u, r) ==
  /\ orders < MaxOrders /\ orders' = orders + 1
  /\ acc' = [acc EXCEPT ![u] = r]
  /\ waits' = [waits EXCEPT ![u] = 0]
  /\ UNCHANGED <<later, stretch, since, real, rushed, fresh>>
PauseAccount(u, b) ==
  Operate(u, [acc[u] EXCEPT !.paused = b, !.hard = IF b THEN @ ELSE 0])
ForcePoll(u) == Operate(u, [acc[u] EXCEPT !.age = NeverPolled, !.hard = 0])

\* Altered: the first poll after a restart does not wait.
AtOnce(a) == Gap
\* A fleet that is stale at the start waits a gap before its first poll.
SeededGap(a) == IF FleetIsStale(a) THEN 0 ELSE Gap

StartAgain ==
  LET healed == [u \in Accounts |-> [acc[u] EXCEPT !.failures = 0]]
  IN  /\ orders < MaxOrders /\ orders' = orders + 1
      /\ acc' = healed /\ stretch' = Allocation(healed)
      /\ since' = SeededGap(healed)
      /\ fresh' = ~FleetIsStale(healed)
      /\ UNCHANGED <<past, later>>

CadenceNext ==
  \/ ClosedTick \/ IdleTick
  \/ \E u \in Accounts : \E r \in Polled(Aged[u]) : PollTick(u, r)
  \/ \E u \in Accounts : ForcePoll(u) \/ \E b \in BOOLEAN : PauseAccount(u, b)
  \/ StartAgain

CadenceSpec == CadenceInit /\ [][CadenceNext]_cadenceVars

-----------------------------------------------------------------------------
(* Properties.                                                             *)

\* Whatever intervals, failures, chance and outages did: of the ticks that may
\* poll, an account that stays certainly due sits out at most a gap for each
\* account and each command, and a fleet that catches up is not polled twice
\* within the gap, also not across a restart (dueAccounts, shouldResumeDrip,
\* start).
PollsPaced ==
  /\ \A u \in Accounts : waits[u] <= Gap * (Cardinality(Accounts) + orders)
  /\ ~rushed
=============================================================================
