--------------------------- MODULE ModerationTrail ---------------------------
(***************************************************************************)
(* What members and moderators can make the bot do to others, and the      *)
(* trail it leaves: the reports that members' turns pass on to the         *)
(* moderators, under the limits of src/moderation/store.ts, and the bans,  *)
(* timeouts and deletions that a moderator orders, under                   *)
(* src/moderation/trail.ts.                                                *)
(*                                                                         *)
(* One guild. A message is the turn it starts: a report or an order. Its   *)
(* author may edit or delete it and lose a role or a channel at any time,  *)
(* so every look at it and at its author may find that it does not hold.   *)
(***************************************************************************)
EXTENDS Naturals, FiniteSets

CONSTANTS
  Reports,      \* messages that report something
  Orders,       \* messages that order a sanction
  AuthorOf,     \* who wrote each message
  PlaceOf,      \* the channel each report was written in
  CitedOf,      \* whom a report names, or NoOne; whom or what an order is about
  NoOne,        \* a report that names nobody
  PersonGap,    \* the half hour between two notes of a reporter or about someone
  PlaceGap,     \* the five minutes between two notes from a channel
  DayLength,    \* a UTC day
  DailyCap,     \* delivered notes per day
  EndOfTime,    \* bound on the clock
  MaxRepeats    \* bound on crashes, and on messages that are delivered again

ASSUME TrailAssumption ==
  /\ {PersonGap, PlaceGap, DayLength, DailyCap} \subseteq Nat \ {0}
  /\ {EndOfTime, MaxRepeats} \subseteq Nat
  /\ Reports \cap Orders = {}

Triggers == Reports \cup Orders

VARIABLES
  clock,     \* Date.now(), in the unit of the gaps
  trail,     \* framework_moderation_trail: the row of each trigger
  acting,    \* how far the turn of each message is
  effects,   \* how often Discord did what each message asks for
  crashes,   \* restarts so far
  repeats    \* messages delivered again so far

environment == <<clock, repeats, crashes>>
trailVars == <<environment, trail, acting, effects>>

\* unconfirmed: refused:effect_unconfirmed or refused:delivery_unconfirmed.
NoRow == [outcome |-> "none", at |-> 0]
Row(outcome) == [outcome |-> outcome, at |-> clock]
Recorded(m) == trail[m] # NoRow

TrailInit ==
  /\ clock = 0
  /\ trail = [m \in Triggers |-> NoRow]
  /\ acting = [m \in Triggers |-> "new"]
  /\ effects = [m \in Triggers |-> 0]
  /\ crashes = 0 /\ repeats = 0

Moves(m, from, to) ==
  acting[m] = from /\ acting' = [acting EXCEPT ![m] = to]
\* ModerationStore.finish.
Finish(m, outcome) == trail' = [trail EXCEPT ![m].outcome = outcome]
Effect(m) == effects' = [effects EXCEPT ![m] = @ + 1]

-----------------------------------------------------------------------------
(* What happens around the turns.                                          *)

TimePasses ==
  /\ clock < EndOfTime /\ clock' = clock + 1
  /\ UNCHANGED <<crashes, repeats, trail, acting, effects>>

\* The turns die where they are; the rows stay.
TrailRestart ==
  /\ crashes < MaxRepeats /\ crashes' = crashes + 1
  /\ acting' = [m \in Triggers |-> IF acting[m] = "new" THEN "new" ELSE "over"]
  /\ UNCHANGED <<clock, repeats, trail, effects>>

\* The gateway sends a message a second time.
DeliveredAgain(m) ==
  /\ repeats < MaxRepeats /\ repeats' = repeats + 1
  /\ Moves(m, "over", "new")
  /\ UNCHANGED <<clock, crashes, trail, effects>>

-----------------------------------------------------------------------------
(* The turn is built: which tool the model gets.                           *)

\* A member's report, where the members of the server can read it; an order of
\* a moderator.
Offer(m) ==
  /\ Moves(m, "new", "offered")
  /\ UNCHANGED <<environment, trail, effects>>

\* An order of somebody else, or of a moderator outside the workspace: no tool,
\* only a row.
RefuseOrder(m) ==
  /\ m \in Orders
  /\ Moves(m, "new", "over")
  /\ trail' = IF Recorded(m) THEN trail ELSE [trail EXCEPT ![m] = Row("refused")]
  /\ UNCHANGED <<environment, effects>>

\* Not offered, or the model does not call it.
TurnWithout(m) ==
  /\ \/ m \in Reports /\ Moves(m, "new", "over")
     \/ Moves(m, "offered", "over")
  /\ UNCHANGED <<environment, trail, effects>>

-----------------------------------------------------------------------------
(* server_escalate_report.                                                 *)

\* canEscalateFrom, and the message as it is now.
ReportChecked(m) ==
  /\ m \in Reports
  /\ Moves(m, "offered", "checked") \/ Moves(m, "offered", "over")
  /\ UNCHANGED <<environment, trail, effects>>

Within(n, gap) == trail[n].at + gap > clock
\* Altered: a note counts against its reporter once it is known to have arrived.
CountsConfirmed(n) == trail[n].outcome = "confirmed"
\* Rows of notes count from the moment they are written.
Counts(n) == Recorded(n)
Today(n) == trail[n].at \div DayLength = clock \div DayLength
\* What was refused does not use up the day; a note on its way is not told apart.
Delivered(n) == trail[n].outcome = "confirmed"

Limited(m) ==
  \/ \E n \in Reports : Counts(n) /\
       \/ AuthorOf[n] = AuthorOf[m] /\ Within(n, PersonGap)
       \/ PlaceOf[n] = PlaceOf[m] /\ Within(n, PlaceGap)
       \/ CitedOf[m] # NoOne /\ CitedOf[n] = CitedOf[m] /\ Within(n, PersonGap)
  \/ Cardinality({n \in Reports : Delivered(n) /\ Today(n)}) >= DailyCap

\* reserveEscalation: one transaction.
ReserveReport(m) ==
  /\ m \in Reports
  /\ IF Limited(m) \/ Recorded(m)
     THEN Moves(m, "checked", "over") /\ UNCHANGED trail
     ELSE /\ Moves(m, "checked", "reserved")
          /\ trail' = [trail EXCEPT ![m] = Row("unconfirmed")]
  /\ UNCHANGED <<environment, effects>>

\* sendModerationLine: no workspace, one that others can read, or no connection.
NoteFails(m) ==
  /\ m \in Reports /\ Moves(m, "reserved", "over")
  /\ UNCHANGED <<environment, trail, effects>>

NotePosted(m) ==
  /\ m \in Reports /\ Moves(m, "reserved", "done") /\ Effect(m)
  /\ UNCHANGED <<environment, trail>>

\* The answer arrives, or never does.
NoteAnswered(m) ==
  /\ m \in Reports /\ Moves(m, "done", "over")
  /\ Finish(m, "confirmed") \/ UNCHANGED trail
  /\ UNCHANGED <<environment, effects>>

-----------------------------------------------------------------------------
(* server_ban_member, server_timeout_member, server_remove_timeout and     *)
(* server_delete_message.                                                  *)

\* withActionTrail, withBanTrail: a request that has a row was attempted before.
ReserveOrder(m) ==
  /\ m \in Orders
  /\ IF Recorded(m)
     THEN Moves(m, "offered", "over") /\ UNCHANGED trail
     ELSE /\ Moves(m, "offered", "reserved")
          /\ trail' = [trail EXCEPT ![m] = Row("unconfirmed")]
  /\ UNCHANGED <<environment, effects>>

\* A message is evidence once the trail cites it.
Evidence(x) == x \in Triggers /\ Recorded(x)

\* Authority, trigger, hierarchy and evidence, looked up one after the other.
OrderChecked(m) ==
  /\ m \in Orders
  /\ \/ ~Evidence(CitedOf[m]) /\ Moves(m, "reserved", "checked") /\ UNCHANGED trail
     \/ Moves(m, "reserved", "over") /\ Finish(m, "refused")
  /\ UNCHANGED <<environment, effects>>

OrderApplied(m) ==
  /\ m \in Orders /\ Moves(m, "checked", "done") /\ Effect(m)
  /\ UNCHANGED <<environment, trail>>

\* Discord refuses, or cannot be reached.
OrderFails(m) ==
  /\ m \in Orders /\ Moves(m, "checked", "over")
  /\ UNCHANGED <<environment, trail, effects>>

\* Its answer arrives, or does not; the line in the log is sent after the row.
OrderAnswered(m) ==
  /\ m \in Orders /\ Moves(m, "done", "over")
  /\ Finish(m, "confirmed") \/ UNCHANGED trail
  /\ UNCHANGED <<environment, effects>>

-----------------------------------------------------------------------------
TrailNext ==
  \/ TimePasses \/ TrailRestart
  \/ \E m \in Triggers :
       \/ DeliveredAgain(m)
       \/ Offer(m) \/ RefuseOrder(m) \/ TurnWithout(m)
       \/ ReportChecked(m) \/ ReserveReport(m)
       \/ NoteFails(m) \/ NotePosted(m) \/ NoteAnswered(m)
       \/ ReserveOrder(m) \/ OrderChecked(m)
       \/ OrderApplied(m) \/ OrderFails(m) \/ OrderAnswered(m)

TrailSpec == TrailInit /\ [][TrailNext]_trailVars

-----------------------------------------------------------------------------
(* Properties.                                                             *)

\* Whatever is lost, repeated or interrupted, nothing is done to anyone that the
\* trail does not have a row of, nothing is done twice for one request, and
\* executed or escalated is only said of what was done (withActionTrail,
\* withBanTrail, EscalationToolSource.handle).
EffectsRecorded ==
  \A m \in Triggers :
    /\ effects[m] <= 1
    /\ effects[m] = 1 => Recorded(m)
    /\ trail[m].outcome = "confirmed" => effects[m] = 1

\* The moderators never get two notes that were reserved within a half hour of each
\* other by one reporter or about one person, nor two from one channel within five
\* minutes, also when the turns overlap (reserveEscalation).
NotesSpaced ==
  \A m, n \in {r \in Reports : effects[r] > 0} :
    m # n /\ trail[m].at <= trail[n].at =>
      LET apart == trail[n].at - trail[m].at IN
      /\ AuthorOf[m] = AuthorOf[n] => apart >= PersonGap
      /\ PlaceOf[m] = PlaceOf[n] => apart >= PlaceGap
      /\ CitedOf[m] = CitedOf[n] => CitedOf[m] = NoOne \/ apart >= PersonGap

\* The trail and what was done agree, and the limits that are counted from its
\* rows hold for what was done.
TrailTruthful == EffectsRecorded /\ NotesSpaced

\* "20 delivered notes per guild per UTC day" (docs/capabilities/general-chat.md:39),
\* "All reservations are synchronous transactions: concurrent turns cannot race"
\* (src/moderation/store.ts:61).
DailyCapKept ==
  \A day \in 0..EndOfTime :
    Cardinality({r \in Reports : effects[r] > 0 /\ trail[r].at \div DayLength = day})
      <= DailyCap

=============================================================================
