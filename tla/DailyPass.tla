------------------------------- MODULE DailyPass -------------------------------
(***************************************************************************)
(* The announcer's pass over the sessions of today and tomorrow: which are *)
(* due, which scheduled event of Discord belongs to each, and what the     *)
(* moderators are told is missing                                          *)
(* (src/capabilities/calendar/announcer.ts, announce.ts, match.ts).        *)
(*                                                                         *)
(* The timer's pass never overlaps itself; one from the console may run    *)
(* beside it.  A row is one session, in the evening of its day.  How an    *)
(* announcement itself is reserved, sent and recorded is Broadcast; here   *)
(* it is posted and recorded in one step.                                  *)
(***************************************************************************)
EXTENDS Integers, FiniteSets, FiniteSetsExt

CONSTANTS
  Rows, Events,
  Likeness,      \* titleSimilarity of a row and an event, in percent
  Nobody,        \* no event
  Span,          \* bound on the clock
  Changes,       \* bound: changes of moderators, to rows and events
  Mishaps,       \* bound: failed requests and restarts
  Forced         \* bound: passes from the console

ASSUME DailyAssumption ==
  /\ Nobody \notin Events /\ Likeness \in [Rows \X Events -> 0..100]
  /\ {Span, Changes, Mishaps, Forced} \subseteq Nat

Runs == {"timer", "console"}

VARIABLES
  clock,    \* in half days: the announce hour is the middle of the day
  row,      \* calendar_events: the day of the session, 0 once deleted, and the
            \* stored link
  event,    \* Discord's scheduled events
  records,  \* calendar_announcements
  pass,     \* the announcer's runs
  said,     \* how often the moderators were told something
  steady,   \* history: rows linked to a live event since a pass came to them,
            \* if it could always look
  excused,  \* history: keys whose repetition is known
  taken     \* bounds taken up

dailyVars == <<clock, row, event, records, pass, said, steady, excused, taken>>

Days == 1..Span
Keys == {"nudge", "banner"} \X Rows \X Days
DayAt(t) == (t \div 2) + 1
Deleted == [day |-> 0, link |-> Nobody]

\* What resolveTarget found for a row: an event, the same without its cover, none
\* at all, or maybe one (maybeLinked).
Linked(e) == [event |-> e, bare |-> ~event[e].cover, maybe |-> FALSE]
Unlinked(maybe) == [event |-> Nobody, bare |-> FALSE, maybe |-> maybe]
IdlePass == [pc |-> "idle", at |-> 0, force |-> FALSE, again |-> FALSE,
             day |-> <<>>, due |-> {}, todo |-> {}, list |-> {}, asked |-> {},
             target |-> <<>>, news |-> {}]

DailyInit ==
  /\ clock = 0
  /\ row \in [Rows -> {Deleted} \cup {[day |-> d, link |-> Nobody] : d \in Days}]
  /\ event = [e \in Events |-> [up |-> FALSE, day |-> 0, cover |-> FALSE]]
  /\ records = {} /\ pass = [p \in Runs |-> IdlePass]
  /\ said = [k \in Keys |-> 0]
  /\ steady = [p \in Runs |-> {}] /\ excused = {}
  /\ \E n \in 0..Forced : taken = [edits |-> 0, mishaps |-> 0, forced |-> n]

Up(e) == e # Nobody /\ event[e].up
Mishap == taken.mishaps < Mishaps /\ taken' = [taken EXCEPT !.mishaps = @ + 1]

\* steady after a step that changed rows, events or nothing.
StillSteady ==
  steady' = [p \in Runs |->
    {r \in steady[p] : row'[r].link # Nobody /\ event'[row'[r].link].up}]
Unsteady(p) == steady' = [steady EXCEPT ![p] = {}]

-----------------------------------------------------------------------------
(* match.ts.                                                               *)

\* The score of a start at the same evening, or a day apart; two days are
\* outside the window of 26 hours.
Closeness(apart) == IF apart = 0 THEN 100 ELSE 7
DaysApart(p, r, e) ==
  LET d == pass[p].day[r] - event[e].day IN IF d < 0 THEN -d ELSE d
Score(p, r, e) == 60 * Likeness[r, e] + 40 * Closeness(DaysApart(p, r, e))

Candidates(p, r) == {e \in pass[p].list : DaysApart(p, r, e) <= 1}

\* The events the scorer links without asking: the best, clearly.
Matched(p, r) ==
  {e \in Candidates(p, r) :
     /\ Score(p, r, e) >= 6200 /\ Likeness[r, e] >= 34
     /\ \A f \in Candidates(p, r) \ {e} : Score(p, r, e) - Score(p, r, f) > 1200}

-----------------------------------------------------------------------------
(* A pass.                                                                 *)

\* announcementsDue: of today, from the hour on, and not in the records.
Due(at, force, again, day) ==
  {r \in DOMAIN day :
     /\ force \/ at % 2 = 1
     /\ day[r] = DayAt(at) /\ (again \/ <<"announce", r, day[r]>> \notin records)}

BeginPass(p) ==
  /\ pass[p].pc = "idle"
  /\ \E force, again \in BOOLEAN :
       LET near == {r \in Rows : row[r].day \in {DayAt(clock), DayAt(clock) + 1}}
           day == [r \in near |-> row[r].day]
       IN  /\ IF p = "console"
              THEN /\ force /\ taken.forced < Forced
                   /\ taken' = [taken EXCEPT !.forced = @ + 1]
              ELSE ~(force \/ again) /\ UNCHANGED taken
           /\ pass' = [pass EXCEPT ![p] =
                [IdlePass EXCEPT !.pc = "listing", !.at = clock, !.force = force,
                             !.again = again, !.day = day, !.todo = near,
                             !.due = Due(clock, force, again, day)]]
  /\ Unsteady(p)
  /\ UNCHANGED <<clock, row, event, records, said, excused>>

\* fetchScheduledEvents answers null when it failed.
ListEvents(p) ==
  LET live == {e \in Events : Up(e)} IN
  /\ pass[p].pc = "listing"
  /\ \/ /\ pass' = [pass EXCEPT ![p].pc = "resolving", ![p].list = live]
        /\ UNCHANGED <<steady, taken>>
     \/ Mishap /\ Unsteady(p)
        /\ pass' = [pass EXCEPT ![p].pc = "resolving"]
  /\ UNCHANGED <<clock, row, event, records, said, excused>>

\* Sessions come in the order of their start.
Upcoming(p) ==
  CHOOSE r \in pass[p].todo : \A s \in pass[p].todo : pass[p].day[r] <= pass[p].day[s]

Found(p, r, t) ==
  pass' = [pass EXCEPT ![p].pc = "resolving", ![p].todo = @ \ {r},
             ![p].target = [x \in DOMAIN @ \cup {r} |-> IF x = r THEN t ELSE @[x]],
             ![p].asked = {}, ![p].list = IF pass[p].todo = {r} THEN {} ELSE @]

Link(r, e) ==
  row' = IF row[r].day = 0 THEN row ELSE [row EXCEPT ![r].link = e]

\* What follows when no link is stored, or the stored one is given up.
Match(p, r, given) ==
  IF Matched(p, r) # {} THEN
       \E e \in Matched(p, r) : Found(p, r, Linked(e)) /\ Link(r, e)
  ELSE /\ IF given THEN Link(r, Nobody) ELSE UNCHANGED row
       /\ IF Candidates(p, r) = {} THEN Found(p, r, Unlinked(FALSE))
          ELSE IF r \notin pass[p].due THEN Found(p, r, Unlinked(TRUE))
          ELSE pass' = [pass EXCEPT ![p].pc = "asking", ![p].asked = Candidates(p, r)]

CameTo(p, r) ==
  steady' = [steady EXCEPT ![p] = IF Up(row[r].link) THEN @ \cup {r} ELSE @]

\* Altered: a stored event that is not in the list is given up.
ResolveFromList(p) ==
  /\ pass[p].pc = "resolving"
  /\ \E r \in pass[p].todo :
       LET stored == row[r].link IN
       /\ r = Upcoming(p)
       /\ IF stored # Nobody /\ stored \in pass[p].list
          THEN Found(p, r, Linked(stored)) /\ UNCHANGED row
          ELSE Match(p, r, stored # Nobody)
       /\ CameTo(p, r)
  /\ UNCHANGED <<clock, event, records, said, excused, taken>>

Resolve(p) ==
  /\ pass[p].pc = "resolving"
  /\ \E r \in pass[p].todo :
       LET stored == row[r].link IN
       /\ r = Upcoming(p)
       /\ IF stored = Nobody THEN Match(p, r, FALSE)
          ELSE /\ UNCHANGED row
               /\ IF stored \in pass[p].list THEN Found(p, r, Linked(stored))
                  ELSE pass' = [pass EXCEPT ![p].pc = "checking", ![p].asked = {stored}]
       /\ CameTo(p, r)
  /\ UNCHANGED <<clock, event, records, said, excused, taken>>

\* fetchScheduledEvent answers null for an event that is over and for any error;
\* the link given up is the one stored by now.
CheckStored(p) ==
  /\ pass[p].pc = "checking"
  /\ UNCHANGED <<clock, event, records, said, excused>>
  /\ \E r \in pass[p].todo, stored \in pass[p].asked :
       /\ r = Upcoming(p)
       /\ \/ /\ Up(stored) /\ Found(p, r, Linked(stored))
             /\ UNCHANGED <<row, steady, taken>>
          \/ ~Up(stored) /\ Match(p, r, TRUE) /\ UNCHANGED taken /\ StillSteady
          \/ Mishap /\ Match(p, r, TRUE) /\ Unsteady(p)

\* parseMatchReply takes only an id that was offered; a failed turn names none.
Arbitrate(p) ==
  /\ pass[p].pc = "asking"
  /\ \E r \in pass[p].todo, e \in pass[p].asked \cup {Nobody} :
       /\ r = Upcoming(p)
       /\ IF e = Nobody THEN Found(p, r, Unlinked(FALSE)) /\ UNCHANGED row
          ELSE Found(p, r, Linked(e)) /\ Link(r, e)
  /\ UNCHANGED <<clock, event, records, said, excused, taken>>
  /\ StillSteady

\* The records refuses what was announced meanwhile, unless this is a repost.
AnnounceDue(p) ==
  /\ pass[p].pc = "resolving" /\ pass[p].todo = {} /\ pass[p].due # {}
  /\ \E r \in pass[p].due :
       LET key == <<"announce", r, pass[p].day[r]>> IN
       /\ pass' = [pass EXCEPT ![p].due = @ \ {r}]
       /\ \/ records' = records \cup {key} /\ UNCHANGED taken
          \/ Mishap /\ UNCHANGED records
  /\ UNCHANGED <<clock, row, event, said, steady, excused>>

-----------------------------------------------------------------------------
(* What the moderators are told.                                           *)

Untold(p, kind, r) ==
  pass[p].again \/ <<kind, r, pass[p].day[r]>> \notin records

\* nudgesDue: sessions without a plausible event that are not over.
Missing(p) ==
  {r \in DOMAIN pass[p].target :
     pass[p].target[r] = Unlinked(FALSE) /\ Untold(p, "nudge", r)}

\* bannerRemindersDue: tomorrow's, from the hour on, without a cover.
Coverless(p) ==
  {r \in DOMAIN pass[p].target :
     /\ pass[p].force \/ pass[p].at % 2 = 1
     /\ pass[p].day[r] = DayAt(pass[p].at) + 1
     /\ pass[p].target[r].bare /\ Untold(p, "banner", r)}

KeysOf(p, kind) == {<<kind, r, pass[p].day[r]>> : r \in pass[p].news}
Kind(p) == IF pass[p].pc \in {"nudge", "nudged"} THEN "nudge" ELSE "banner"

\* Two passes that tell the same at once are known.
Notify(p, kind, sessions) ==
  /\ pass' = [pass EXCEPT ![p].pc = kind, ![p].news = sessions]
  /\ excused' = excused \cup {k \in Keys :
       /\ k[1] = kind /\ k[2] \in sessions /\ k[3] = pass[p].day[k[2]]
       /\ \/ pass[p].again
          \/ \E q \in Runs \ {p} : k \in KeysOf(q, Kind(q))}

EndPass(p) == pass' = [pass EXCEPT ![p] = IdlePass] /\ UNCHANGED excused

AfterAnnouncing(p) ==
  /\ pass[p].pc = "resolving" /\ pass[p].todo = {} /\ pass[p].due = {}
  /\ IF Missing(p) # {} THEN Notify(p, "nudge", Missing(p))
     ELSE IF Coverless(p) # {} THEN Notify(p, "banner", Coverless(p))
     ELSE EndPass(p)
  /\ UNCHANGED <<clock, row, event, records, said, steady, taken>>

\* One message for all; postToMods reports success whatever becomes of it, and a
\* failed one, which may have landed, goes to the configuration channel too.
Told(p) ==
  LET keys == KeysOf(p, Kind(p)) IN
  /\ pass[p].pc \in {"nudge", "banner"}
  /\ \/ /\ said' = [k \in Keys |-> IF k \in keys THEN said[k] + 1 ELSE said[k]]
        /\ UNCHANGED <<excused, taken>>
     \/ Mishap /\ excused' = excused \cup keys /\ UNCHANGED said
  /\ pass' = [pass EXCEPT ![p].pc = IF @ = "nudge" THEN "nudged" ELSE "reminded"]
  /\ UNCHANGED <<clock, row, event, records, steady>>

Note(p) ==
  /\ pass[p].pc \in {"nudged", "reminded"}
  /\ records' = records \cup KeysOf(p, Kind(p))
  /\ IF pass[p].pc = "nudged" /\ Coverless(p) # {}
     THEN Notify(p, "banner", Coverless(p))
     ELSE EndPass(p)
  /\ UNCHANGED <<clock, row, event, said, steady, taken>>

-----------------------------------------------------------------------------
(* The world.                                                              *)

Change == taken.edits < Changes /\ taken' = [taken EXCEPT !.edits = @ + 1]

\* A moderator moves or deletes a session, or the calendar's sync links it.
ChangeRow ==
  /\ Change
  /\ \E r \in Rows :
       /\ row[r].day # 0
       /\ \/ \E d \in Days \ {row[r].day} : row' = [row EXCEPT ![r].day = d]
          \/ row' = [row EXCEPT ![r] = Deleted]
          \/ \E e \in Events : Up(e) /\ e # row[r].link
                               /\ row' = [row EXCEPT ![r].link = e]
  /\ UNCHANGED event /\ StillSteady
  /\ UNCHANGED <<clock, records, pass, said, excused>>

\* An event is created, by hand or by the sync that links it, deleted, or given
\* its cover.
ChangeEvent ==
  /\ Change
  /\ \E e \in Events :
       \/ /\ ~event[e].up /\ event[e].day = 0
          /\ \E d \in Days :
               event' = [event EXCEPT ![e] = [up |-> TRUE, day |-> d, cover |-> FALSE]]
          /\ \/ UNCHANGED row
             \/ \E r \in Rows : row[r].day # 0 /\ row' = [row EXCEPT ![r].link = e]
       \/ Up(e) /\ event' = [event EXCEPT ![e].up = FALSE] /\ UNCHANGED row
       \/ Up(e) /\ event' = [event EXCEPT ![e].cover = TRUE] /\ UNCHANGED row
  /\ StillSteady
  /\ UNCHANGED <<clock, records, pass, said, excused>>

Hours ==
  /\ DayAt(clock + 1) <= Span /\ clock' = clock + 1
  /\ UNCHANGED <<row, event, records, pass, said, steady, excused, taken>>

\* What was told and not recorded yet is told again after a restart.
RestartPasses ==
  /\ Mishap
  /\ excused' = excused \cup UNION {KeysOf(p, Kind(p)) : p \in {p \in Runs :
                                      pass[p].pc \in {"nudged", "reminded"}}}
  /\ pass' = [p \in Runs |-> IdlePass]
  /\ UNCHANGED <<clock, row, event, records, said, steady>>

DailyNext ==
  \/ \E p \in Runs :
       \/ BeginPass(p) \/ ListEvents(p) \/ Resolve(p) \/ CheckStored(p)
       \/ Arbitrate(p) \/ AnnounceDue(p) \/ AfterAnnouncing(p) \/ Told(p) \/ Note(p)
  \/ ChangeRow \/ ChangeEvent \/ Hours \/ RestartPasses

DailySpec == DailyInit /\ [][DailyNext]_dailyVars

-----------------------------------------------------------------------------
(* Properties.                                                             *)

\* The moderators are never told that the event of a session is missing when a
\* live one was stored since the pass came to the session, though it was created
\* after the pass read the list; unless the pass's own look failed
\* (resolveTarget).
NoNagAboutLinked ==
  \A p \in Runs : pass[p].pc = "nudge" => pass[p].news \cap steady[p] = {}

\* The moderators are told each thing once, over passes, restarts and sessions
\* that share a message; but for failed messages, restarts before the record,
\* passes that overlap and forced repetitions (nudgeKey, bannerKey).
ToldOnce == \A k \in Keys : said[k] <= 1 \/ k \in excused

\* What the moderators are told is true when it is said, and said once.
ModeratorsToldTruly == NoNagAboutLinked /\ ToldOnce

\* A pass forgets a link only if the event it names is over (resolveTarget: "The
\* admin deleted it").
ForgottenLinkIsGone ==
  [][\A r \in Rows : row'[r].day # 0 /\ row[r].link # Nobody /\ row'[r].link = Nobody
       => ~event[row[r].link].up]_dailyVars
=============================================================================
