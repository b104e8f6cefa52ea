------------------------------ MODULE EventIntake ------------------------------
(***************************************************************************)
(* One ticket of the event funnel: the form that opens it, the flyer job   *)
(* handed to the design commission, the calendar event a moderator         *)
(* approves, and the flyer that becomes the cover of its Discord event     *)
(* (src/capabilities/event_intake: watcher.ts, flyer-service.ts,           *)
(* flyer-tools.ts, store.ts).                                              *)
(*                                                                         *)
(* Messages are handled as they arrive: a handler runs alone up to an      *)
(* await, and another may run before it resumes. What the model of         *)
(* language answers, who may use which tool and the notices posted are     *)
(* left out: any handler may take any tool's step. Calendar rows that      *)
(* share one Discord event are one event here; how a Discord event is kept *)
(* in step with its row is CalendarMirror.                                 *)
(***************************************************************************)
EXTENDS Naturals, FiniteSets

CONSTANTS
  Handlers,          \* messages being handled
  Cards,             \* request cards the flyer channel may get
  Proposals,         \* calendar rows that may be created
  Images,            \* flyers delivered for the ticket
  Scanned,           \* an image found in the ticket's history
  Nothing,
  MaxForms, MaxTools \* bounds: forms posted, steps of tools

ASSUME IntakeAssumption == Nothing \notin Cards \cup Proposals \cup Images \cup {Scanned}

VARIABLES
  ticket,   \* the row of event_intake_tickets
  handlers, \* what each handler awaits, with its locals
  shows,    \* the status each request card shows
  calendar, \* each calendar row and its Discord event
  missed,   \* history: the events whose flyer was there to be put on them and
            \* was not (Misses, the end of the event, a restart)
  forms, tools

intakeVars == <<ticket, handlers, shows, calendar, missed, forms, tools>>
intakeBounds == <<missed, forms, tools>>

FlyerStatus == {"none", "requested", "delivered", "cancelled"}
Places == {"idle", "asking", "opening", "carded", "editing", "applying",
           "covering", "syncing", "created", "telling", "deleted"}
NewTicket ==
  [there |-> FALSE, event |-> Nothing, flyer |-> "none", card |-> Nothing, image |-> Nothing]
NewEvent == [state |-> "unborn", linked |-> FALSE, cover |-> Nothing, flyer |-> Nothing]
\* A handler between awaits: the card it will edit and how, the event and image
\* it will apply.
Handler(at, card, as, event, image) ==
  [at |-> at, card |-> card, as |-> as, event |-> event, image |-> image]
AtRest == Handler("idle", Nothing, "none", Nothing, Nothing)

IntakeInit ==
  /\ ticket = NewTicket
  /\ handlers = [h \in Handlers |-> AtRest]
  /\ shows = [c \in Cards |-> "none"]
  /\ calendar = [e \in Proposals |-> NewEvent]
  /\ missed = {} /\ forms = 0 /\ tools = 0

Awaits(h, place) == handlers[h].at = place
Becomes(h, handler) == handlers' = [handlers EXCEPT ![h] = handler]
Goes(h, place) == Becomes(h, [AtRest EXCEPT !.at = place])
\* A tool of a conversation: the ticket's row is there, or recovered by then.
Tool(h) ==
  /\ Awaits(h, "idle") /\ ticket.there
  /\ tools < MaxTools /\ tools' = tools + 1 /\ UNCHANGED <<missed, forms>>

-----------------------------------------------------------------------------
(* The form.                                                               *)

FormArrives(h) ==
  /\ Awaits(h, "idle") /\ ~ticket.there
  /\ forms < MaxForms /\ forms' = forms + 1
  /\ Goes(h, "asking")
  /\ UNCHANGED <<ticket, shows, calendar, missed, tools>>

Recorded == [ticket EXCEPT !.there = TRUE]

\* The proposal is posted and recorded; a requester without a flyer of their own
\* gets a flyer job.
FormRecorded(h) ==
  /\ Awaits(h, "asking")
  /\ ticket' = Recorded
  /\ Goes(h, "opening") \/ Goes(h, "idle")
  /\ UNCHANGED <<shows, calendar, intakeBounds>>

\* A conversation finds no row, and the form in the ticket's history.
FormRecovered ==
  /\ ~ticket.there /\ forms > 0
  /\ ticket' = Recorded
  /\ UNCHANGED <<handlers, shows, calendar, intakeBounds>>

-----------------------------------------------------------------------------
(* The flyer job.                                                          *)

OpenFails(h) ==
  /\ Awaits(h, "opening") /\ Goes(h, "idle")
  /\ UNCHANGED <<ticket, shows, calendar, intakeBounds>>

CardPosted(h, c) ==
  /\ Awaits(h, "opening") /\ shows[c] = "none"
  /\ shows' = [shows EXCEPT ![c] = "requested"]
  /\ Becomes(h, Handler("carded", c, "none", Nothing, Nothing))
  /\ UNCHANGED <<ticket, calendar, intakeBounds>>

\* Altered: a job opened again keeps the card it had.
OpenedOnFirstCard(card) ==
  [ticket EXCEPT !.flyer = "requested", !.card = IF @ = Nothing THEN card ELSE @]
Opened(card) == [ticket EXCEPT !.flyer = "requested", !.card = card]

FlyerRequested(h) ==
  /\ Awaits(h, "carded")
  /\ ticket' = Opened(handlers[h].card)
  /\ Goes(h, "idle")
  /\ UNCHANGED <<shows, calendar, intakeBounds>>

RequestFlyer(h) ==
  /\ Tool(h) /\ ticket.flyer # "requested"
  /\ Goes(h, "opening")
  /\ UNCHANGED <<ticket, shows, calendar>>

Edits(h, as, image) == Becomes(h, Handler("editing", ticket.card, as, Nothing, image))

CancelFlyer(h) ==
  /\ Tool(h) /\ ticket.flyer = "requested"
  /\ ticket' = [ticket EXCEPT !.flyer = "cancelled"]
  /\ Edits(h, "cancelled", Nothing)
  /\ UNCHANGED <<shows, calendar>>

UpdateFlyer(h) ==
  /\ Tool(h) /\ ticket.flyer = "requested"
  /\ Edits(h, "requested", Nothing)
  /\ UNCHANGED <<ticket, shows, calendar>>

\* A flyer may be delivered again, to correct the first.
FulfillFlyer(h, i) ==
  /\ Tool(h) /\ ticket.flyer \in {"requested", "delivered"}
  /\ ticket' = [ticket EXCEPT !.flyer = "delivered", !.image = i]
  /\ Edits(h, "delivered", i)
  /\ UNCHANGED <<shows, calendar>>

\* An edit that fails is only logged.
CardEdited(h) ==
  LET w == handlers[h] IN
  /\ Awaits(h, "editing")
  /\ shows' \in {shows, [shows EXCEPT ![w.card] = w.as]}
  /\ IF w.as = "delivered"
     THEN Becomes(h, Handler("applying", Nothing, "none", Nothing, w.image))
     ELSE Goes(h, "idle")
  /\ UNCHANGED <<ticket, calendar, intakeBounds>>

\* The event is read again after the edit: a moderator may have approved one.
ApplyFlyer(h) ==
  LET e == ticket.event
      i == handlers[h].image
  IN
  /\ Awaits(h, "applying")
  /\ IF e = Nothing
     THEN Goes(h, "idle") /\ UNCHANGED calendar
     ELSE /\ calendar' = [calendar EXCEPT ![e].flyer = i]
          /\ Becomes(h, Handler("covering", Nothing, "none", e, i))
  /\ UNCHANGED <<ticket, shows, intakeBounds>>

\* A flyer was delivered, and event e goes without a cover.
Misses(e) ==
  missed' = IF ticket.image # Nothing /\ calendar[e].cover = Nothing THEN missed \cup {e}
            ELSE missed

\* The Discord event is found or made. It gets the image if there is one and
\* Discord takes it.
CoverSet(h) ==
  LET e == handlers[h].event
      i == handlers[h].image
  IN
  /\ Awaits(h, "covering") \/ Awaits(h, "syncing")
  /\ Goes(h, "idle")
  /\ IF calendar[e].state # "live"
     THEN UNCHANGED <<calendar, missed>>
     ELSE \/ /\ i # Nothing
             /\ calendar' = [calendar EXCEPT ![e].linked = TRUE, ![e].cover = i]
             /\ missed' = missed \ {e}
          \/ /\ calendar' = [calendar EXCEPT ![e].linked = TRUE]
             /\ IF i # Nothing \/ Awaits(h, "syncing") THEN Misses(e) ELSE UNCHANGED missed
  /\ UNCHANGED <<ticket, shows, forms, tools>>

CoverFails(h) ==
  /\ Awaits(h, "covering") \/ Awaits(h, "syncing")
  /\ Goes(h, "idle")
  /\ IF handlers[h].image # Nothing THEN Misses(handlers[h].event) ELSE UNCHANGED missed
  /\ UNCHANGED <<ticket, shows, calendar, forms, tools>>

-----------------------------------------------------------------------------
(* The calendar event.                                                     *)

\* A session that is on the calendar already is answered with its row.
CreateEvent(h, e) ==
  /\ Tool(h) /\ calendar[e].state # "gone"
  /\ calendar' = [calendar EXCEPT ![e].state = "live"]
  /\ Becomes(h, Handler("created", Nothing, "none", e, Nothing))
  /\ UNCHANGED <<ticket, shows>>

\* Once the calendar is published, the ticket gets its event.
MarkCreated(h) ==
  /\ Awaits(h, "created")
  /\ ticket' = [ticket EXCEPT !.event = handlers[h].event]
  /\ Becomes(h, Handler("telling", Nothing, "none", handlers[h].event, Nothing))
  /\ UNCHANGED <<shows, calendar, intakeBounds>>

\* Altered: only the flyer the calendar row has, which a delivery before the
\* approval did not set.
CalendarCover(e) == calendar[e].flyer
Cover(e) == IF ticket.image # Nothing THEN ticket.image ELSE calendar[e].flyer

\* The turn ends: a stored flyer, or else an image found in the ticket. A stored
\* one may be out of reach: its message deleted, or a failed fetch.
ResolveFlyer(h) ==
  LET e == handlers[h].event IN
  /\ Awaits(h, "telling")
  /\ \E i \in {Cover(e), calendar[e].flyer, Scanned, Nothing} :
       /\ Becomes(h, Handler("covering", Nothing, "none", e, i))
       /\ IF i = Nothing /\ Cover(e) # Nothing THEN Misses(e) ELSE UNCHANGED missed
  /\ UNCHANGED <<ticket, shows, calendar, forms, tools>>

\* The tool fails with its publication, or the answer after it: the turn leaves
\* without putting anything on the event it made.
TurnThrows(h) ==
  /\ Goes(h, "idle")
  /\ \/ Awaits(h, "created") /\ UNCHANGED missed
     \/ Awaits(h, "telling") /\ Misses(handlers[h].event)
  /\ UNCHANGED <<ticket, shows, calendar, forms, tools>>

\* A moderator's own tool makes or finds the Discord event, with an image of the
\* ticket or without.
ModSyncsEvent(h, e) ==
  /\ Tool(h) /\ calendar[e].state = "live"
  /\ \E i \in {Scanned, Nothing} : Becomes(h, Handler("syncing", Nothing, "none", e, i))
  /\ UNCHANGED <<ticket, shows, calendar>>

\* An edit of the ticket's event makes its Discord event anew when it is gone.
ReviseEvent(h) ==
  LET e == ticket.event IN
  /\ Tool(h) /\ e # Nothing /\ calendar[e].state = "live" /\ ~calendar[e].linked
  /\ Becomes(h, Handler("telling", Nothing, "none", e, Nothing))
  /\ UNCHANGED <<ticket, shows, calendar>>

WithdrawEvent(h, e) ==
  /\ Tool(h) /\ calendar[e].state = "live"
  /\ calendar' = [calendar EXCEPT ![e].state = "gone", ![e].linked = FALSE,
                                   ![e].cover = Nothing]
  /\ Becomes(h, Handler("deleted", Nothing, "none", e, Nothing))
  /\ UNCHANGED <<ticket, shows>>

\* The ticket forgets its own event; a flyer still asked for is cancelled.
MarkDeleted(h) ==
  LET open == ticket.flyer = "requested" IN
  /\ Awaits(h, "deleted")
  /\ IF ticket.event # handlers[h].event
     THEN Goes(h, "idle") /\ UNCHANGED ticket
     ELSE /\ ticket' = [ticket EXCEPT !.event = Nothing,
                                      !.flyer = IF open THEN "cancelled" ELSE @]
          /\ IF open THEN Edits(h, "cancelled", Nothing) ELSE Goes(h, "idle")
  /\ UNCHANGED <<shows, calendar, intakeBounds>>

\* A handler that makes the event anew without an image, which it looked for
\* before the delivery.
LeavesBare(w, e) == w.at = "covering" /\ w.event = e /\ w.image = Nothing

\* The Discord event ends, or is removed by hand.
EventOver(e) ==
  /\ calendar[e].linked
  /\ calendar' = [calendar EXCEPT ![e].linked = FALSE, ![e].cover = Nothing]
  /\ missed' = IF ticket.image # Nothing /\ \E h \in Handlers : LeavesBare(handlers[h], e)
               THEN missed \cup {e} ELSE missed
  /\ UNCHANGED <<ticket, handlers, shows, forms, tools>>

Delivers(w) == w.at = "applying" \/ (w.at = "editing" /\ w.as = "delivered")
\* The events whose flyer is in the hands of a handler.
InHand ==
  {e \in Proposals : \E h \in Handlers :
     handlers[h].event = e \/ (ticket.event = e /\ Delivers(handlers[h]))}

IntakeRestart ==
  /\ handlers' = [h \in Handlers |-> AtRest]
  /\ missed' = missed \cup
       {e \in InHand : ticket.image # Nothing /\ calendar[e].cover = Nothing}
  /\ UNCHANGED <<ticket, shows, calendar, forms, tools>>

FlyerStep(h) ==
  \/ OpenFails(h) \/ (\E c \in Cards : CardPosted(h, c)) \/ FlyerRequested(h)
  \/ RequestFlyer(h) \/ CancelFlyer(h) \/ UpdateFlyer(h)
  \/ (\E i \in Images : FulfillFlyer(h, i)) \/ CardEdited(h)
  \/ ApplyFlyer(h) \/ CoverSet(h) \/ CoverFails(h)
EventStep(h) ==
  \/ \E e \in Proposals : CreateEvent(h, e) \/ ModSyncsEvent(h, e) \/ WithdrawEvent(h, e)
  \/ MarkCreated(h) \/ ResolveFlyer(h) \/ TurnThrows(h) \/ ReviseEvent(h) \/ MarkDeleted(h)

IntakeNext ==
  \/ \E h \in Handlers : FormArrives(h) \/ FormRecorded(h) \/ FlyerStep(h) \/ EventStep(h)
  \/ FormRecovered \/ IntakeRestart
  \/ \E e \in Proposals : EventOver(e)

IntakeSpec == IntakeInit /\ [][IntakeNext]_intakeVars

-----------------------------------------------------------------------------
(* Properties.                                                             *)

\* The rows and records have the shape their columns have.
IntakeTypeOK ==
  /\ ticket \in [there : BOOLEAN, event : Proposals \cup {Nothing}, flyer : FlyerStatus,
                 card : Cards \cup {Nothing}, image : Images \cup {Nothing}]
  /\ handlers \in [Handlers ->
       [at : Places, card : Cards \cup {Nothing}, as : FlyerStatus,
        event : Proposals \cup {Nothing}, image : Images \cup {Scanned, Nothing}]]
  /\ shows \in [Cards -> FlyerStatus]
  /\ calendar \in [Proposals ->
       [state : {"unborn", "live", "gone"}, linked : BOOLEAN,
        cover : Images \cup {Scanned, Nothing}, flyer : Images \cup {Nothing}]]
  /\ missed \subseteq Proposals /\ forms \in Nat /\ tools \in Nat

\* While a flyer is asked for, the card the designers answer is there and asks for
\* it: no late edit of another handler, and no job opened over another, leaves the
\* open job on a card that says cancelled or delivered (openFlyerJob,
\* editFlyerCard).
OpenJobShowsOpen ==
  ticket.flyer = "requested" =>
    ticket.card # Nothing /\ shows[ticket.card] = "requested"

\* A delivered flyer and an approved event find each other, whichever comes first
\* and however their steps interleave: when nothing is being handled the event
\* does not stand without a cover (applyFlyerToEvent, syncDiscordEventFor). What
\* is excused is named, event by event, until a cover is set: a sync that could
\* not put its image, a flyer whose message cannot be read, a turn that throws
\* after its create, the moderator's tool used without an image, a restart with
\* the flyer in hand, and a Discord event that ends while one looked up before
\* the delivery is being made (missed).
CoverFollowsDelivery ==
  LET e == ticket.event IN
  (/\ \A h \in Handlers : Awaits(h, "idle")
   /\ e # Nothing /\ calendar[e].linked /\ ticket.image # Nothing)
  => calendar[e].cover # Nothing \/ e \in missed

\* An approval stands until its event is deleted or another is approved: the
\* proposal of a form recorded late does not undo one, nor does deleting some
\* other event (recordProposal, the watcher's calendar tools).
ApprovalStands ==
  ticket.event # Nothing /\ ticket'.event = Nothing
    => calendar[ticket.event].state = "gone"

\* Both together: what the moderators approved gets its cover and keeps its event.
DecisionsStand == [][CoverFollowsDelivery' /\ ApprovalStands]_intakeVars
=============================================================================
