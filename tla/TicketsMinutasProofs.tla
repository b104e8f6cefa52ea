------------------------- MODULE TicketsMinutasProofs -------------------------
(***************************************************************************)
(* The intake of events from forms and tickets, the voice sessions of the  *)
(* minutes with their transcriber, the routing of messages, and the tables that *)
(* the migrations leave.                                                   *)
(***************************************************************************)
EXTENDS EventIntake, MinutasSessions, LiveTranscriber, Routing,
        SchemaMigrations, FiniteSetTheorems, WellFoundedInduction, TLAPS

-----------------------------------------------------------------------------
(* The intake of events (EventIntake).                                     *)

Editing(h, c) == handlers[h].at = "editing" /\ handlers[h].card = c
Carded(h, c) == handlers[h].at = "carded" /\ handlers[h].card = c

Shape ==
  /\ ticket = [there |-> ticket.there, event |-> ticket.event, flyer |-> ticket.flyer,
               card |-> ticket.card, image |-> ticket.image]
  /\ handlers = [h \in Handlers |-> handlers[h]]
  /\ shows = [c \in Cards |-> shows[c]]

\* The ticket's card was posted, and a flyer asked for or delivered has one.
CardIsPosted ==
  /\ ticket.flyer \in {"requested", "delivered"} => ticket.card \in Cards
  /\ ticket.card \in Cards => shows[ticket.card] # "none"

\* No edit under way will close the card of an open job.
EditsAreSafe ==
  \A h \in Handlers : \A c \in Cards :
    Editing(h, c) =>
      /\ shows[c] # "none"
      /\ ticket.flyer = "requested" /\ ticket.card = c => handlers[h].as = "requested"
EditorsHaveCards ==
  \A h \in Handlers : handlers[h].at = "editing" => handlers[h].card \in Cards /\ handlers[h].as # "none"

\* A card that is posted and not yet recorded asks for a flyer, and nobody else
\* has it.
NewCardsAreOwn ==
  \A h \in Handlers : handlers[h].at = "carded" =>
    LET c == handlers[h].card IN
    /\ c \in Cards /\ shows[c] = "requested" /\ ticket.card # c
    /\ \A g \in Handlers : ~Editing(g, c) /\ (Carded(g, c) => g = h)

IntakeInv ==
  /\ Shape /\ CardIsPosted /\ EditsAreSafe /\ EditorsHaveCards /\ NewCardsAreOwn
  /\ OpenJobShowsOpen

LEMMA IntakeInvInit == IntakeInit => IntakeInv
BY IntakeAssumption
   DEF IntakeInit, IntakeInv, Shape, CardIsPosted, EditsAreSafe, EditorsHaveCards,
       NewCardsAreOwn, OpenJobShowsOpen, NewTicket, AtRest, Handler, Editing, Carded

-----------------------------------------------------------------------------
(* The kinds of step.                                                      *)

TicketShape(t) ==
  t = [there |-> t.there, event |-> t.event, flyer |-> t.flyer, card |-> t.card, image |-> t.image]

Elsewhere(h) ==
  \E w : handlers' = [handlers EXCEPT ![h] = w] /\ w.at \notin {"carded", "editing"}

LEMMA GoingElsewhere ==
  ASSUME NEW h, NEW place, place \notin {"carded", "editing"}, Goes(h, place)
  PROVE  Elsewhere(h)
<1>1. [AtRest EXCEPT !.at = place].at = place
  BY DEF AtRest, Handler
<1> QED BY <1>1, Zenon DEF Goes, Becomes, Elsewhere

LEMMA BecomingElsewhere ==
  ASSUME NEW h, NEW place, place \notin {"carded", "editing"},
         NEW card, NEW as, NEW event, NEW image,
         Becomes(h, Handler(place, card, as, event, image))
  PROVE  Elsewhere(h)
<1>1. Handler(place, card, as, event, image).at = place
  BY DEF Handler
<1> QED BY <1>1, Zenon DEF Becomes, Elsewhere

\* A handler goes where no card is in its hands; the job stays as it is.
LEMMA ElsewhereKeeps ==
  ASSUME IntakeInv, NEW h \in Handlers, Elsewhere(h),
         UNCHANGED shows, TicketShape(ticket'),
         ticket'.flyer = ticket.flyer, ticket'.card = ticket.card
  PROVE  IntakeInv'
<1> PICK w : w.at \notin {"carded", "editing"} /\ handlers' = [handlers EXCEPT ![h] = w]
  BY DEF Elsewhere
<1> USE DEF IntakeInv
<1>1. Shape' /\ CardIsPosted' /\ OpenJobShowsOpen'
  BY DEF Shape, CardIsPosted, OpenJobShowsOpen, TicketShape
<1>2. \A g \in Handlers : handlers'[g] = IF g = h THEN w ELSE handlers[g]
  BY DEF Shape
<1>3. EditsAreSafe' /\ EditorsHaveCards'
  BY <1>2 DEF EditsAreSafe, EditorsHaveCards, Editing
<1>4. NewCardsAreOwn'
  BY <1>2 DEF NewCardsAreOwn, Editing, Carded
<1> QED BY <1>1, <1>3, <1>4

\* A handler closes or keeps the job, and will edit its card.
LEMMA EditKeeps ==
  ASSUME IntakeInv, NEW h \in Handlers, NEW as, as # "none", NEW image,
         Edits(h, as, image), UNCHANGED shows, TicketShape(ticket'),
         ticket'.card = ticket.card, ticket.flyer \in {"requested", "delivered"},
         ticket'.flyer = "requested" => ticket.flyer = "requested" /\ as = "requested"
  PROVE  IntakeInv'
<1> DEFINE w == Handler("editing", ticket.card, as, Nothing, image)
<1> USE DEF IntakeInv
<1>1. ticket.card \in Cards /\ shows[ticket.card] # "none"
  BY DEF CardIsPosted
<1>2. Shape' /\ CardIsPosted' /\ OpenJobShowsOpen'
  BY <1>1 DEF Shape, CardIsPosted, OpenJobShowsOpen, TicketShape, Edits, Becomes
<1>3. \A g \in Handlers : handlers'[g] = IF g = h THEN w ELSE handlers[g]
  BY DEF Shape, Edits, Becomes
<1>4. w.at = "editing" /\ w.card = ticket.card /\ w.as = as
  BY DEF Handler
<1> HIDE DEF w
<1>5. EditsAreSafe' /\ EditorsHaveCards'
  BY <1>1, <1>3, <1>4 DEF EditsAreSafe, EditorsHaveCards, Editing
<1>6. NewCardsAreOwn'
  BY <1>3, <1>4 DEF NewCardsAreOwn, Editing, Carded
<1> QED BY <1>2, <1>5, <1>6

LEMMA CardPostedKeeps ==
  ASSUME IntakeInv, NEW h \in Handlers, NEW c \in Cards, CardPosted(h, c)
  PROVE  IntakeInv'
<1> DEFINE w == Handler("carded", c, "none", Nothing, Nothing)
<1> USE DEF IntakeInv
<1>1. /\ shows[c] = "none" /\ shows' = [shows EXCEPT ![c] = "requested"]
      /\ handlers' = [handlers EXCEPT ![h] = w] /\ UNCHANGED ticket
  BY DEF CardPosted, Becomes
<1>2. w.at = "carded" /\ w.card = c
  BY DEF Handler
<1> HIDE DEF w
<1>3. Shape' /\ CardIsPosted' /\ OpenJobShowsOpen'
  BY <1>1 DEF Shape, CardIsPosted, OpenJobShowsOpen
<1>4. /\ \A g \in Handlers : handlers'[g] = IF g = h THEN w ELSE handlers[g]
      /\ \A d \in Cards : shows'[d] = IF d = c THEN "requested" ELSE shows[d]
  BY <1>1 DEF Shape
<1>5. \A g \in Handlers : ~Editing(g, c) /\ ~Carded(g, c)
  BY <1>1 DEF EditsAreSafe, NewCardsAreOwn, Carded
<1>6. ticket.card # c
  BY <1>1 DEF CardIsPosted
<1>7. EditsAreSafe' /\ EditorsHaveCards'
  BY <1>1, <1>2, <1>4, <1>5 DEF EditsAreSafe, EditorsHaveCards, Editing
<1>8. NewCardsAreOwn'
  BY <1>1, <1>2, <1>4, <1>5, <1>6 DEF NewCardsAreOwn, Editing, Carded
<1> QED BY <1>3, <1>7, <1>8

\* The job takes a card that nobody else has.
LEMMA FlyerRequestedKeeps ==
  ASSUME IntakeInv, NEW h \in Handlers, FlyerRequested(h)
  PROVE  IntakeInv'
<1> DEFINE c == handlers[h].card
           w == [AtRest EXCEPT !.at = "idle"]
<1> USE DEF IntakeInv
<1>1. /\ handlers[h].at = "carded" /\ UNCHANGED shows
      /\ ticket' = [ticket EXCEPT !.flyer = "requested", !.card = c]
      /\ handlers' = [handlers EXCEPT ![h] = w] /\ w.at = "idle"
  BY DEF FlyerRequested, Awaits, Opened, Goes, Becomes, AtRest, Handler
<1>2. /\ c \in Cards /\ shows[c] = "requested"
      /\ \A g \in Handlers : ~Editing(g, c) /\ (Carded(g, c) => g = h)
  BY <1>1 DEF NewCardsAreOwn
<1>3. ticket'.card = c /\ ticket'.flyer = "requested"
  BY <1>1 DEF Shape
<1> HIDE DEF w
<1>4. Shape'
  BY <1>1 DEF Shape
<1>5. CardIsPosted' /\ OpenJobShowsOpen'
  BY <1>1, <1>2, <1>3, IntakeAssumption DEF CardIsPosted, OpenJobShowsOpen
<1>6. \A g \in Handlers : handlers'[g] = IF g = h THEN w ELSE handlers[g]
  BY <1>1 DEF Shape
<1>7. EditsAreSafe' /\ EditorsHaveCards'
  BY <1>1, <1>2, <1>3, <1>6 DEF EditsAreSafe, EditorsHaveCards, Editing
<1>8. NewCardsAreOwn'
  BY <1>1, <1>2, <1>3, <1>6 DEF NewCardsAreOwn, Editing, Carded
<1> QED BY <1>4, <1>5, <1>7, <1>8

\* An edit that reaches the card of an open job leaves it open.
LEMMA CardEditedKeeps ==
  ASSUME IntakeInv, NEW h \in Handlers, CardEdited(h)
  PROVE  IntakeInv'
<1> DEFINE c == handlers[h].card
           as == handlers[h].as
<1> USE DEF IntakeInv
<1>1. PICK w : handlers' = [handlers EXCEPT ![h] = w] /\ w.at \notin {"carded", "editing"}
  <2>1. Elsewhere(h)
    <3>1. CASE as = "delivered"
      <4>1. Becomes(h, Handler("applying", Nothing, "none", Nothing, handlers[h].image))
        BY <3>1 DEF CardEdited
      <4> QED BY <4>1, BecomingElsewhere
    <3>2. CASE as # "delivered"
      BY <3>2, GoingElsewhere DEF CardEdited
    <3> QED BY <3>1, <3>2
  <2> QED BY <2>1 DEF Elsewhere
<1>2. /\ handlers[h].at = "editing" /\ UNCHANGED ticket
      /\ shows' = shows \/ shows' = [shows EXCEPT ![c] = as]
  BY DEF CardEdited, Awaits
<1>3. /\ c \in Cards /\ Editing(h, c) /\ as # "none"
      /\ ticket.flyer = "requested" /\ ticket.card = c => as = "requested"
  BY <1>2 DEF EditsAreSafe, EditorsHaveCards, Editing
<1>4. \A d \in Cards : shows'[d] = shows[d] \/ (d = c /\ shows'[d] = as)
  BY <1>2 DEF Shape
<1>5. \A g \in Handlers : handlers'[g] = IF g = h THEN w ELSE handlers[g]
  BY <1>1 DEF Shape
<1>6. Shape'
  BY <1>1, <1>2 DEF Shape
<1>7. CardIsPosted' /\ OpenJobShowsOpen'
  BY <1>2, <1>3, <1>4, IntakeAssumption DEF CardIsPosted, OpenJobShowsOpen
<1>8. EditsAreSafe' /\ EditorsHaveCards'
  BY <1>1, <1>2, <1>3, <1>4, <1>5 DEF EditsAreSafe, EditorsHaveCards, Editing
<1>9. NewCardsAreOwn'
  BY <1>1, <1>2, <1>3, <1>4, <1>5 DEF NewCardsAreOwn, Editing, Carded
<1> QED BY <1>6, <1>7, <1>8, <1>9

\* A step of no handler, and a restart, which forgets what all of them held.
LEMMA NobodysStepKeeps ==
  ASSUME IntakeInv, UNCHANGED shows, TicketShape(ticket'),
         ticket'.flyer = ticket.flyer, ticket'.card = ticket.card,
         UNCHANGED handlers \/ handlers' = [h \in Handlers |-> AtRest]
  PROVE  IntakeInv'
<1> USE DEF IntakeInv
<1>1. Shape' /\ CardIsPosted' /\ OpenJobShowsOpen'
  BY DEF Shape, CardIsPosted, OpenJobShowsOpen, TicketShape
<1>2. CASE UNCHANGED handlers
  BY <1>1, <1>2 DEF EditsAreSafe, EditorsHaveCards, NewCardsAreOwn, Editing, Carded
<1>3. CASE handlers' = [h \in Handlers |-> AtRest]
  <2>1. AtRest.at = "idle"
    BY DEF AtRest, Handler
  <2>2. \A h \in Handlers : handlers'[h].at = "idle"
    BY <1>3, <2>1
  <2> QED BY <1>1, <2>2 DEF EditsAreSafe, EditorsHaveCards, NewCardsAreOwn, Editing, Carded
<1> QED BY <1>2, <1>3

-----------------------------------------------------------------------------
(* Every step is of one of these kinds.                                    *)

LEMMA TicketKept ==
  ASSUME IntakeInv
  PROVE  TicketShape(ticket)
BY DEF IntakeInv, Shape, TicketShape

\* What the ticket becomes when its event is set, or when it is recorded.
LEMMA TicketMarked ==
  ASSUME IntakeInv, NEW v,
         \/ ticket' = [ticket EXCEPT !.event = v]
         \/ ticket' = [ticket EXCEPT !.there = v]
  PROVE  TicketShape(ticket') /\ ticket'.flyer = ticket.flyer /\ ticket'.card = ticket.card
BY DEF IntakeInv, Shape, TicketShape

LEMMA CoverStepKeeps ==
  ASSUME IntakeInv, NEW h \in Handlers,
         OpenFails(h) \/ RequestFlyer(h) \/ ApplyFlyer(h) \/ CoverSet(h) \/ CoverFails(h)
  PROVE  IntakeInv'
<1>1. UNCHANGED <<ticket, shows>>
  BY DEF OpenFails, RequestFlyer, ApplyFlyer, CoverSet, CoverFails, Tool
<1>2. Elsewhere(h)
  <2>1. CASE OpenFails(h) \/ CoverSet(h) \/ CoverFails(h)
    BY <2>1, GoingElsewhere DEF OpenFails, CoverSet, CoverFails
  <2>2. CASE RequestFlyer(h)
    BY <2>2, GoingElsewhere DEF RequestFlyer
  <2>3. CASE ApplyFlyer(h) /\ ticket.event = Nothing
    BY <2>3, GoingElsewhere DEF ApplyFlyer
  <2>4. CASE ApplyFlyer(h) /\ ticket.event # Nothing
    <3>1. Becomes(h, Handler("covering", Nothing, "none", ticket.event, handlers[h].image))
      BY <2>4 DEF ApplyFlyer
    <3> QED BY <3>1, BecomingElsewhere
  <2> QED BY <2>1, <2>2, <2>3, <2>4
<1> QED BY <1>1, <1>2, TicketKept, ElsewhereKeeps

LEMMA FlyerStepKeeps ==
  ASSUME IntakeInv, NEW h \in Handlers, FlyerStep(h)
  PROVE  IntakeInv'
<1>1. CASE CancelFlyer(h)
  <2>1. /\ ticket' = [ticket EXCEPT !.flyer = "cancelled"] /\ ticket.flyer = "requested"
        /\ Edits(h, "cancelled", Nothing) /\ UNCHANGED shows
    BY <1>1 DEF CancelFlyer
  <2>2. TicketShape(ticket') /\ ticket'.card = ticket.card /\ ticket'.flyer = "cancelled"
    BY <2>1 DEF IntakeInv, Shape, TicketShape
  <2> QED BY <2>1, <2>2, EditKeeps
<1>2. CASE UpdateFlyer(h)
  BY <1>2, TicketKept, EditKeeps DEF UpdateFlyer
<1>3. ASSUME NEW i \in Images, FulfillFlyer(h, i) PROVE IntakeInv'
  <2>1. /\ ticket' = [ticket EXCEPT !.flyer = "delivered", !.image = i]
        /\ ticket.flyer \in {"requested", "delivered"}
        /\ Edits(h, "delivered", i) /\ UNCHANGED shows
    BY <1>3 DEF FulfillFlyer
  <2>2. TicketShape(ticket') /\ ticket'.card = ticket.card /\ ticket'.flyer = "delivered"
    BY <2>1 DEF IntakeInv, Shape, TicketShape
  <2> QED BY <2>1, <2>2, EditKeeps
<1> QED
  BY <1>1, <1>2, <1>3, CoverStepKeeps, CardPostedKeeps, FlyerRequestedKeeps, CardEditedKeeps
     DEF FlyerStep

LEMMA MarkDeletedKeeps ==
  ASSUME IntakeInv, NEW h \in Handlers, MarkDeleted(h)
  PROVE  IntakeInv'
<1>1. UNCHANGED shows
  BY DEF MarkDeleted
<1>2. CASE ticket.event # handlers[h].event
  BY <1>1, <1>2, TicketKept, GoingElsewhere, ElsewhereKeeps DEF MarkDeleted
<1>3. CASE ticket.event = handlers[h].event /\ ticket.flyer = "requested"
  <2>1. /\ ticket' = [ticket EXCEPT !.event = Nothing, !.flyer = "cancelled"]
        /\ Edits(h, "cancelled", Nothing)
    BY <1>3 DEF MarkDeleted
  <2>2. TicketShape(ticket') /\ ticket'.card = ticket.card /\ ticket'.flyer = "cancelled"
    BY <2>1 DEF IntakeInv, Shape, TicketShape
  <2> QED BY <1>1, <1>3, <2>1, <2>2, EditKeeps
<1>4. CASE ticket.event = handlers[h].event /\ ticket.flyer # "requested"
  <2>1. ticket' = [ticket EXCEPT !.event = Nothing, !.flyer = ticket.flyer] /\ Goes(h, "idle")
    BY <1>4 DEF MarkDeleted
  <2>2. TicketShape(ticket') /\ ticket'.card = ticket.card /\ ticket'.flyer = ticket.flyer
    BY <2>1 DEF IntakeInv, Shape, TicketShape
  <2> QED BY <1>1, <2>1, <2>2, GoingElsewhere, ElsewhereKeeps
<1> QED BY <1>2, <1>3, <1>4

LEMMA EventStepKeeps ==
  ASSUME IntakeInv, NEW h \in Handlers, EventStep(h)
  PROVE  IntakeInv'
<1>1. ASSUME NEW e \in Proposals, CreateEvent(h, e) \/ ModSyncsEvent(h, e) \/ WithdrawEvent(h, e)
      PROVE  IntakeInv'
  <2>1. UNCHANGED <<ticket, shows>> /\ Elsewhere(h)
    BY <1>1, BecomingElsewhere DEF CreateEvent, ModSyncsEvent, WithdrawEvent
  <2> QED BY <2>1, TicketKept, ElsewhereKeeps
<1>2. CASE MarkCreated(h)
  <2>1. /\ UNCHANGED shows /\ Elsewhere(h)
        /\ ticket' = [ticket EXCEPT !.event = handlers[h].event]
    BY <1>2, BecomingElsewhere DEF MarkCreated
  <2> QED BY <2>1, TicketMarked, ElsewhereKeeps
<1>3. CASE ResolveFlyer(h) \/ ReviseEvent(h) \/ TurnThrows(h)
  <2>1. UNCHANGED <<ticket, shows>> /\ Elsewhere(h)
    BY <1>3, BecomingElsewhere, GoingElsewhere DEF ResolveFlyer, ReviseEvent, TurnThrows
  <2> QED BY <2>1, TicketKept, ElsewhereKeeps
<1> QED BY <1>1, <1>2, <1>3, MarkDeletedKeeps DEF EventStep

LEMMA FormKeeps ==
  ASSUME IntakeInv,
         FormRecovered \/ (\E h \in Handlers : FormArrives(h) \/ FormRecorded(h))
  PROVE  IntakeInv'
<1>1. CASE FormRecovered
  BY <1>1, TicketMarked, NobodysStepKeeps DEF FormRecovered, Recorded
<1>2. ASSUME NEW h \in Handlers, FormArrives(h) PROVE IntakeInv'
  BY <1>2, TicketKept, GoingElsewhere, ElsewhereKeeps DEF FormArrives
<1>3. ASSUME NEW h \in Handlers, FormRecorded(h) PROVE IntakeInv'
  <2>1. /\ UNCHANGED shows /\ Elsewhere(h)
        /\ ticket' = [ticket EXCEPT !.there = TRUE]
    BY <1>3, GoingElsewhere DEF FormRecorded, Recorded
  <2> QED BY <2>1, TicketMarked, ElsewhereKeeps
<1> QED BY <1>1, <1>2, <1>3

LEMMA IntakeInvStep == IntakeInv /\ [IntakeNext]_intakeVars => IntakeInv'
<1> SUFFICES ASSUME IntakeInv, [IntakeNext]_intakeVars PROVE IntakeInv'
  OBVIOUS
<1> USE TicketKept
<1>1. CASE UNCHANGED intakeVars
  BY <1>1, NobodysStepKeeps DEF intakeVars
<1>2. CASE IntakeRestart \/ (\E e \in Proposals : EventOver(e))
  BY <1>2, NobodysStepKeeps DEF IntakeRestart, EventOver
<1>3. ASSUME NEW h \in Handlers, FlyerStep(h) \/ EventStep(h) PROVE IntakeInv'
  BY <1>3, FlyerStepKeeps, EventStepKeeps
<1> QED BY <1>1, <1>2, <1>3, FormKeeps DEF IntakeNext

\* While a job is open its card asks for a flyer: a handler that edits a card late
\* never closes the card of another job, and a job opened over another takes a
\* card of its own (openFlyerJob, editFlyerCard).
THEOREM OpenJobsShowOpen == IntakeSpec => []OpenJobShowsOpen
<1>1. IntakeSpec => []IntakeInv
  BY IntakeInvInit, IntakeInvStep, PTL DEF IntakeSpec
<1> QED BY <1>1, PTL DEF IntakeInv

-----------------------------------------------------------------------------
(* What the moderators approved (EventIntake).                             *)

HandlerShape ==
  [at : Places, card : Cards \cup {Nothing}, as : FlyerStatus,
   event : Proposals \cup {Nothing}, image : Images \cup {Scanned, Nothing}]

\* A handler will put a delivered flyer on the event, or one that stays without.
Covers(w, e) ==
  \/ w.at = "editing" /\ w.as = "delivered"
  \/ w.at = "applying"
  \/ w.at = "covering" /\ w.event = e /\ w.image # Nothing
  \/ w.at = "telling" /\ w.event = e

\* The handlers' events were made, and what is deleted is gone for good.
HandlerSound(w) ==
  /\ w \in HandlerShape
  /\ w.at \in {"created", "telling", "covering", "syncing", "deleted"}
       => w.event \in Proposals /\ calendar[w.event].state # "unborn"
  /\ w.at = "deleted" => calendar[w.event].state = "gone"
  /\ w.at = "applying" \/ (w.at = "editing" /\ w.as = "delivered") => w.image \in Images

\* The event has its cover, or will get it, or stands nowhere to have one.
Settled(e) ==
  \/ calendar[e].cover # Nothing \/ calendar[e].state = "gone"
  \/ \E h \in Handlers : Covers(handlers[h], e)
  \/ ~calendar[e].linked /\ \A h \in Handlers : ~LeavesBare(handlers[h], e)

DecisionsInv ==
  /\ IntakeTypeOK
  /\ \A h \in Handlers : HandlerSound(handlers[h])
  /\ ticket.event # Nothing => calendar[ticket.event].state # "unborn"
  /\ \A e \in Proposals : calendar[e].linked => calendar[e].state = "live"
  /\ ticket.event # Nothing /\ ticket.image # Nothing /\ ticket.event \notin missed
       => Settled(ticket.event)

LEMMA AtRestIsSound == AtRest \in HandlerShape /\ AtRest.at = "idle"
BY DEF AtRest, Handler, HandlerShape, Places, FlyerStatus

LEMMA DecisionsStart == IntakeInit => DecisionsInv
<1> SUFFICES ASSUME IntakeInit PROVE DecisionsInv
  OBVIOUS
<1>1. IntakeTypeOK
  BY AtRestIsSound DEF IntakeInit, IntakeTypeOK, NewTicket, NewEvent, FlyerStatus, HandlerShape
<1>2. \A h \in Handlers : HandlerSound(handlers[h])
  BY AtRestIsSound DEF IntakeInit, HandlerSound
<1>3. \A e \in Proposals : ~calendar[e].linked
  BY DEF IntakeInit, NewEvent
<1>4. ticket.event = Nothing
  BY DEF IntakeInit, NewTicket
<1>5. QED
  BY <1>1, <1>2, <1>3, <1>4 DEF DecisionsInv

\* One handler moves on; the calendar and what the ticket promises stay.
LEMMA MovingKeeps ==
  ASSUME DecisionsInv, NEW h \in Handlers, NEW w, handlers' = [handlers EXCEPT ![h] = w],
         HandlerSound(w), UNCHANGED calendar, \A d \in missed : d \in missed',
         ticket'.event = ticket.event, ticket'.image = ticket.image, IntakeTypeOK',
         /\ ticket.event # Nothing /\ ticket.image # Nothing /\ ticket.event \notin missed'
         /\ calendar[ticket.event].cover = Nothing
         =>
           /\ Covers(handlers[h], ticket.event) => Covers(w, ticket.event)
           /\ LeavesBare(w, ticket.event) => LeavesBare(handlers[h], ticket.event)
  PROVE  DecisionsInv'
<1>1. handlers'[h] = w /\ \A g \in Handlers \ {h} : handlers'[g] = handlers[g]
  BY DEF DecisionsInv, IntakeTypeOK
<1>2. \A g \in Handlers : HandlerSound(handlers'[g])
  BY <1>1 DEF DecisionsInv
<1>3. (\A g \in Handlers : HandlerSound(handlers[g]))'
  BY <1>2 DEF HandlerSound
<1>4. ASSUME ticket'.event # Nothing, ticket'.image # Nothing, ticket'.event \notin missed'
      PROVE  Settled(ticket.event)'
  <2>1. Settled(ticket.event)
    BY <1>4 DEF DecisionsInv
  <2>2. ASSUME calendar[ticket.event].cover = Nothing,
               NEW g \in Handlers, Covers(handlers[g], ticket.event)
        PROVE  Covers(handlers'[g], ticket.event)
    BY <1>1, <1>4, <2>2
  <2>3. ASSUME calendar[ticket.event].cover = Nothing,
               NEW g \in Handlers, LeavesBare(handlers'[g], ticket.event)
        PROVE  LeavesBare(handlers[g], ticket.event)
    BY <1>1, <1>4, <2>3
  <2>4. PICK e : e = ticket.event /\ e = ticket'.event
    OBVIOUS
  <2>5. \/ calendar'[e].cover # Nothing \/ calendar'[e].state = "gone"
        \/ \E g \in Handlers : Covers(handlers'[g], e)
        \/ ~calendar'[e].linked /\ \A g \in Handlers : ~LeavesBare(handlers'[g], e)
    BY <2>1, <2>2, <2>3, <2>4 DEF Settled
  <2>6. QED
    BY <2>4, <2>5 DEF Settled, Covers, LeavesBare
<1>5. QED
  BY <1>3, <1>4 DEF DecisionsInv

TicketShapes ==
  [there : BOOLEAN, event : Proposals \cup {Nothing}, flyer : FlyerStatus,
   card : Cards \cup {Nothing}, image : Images \cup {Nothing}]

\* The types after a step of one handler.
LEMMA TypesOf ==
  ASSUME IntakeTypeOK, NEW h \in Handlers, NEW w \in HandlerShape,
         handlers' = [handlers EXCEPT ![h] = w], UNCHANGED calendar,
         ticket' \in TicketShapes, UNCHANGED shows, missed' \subseteq Proposals,
         forms' \in Nat, tools' \in Nat
  PROVE  IntakeTypeOK'
BY DEF IntakeTypeOK, HandlerShape, TicketShapes

\* A handler that goes where it holds nothing.
LEMMA Goings ==
  ASSUME NEW h \in Handlers, NEW place \in {"idle", "asking", "opening"}, Goes(h, place)
  PROVE  \E w \in HandlerShape : /\ handlers' = [handlers EXCEPT ![h] = w] /\ w.at = place
                                /\ HandlerSound(w) /\ \A e : ~LeavesBare(w, e)
<1> DEFINE w == [AtRest EXCEPT !.at = place]
<1>1. w \in HandlerShape /\ w.at = place
  BY AtRestIsSound DEF HandlerShape, Places
<1>2. handlers' = [handlers EXCEPT ![h] = w]
  BY DEF Goes, Becomes
<1> HIDE DEF w
<1>3. HandlerSound(w) /\ \A e : ~LeavesBare(w, e)
  BY <1>1 DEF HandlerSound, LeavesBare
<1>4. QED
  BY <1>1, <1>2, <1>3

\* ... and which one that becomes something is.
LEMMA Becomings ==
  ASSUME NEW h \in Handlers, NEW place \in Places, NEW card \in Cards \cup {Nothing},
         NEW as \in FlyerStatus, NEW event \in Proposals \cup {Nothing},
         NEW image \in Images \cup {Scanned, Nothing},
         Becomes(h, Handler(place, card, as, event, image))
  PROVE  \E w \in HandlerShape : /\ handlers' = [handlers EXCEPT ![h] = w]
                                /\ w.at = place /\ w.card = card /\ w.as = as
                                /\ w.event = event /\ w.image = image
<1> DEFINE w == Handler(place, card, as, event, image)
<1>1. /\ w \in HandlerShape
      /\ w.at = place /\ w.card = card /\ w.as = as /\ w.event = event /\ w.image = image
  BY DEF Handler, HandlerShape
<1>2. handlers' = [handlers EXCEPT ![h] = w]
  BY DEF Becomes
<1> HIDE DEF w
<1>3. QED
  BY <1>1, <1>2

\* A handler that goes on without a cover or an event in its hands.
LEMMA PlainGoingKeeps ==
  ASSUME DecisionsInv, NEW h \in Handlers, NEW place \in {"idle", "asking", "opening"},
         Goes(h, place), UNCHANGED <<calendar, missed>>,
         ticket'.event = ticket.event, ticket'.image = ticket.image,
         \A w \in HandlerShape : handlers' = [handlers EXCEPT ![h] = w] => IntakeTypeOK',
         handlers[h].at \notin {"editing", "covering", "telling"},
         ticket.event = Nothing \/ handlers[h].at # "applying"
  PROVE  DecisionsInv'
<1>1. PICK w \in HandlerShape : /\ handlers' = [handlers EXCEPT ![h] = w] /\ w.at = place
                                /\ HandlerSound(w) /\ \A e : ~LeavesBare(w, e)
  BY Goings
<1>2. ticket.event # Nothing => ~Covers(handlers[h], ticket.event)
  BY DEF Covers
<1>3. IntakeTypeOK'
  BY <1>1
<1>4. QED
  BY <1>1, <1>2, <1>3, MovingKeeps

LEMMA FormDecides ==
  ASSUME DecisionsInv,
         FormRecovered \/ (\E h \in Handlers : FormArrives(h) \/ FormRecorded(h))
  PROVE  DecisionsInv'
<1>1. CASE FormRecovered
  <2>1. /\ ticket' = [ticket EXCEPT !.there = TRUE]
        /\ UNCHANGED <<handlers, shows, calendar, missed, forms, tools>>
    BY <1>1 DEF FormRecovered, Recorded, intakeBounds
  <2>2. /\ IntakeTypeOK' /\ ticket'.event = ticket.event /\ ticket'.image = ticket.image
    BY <2>1 DEF DecisionsInv, IntakeTypeOK
  <2>3. QED
    BY <2>1, <2>2 DEF DecisionsInv, HandlerSound, Settled, Covers, LeavesBare
<1>2. ASSUME NEW h \in Handlers, FormArrives(h) PROVE DecisionsInv'
  <2>1. /\ Goes(h, "asking") /\ handlers[h].at = "idle" /\ forms' = forms + 1
        /\ UNCHANGED <<ticket, shows, calendar, missed, tools>>
    BY <1>2 DEF FormArrives, Awaits
  <2>2. ASSUME NEW w \in HandlerShape, handlers' = [handlers EXCEPT ![h] = w]
        PROVE  IntakeTypeOK'
    <3>1. handlers' \in [Handlers -> HandlerShape]
      BY <2>2 DEF DecisionsInv, IntakeTypeOK, HandlerShape
    <3>2. QED
      BY <2>1, <3>1 DEF DecisionsInv, IntakeTypeOK, HandlerShape
  <2>3. QED
    BY <2>1, <2>2, PlainGoingKeeps
<1>3. ASSUME NEW h \in Handlers, FormRecorded(h) PROVE DecisionsInv'
  <2>1. PICK place \in {"idle", "opening"} : Goes(h, place)
    BY <1>3 DEF FormRecorded
  <2>2. /\ handlers[h].at = "asking" /\ ticket' = [ticket EXCEPT !.there = TRUE]
        /\ UNCHANGED <<shows, calendar, missed, forms, tools>>
    BY <1>3 DEF FormRecorded, Recorded, Awaits, intakeBounds
  <2>3. ASSUME NEW w \in HandlerShape, handlers' = [handlers EXCEPT ![h] = w]
        PROVE  IntakeTypeOK'
    <3>1. handlers' \in [Handlers -> HandlerShape]
      BY <2>3 DEF DecisionsInv, IntakeTypeOK, HandlerShape
    <3>2. QED
      BY <2>2, <3>1 DEF DecisionsInv, IntakeTypeOK, HandlerShape
  <2>4. ticket'.event = ticket.event /\ ticket'.image = ticket.image
    BY <2>2 DEF DecisionsInv, IntakeTypeOK
  <2>5. QED
    BY <2>1, <2>2, <2>3, <2>4, PlainGoingKeeps
<1>4. QED
  BY <1>1, <1>2, <1>3

LEMMA JobDecides ==
  ASSUME DecisionsInv, NEW h \in Handlers,
         OpenFails(h) \/ FlyerRequested(h) \/ RequestFlyer(h)
  PROVE  DecisionsInv'
<1>1. PICK place \in {"idle", "opening"} : Goes(h, place)
  BY DEF OpenFails, FlyerRequested, RequestFlyer
<1>2. /\ handlers[h].at \in {"idle", "opening", "carded"}
      /\ UNCHANGED <<shows, calendar, missed, forms>> /\ tools' \in {tools, tools + 1}
  BY DEF OpenFails, FlyerRequested, RequestFlyer, Awaits, Tool, intakeBounds
<1>3. \/ ticket' = ticket
      \/ ticket' = [ticket EXCEPT !.flyer = "requested", !.card = handlers[h].card]
  BY DEF OpenFails, FlyerRequested, RequestFlyer, Opened
<1>4. ticket'.event = ticket.event /\ ticket'.image = ticket.image
  BY <1>3 DEF DecisionsInv, IntakeTypeOK
<1>5. handlers[h].card \in Cards \cup {Nothing}
  BY DEF DecisionsInv, IntakeTypeOK
<1>6. ASSUME NEW w \in HandlerShape, handlers' = [handlers EXCEPT ![h] = w] PROVE IntakeTypeOK'
  <2>1. ticket' \in TicketShapes
    BY <1>3, <1>5 DEF DecisionsInv, IntakeTypeOK, FlyerStatus, TicketShapes
  <2>2. tools' \in Nat /\ missed' \subseteq Proposals /\ forms' \in Nat
    BY <1>2 DEF DecisionsInv, IntakeTypeOK
  <2>3. QED
    BY <1>2, <1>6, <2>1, <2>2, TypesOf DEF DecisionsInv
<1>7. QED
  BY <1>1, <1>2, <1>4, <1>6, PlainGoingKeeps

LEMMA CardDecides ==
  ASSUME DecisionsInv, NEW h \in Handlers, NEW c \in Cards, CardPosted(h, c)
  PROVE  DecisionsInv'
<1>1. PICK w \in HandlerShape : handlers' = [handlers EXCEPT ![h] = w] /\ w.at = "carded"
  BY Becomings DEF CardPosted, Places, FlyerStatus
<1>2. /\ handlers[h].at = "opening" /\ shows' = [shows EXCEPT ![c] = "requested"]
      /\ UNCHANGED <<ticket, calendar, missed, forms, tools>>
  BY DEF CardPosted, Awaits, intakeBounds
<1>3. IntakeTypeOK'
  BY <1>1, <1>2 DEF DecisionsInv, IntakeTypeOK, HandlerShape, FlyerStatus
<1>4. HandlerSound(w)
  BY <1>1 DEF HandlerSound
<1>5. ticket.event # Nothing =>
        ~Covers(handlers[h], ticket.event) /\ ~LeavesBare(w, ticket.event)
  BY <1>1, <1>2 DEF Covers, LeavesBare
<1>6. QED
  BY <1>1, <1>2, <1>3, <1>4, <1>5, MovingKeeps

\* A job that closes, or that is written anew, is about no delivered flyer.
LEMMA ClosingDecides ==
  ASSUME DecisionsInv, NEW h \in Handlers, CancelFlyer(h) \/ UpdateFlyer(h)
  PROVE  DecisionsInv'
<1>1. PICK as \in {"cancelled", "requested"} : Edits(h, as, Nothing)
  BY DEF CancelFlyer, UpdateFlyer
<1>2. /\ handlers[h].at = "idle" /\ UNCHANGED <<shows, calendar, missed, forms>> /\ tools' = tools + 1
      /\ ticket' \in {ticket, [ticket EXCEPT !.flyer = "cancelled"]}
  BY DEF CancelFlyer, UpdateFlyer, Tool, Awaits
<1>3. ticket.card \in Cards \cup {Nothing} /\ as \in FlyerStatus
  BY DEF DecisionsInv, IntakeTypeOK, FlyerStatus
<1>4. PICK w \in HandlerShape :
        handlers' = [handlers EXCEPT ![h] = w] /\ w.at = "editing" /\ w.as = as
  <2> DEFINE w == Handler("editing", ticket.card, as, Nothing, Nothing)
  <2>1. handlers' = [handlers EXCEPT ![h] = w]
    BY <1>1 DEF Edits, Becomes
  <2>2. w \in HandlerShape /\ w.at = "editing" /\ w.as = as
    BY <1>3 DEF Handler, HandlerShape, Places
  <2> HIDE DEF w
  <2>3. QED
    BY <2>1, <2>2
<1>5. IntakeTypeOK' /\ ticket'.event = ticket.event /\ ticket'.image = ticket.image
  BY <1>2, <1>4 DEF DecisionsInv, IntakeTypeOK, HandlerShape, FlyerStatus
<1>6. HandlerSound(w)
  BY <1>4 DEF HandlerSound
<1>7. ticket.event # Nothing =>
        ~Covers(handlers[h], ticket.event) /\ ~LeavesBare(w, ticket.event)
  BY <1>2, <1>4 DEF Covers, LeavesBare
<1>8. QED
  BY <1>2, <1>4, <1>5, <1>6, <1>7, MovingKeeps

\* What the new ticket promises is in the hands of the handler that moves.
LEMMA PromisingKeeps ==
  ASSUME DecisionsInv, NEW h \in Handlers, NEW w, handlers' = [handlers EXCEPT ![h] = w],
         HandlerSound(w), UNCHANGED <<calendar, missed>>, IntakeTypeOK',
         ticket'.event # Nothing => /\ calendar[ticket'.event].state # "unborn"
                                    /\ Covers(w, ticket'.event)
  PROVE  DecisionsInv'
<1>1. handlers'[h] = w /\ \A g \in Handlers \ {h} : handlers'[g] = handlers[g]
  BY DEF DecisionsInv, IntakeTypeOK
<1>2. \A g \in Handlers : HandlerSound(handlers'[g])
  BY <1>1 DEF DecisionsInv
<1>3. (\A g \in Handlers : HandlerSound(handlers[g]))'
  BY <1>2 DEF HandlerSound
<1>4. ticket'.event # Nothing => Settled(ticket.event)'
  BY <1>1 DEF Settled, Covers
<1>5. QED
  BY <1>3, <1>4 DEF DecisionsInv

LEMMA DeliveryDecides ==
  ASSUME DecisionsInv, NEW h \in Handlers, NEW i \in Images, FulfillFlyer(h, i)
  PROVE  DecisionsInv'
<1>1. /\ handlers[h].at = "idle" /\ UNCHANGED <<shows, calendar, missed, forms>> /\ tools' = tools + 1
      /\ ticket' = [ticket EXCEPT !.flyer = "delivered", !.image = i]
      /\ Edits(h, "delivered", i)
  BY DEF FulfillFlyer, Tool, Awaits
<1>2. ticket.card \in Cards \cup {Nothing}
  BY DEF DecisionsInv, IntakeTypeOK
<1>3. PICK w \in HandlerShape : /\ handlers' = [handlers EXCEPT ![h] = w] /\ w.at = "editing"
                                /\ w.as = "delivered" /\ w.image = i
  BY <1>1, <1>2, Becomings DEF Edits, Places, FlyerStatus
<1>4. IntakeTypeOK' /\ ticket'.event = ticket.event
  <2>1. ticket' \in TicketShapes /\ ticket'.event = ticket.event
    BY <1>1 DEF DecisionsInv, IntakeTypeOK, FlyerStatus, TicketShapes
  <2>2. tools' \in Nat /\ missed' \subseteq Proposals /\ forms' \in Nat
    BY <1>1 DEF DecisionsInv, IntakeTypeOK
  <2>3. QED
    BY <1>1, <1>3, <2>1, <2>2, TypesOf DEF DecisionsInv
<1>5. HandlerSound(w) /\ \A e : Covers(w, e)
  BY <1>3 DEF HandlerSound, Covers
<1>6. QED
  BY <1>1, <1>3, <1>4, <1>5, PromisingKeeps DEF DecisionsInv

LEMMA ApprovalDecides ==
  ASSUME DecisionsInv, NEW h \in Handlers, MarkCreated(h)
  PROVE  DecisionsInv'
<1> PICK e : e = handlers[h].event
  OBVIOUS
<1>1. /\ handlers[h].at = "created" /\ ticket' = [ticket EXCEPT !.event = e]
      /\ Becomes(h, Handler("telling", Nothing, "none", e, Nothing))
      /\ UNCHANGED <<shows, calendar, missed, forms, tools>>
  BY DEF MarkCreated, Awaits, intakeBounds
<1>2. e \in Proposals /\ calendar[e].state # "unborn"
  BY <1>1 DEF DecisionsInv, HandlerSound
<1>3. PICK w \in HandlerShape : /\ handlers' = [handlers EXCEPT ![h] = w]
                                /\ w.at = "telling" /\ w.event = e
  <2>1. "telling" \in Places /\ "none" \in FlyerStatus
    BY DEF Places, FlyerStatus
  <2>2. e \in Proposals \cup {Nothing} /\ Nothing \in Cards \cup {Nothing}
        /\ Nothing \in Images \cup {Scanned, Nothing}
    BY <1>2
  <2>3. \E w \in HandlerShape : /\ handlers' = [handlers EXCEPT ![h] = w]
                                /\ w.at = "telling" /\ w.card = Nothing /\ w.as = "none"
                                /\ w.event = e /\ w.image = Nothing
    BY <1>1, <2>1, <2>2, Becomings
  <2>4. QED
    BY <2>3
<1>4. IntakeTypeOK' /\ ticket'.event = e
  BY <1>1, <1>2, <1>3 DEF DecisionsInv, IntakeTypeOK, HandlerShape, FlyerStatus
<1>5. HandlerSound(w) /\ Covers(w, e)
  BY <1>2, <1>3 DEF HandlerSound, Covers
<1>6. QED
  BY <1>1, <1>2, <1>3, <1>4, <1>5, PromisingKeeps

LEMMA EditDecides ==
  ASSUME DecisionsInv, NEW h \in Handlers, CardEdited(h)
  PROVE  DecisionsInv'
<1> DEFINE v == handlers[h]
<1>1. /\ v.at = "editing" /\ shows' \in {shows, [shows EXCEPT ![v.card] = v.as]}
      /\ IF v.as = "delivered"
         THEN Becomes(h, Handler("applying", Nothing, "none", Nothing, v.image))
         ELSE Goes(h, "idle")
      /\ UNCHANGED <<ticket, calendar, missed, forms, tools>>
  BY DEF CardEdited, Awaits, intakeBounds
<1>2. v \in HandlerShape /\ HandlerSound(v)
  BY DEF DecisionsInv, IntakeTypeOK, HandlerShape
<1>3. PICK w \in HandlerShape :
        /\ handlers' = [handlers EXCEPT ![h] = w] /\ HandlerSound(w)
        /\ \A e : ~LeavesBare(w, e)
        /\ v.as = "delivered" => w.at = "applying"
  <2>1. CASE v.as # "delivered"
    BY <1>1, <2>1, Goings
  <2>2. CASE v.as = "delivered"
    <3>1. PICK i \in Images : i = v.image
      BY <1>1, <1>2, <2>2 DEF HandlerSound
    <3>2. PICK w \in HandlerShape : /\ handlers' = [handlers EXCEPT ![h] = w]
                                    /\ w.at = "applying" /\ w.image = i
      BY <1>1, <2>2, <3>1, Becomings DEF Places, FlyerStatus
    <3>3. HandlerSound(w) /\ \A e : ~LeavesBare(w, e)
      BY <3>1, <3>2 DEF HandlerSound, LeavesBare
    <3>4. QED
      BY <3>2, <3>3
  <2>3. QED
    BY <2>1, <2>2
<1>4. IntakeTypeOK'
  BY <1>1, <1>2, <1>3 DEF DecisionsInv, IntakeTypeOK, HandlerShape, FlyerStatus
<1>5. \A e : Covers(v, e) => Covers(w, e)
  BY <1>1, <1>3 DEF Covers
<1>6. QED
  BY <1>1, <1>3, <1>4, <1>5, MovingKeeps

\* The turn ends: what it will put on its event.
LEMMA ResolvingDecides ==
  ASSUME DecisionsInv, NEW h \in Handlers, ResolveFlyer(h)
  PROVE  DecisionsInv'
<1> PICK e : e = handlers[h].event
  OBVIOUS
<1>1. /\ handlers[h].at = "telling"
      /\ UNCHANGED <<ticket, shows, calendar, forms, tools>>
  BY DEF ResolveFlyer, Awaits
<1>2. e \in Proposals /\ calendar[e].state # "unborn"
  BY <1>1 DEF DecisionsInv, HandlerSound
<1>3. PICK i \in {Cover(e), calendar[e].flyer, Scanned, Nothing} :
        /\ Becomes(h, Handler("covering", Nothing, "none", e, i))
        /\ IF i = Nothing /\ Cover(e) # Nothing THEN Misses(e) ELSE UNCHANGED missed
  BY DEF ResolveFlyer
<1>4. i \in Images \cup {Scanned, Nothing}
  BY <1>2, <1>3 DEF Cover, DecisionsInv, IntakeTypeOK
<1>5. /\ missed' \subseteq Proposals /\ \A d \in missed : d \in missed'
      /\ ticket.image # Nothing /\ i = Nothing => e \in missed' \/ calendar[e].cover # Nothing
  BY <1>2, <1>3 DEF Cover, Misses, DecisionsInv, IntakeTypeOK
<1>6. PICK w : /\ w \in HandlerShape /\ handlers' = [handlers EXCEPT ![h] = w]
               /\ w.at = "covering" /\ w.event = e /\ w.image = i
  <2>1. "covering" \in Places /\ "none" \in FlyerStatus
    BY DEF Places, FlyerStatus
  <2>2. e \in Proposals \cup {Nothing} /\ Nothing \in Cards \cup {Nothing}
    BY <1>2
  <2>3. \E w \in HandlerShape : /\ handlers' = [handlers EXCEPT ![h] = w]
                                /\ w.at = "covering" /\ w.card = Nothing /\ w.as = "none"
                                /\ w.event = e /\ w.image = i
    BY <1>3, <1>4, <2>1, <2>2, Becomings
  <2>4. QED
    BY <2>3
<1>7. IntakeTypeOK'
  BY <1>1, <1>5, <1>6 DEF DecisionsInv, IntakeTypeOK, HandlerShape
<1>8. HandlerSound(w)
  BY <1>2, <1>6 DEF HandlerSound
<1>9. ASSUME ticket.image # Nothing, ticket.event \notin missed',
             calendar[ticket.event].cover = Nothing
      PROVE  /\ Covers(handlers[h], ticket.event) => Covers(w, ticket.event)
             /\ ~LeavesBare(w, ticket.event)
  BY <1>1, <1>5, <1>6, <1>9 DEF Covers, LeavesBare
<1>10. QED
  BY <1>1, <1>5, <1>6, <1>7, <1>8, <1>9, MovingKeeps

LEMMA RevisingDecides ==
  ASSUME DecisionsInv, NEW h \in Handlers, ReviseEvent(h)
  PROVE  DecisionsInv'
<1> PICK e : e = ticket.event
  OBVIOUS
<1>1. /\ handlers[h].at = "idle" /\ e # Nothing
      /\ Becomes(h, Handler("telling", Nothing, "none", e, Nothing))
      /\ UNCHANGED <<ticket, shows, calendar, missed, forms>> /\ tools' = tools + 1
  BY DEF ReviseEvent, Awaits, Tool
<1>2. e \in Proposals /\ calendar[e].state # "unborn"
  BY <1>1 DEF DecisionsInv, IntakeTypeOK
<1>3. PICK w : /\ w \in HandlerShape /\ handlers' = [handlers EXCEPT ![h] = w]
               /\ w.at = "telling" /\ w.event = e
  <2>1. "telling" \in Places /\ "none" \in FlyerStatus
    BY DEF Places, FlyerStatus
  <2>2. e \in Proposals \cup {Nothing} /\ Nothing \in Cards \cup {Nothing}
        /\ Nothing \in Images \cup {Scanned, Nothing}
    BY <1>2
  <2>3. \E w \in HandlerShape : /\ handlers' = [handlers EXCEPT ![h] = w]
                                /\ w.at = "telling" /\ w.card = Nothing /\ w.as = "none"
                                /\ w.event = e /\ w.image = Nothing
    BY <1>1, <2>1, <2>2, Becomings
  <2>4. QED
    BY <2>3
<1>4. IntakeTypeOK'
  BY <1>1, <1>3 DEF DecisionsInv, IntakeTypeOK, HandlerShape
<1>5. HandlerSound(w)
  BY <1>2, <1>3 DEF HandlerSound
<1>6. ~Covers(handlers[h], e) /\ ~LeavesBare(w, e)
  BY <1>1, <1>3 DEF Covers, LeavesBare
<1>7. QED
  BY <1>1, <1>3, <1>4, <1>5, <1>6, MovingKeeps

LEMMA ForgettingDecides ==
  ASSUME DecisionsInv, NEW h \in Handlers, MarkDeleted(h)
  PROVE  DecisionsInv'
<1>1. handlers[h].at = "deleted" /\ UNCHANGED <<shows, calendar, missed, forms, tools>>
  BY DEF MarkDeleted, Awaits, intakeBounds
<1>2. CASE ticket.event # handlers[h].event
  <2>1. Goes(h, "idle") /\ UNCHANGED ticket
    BY <1>2 DEF MarkDeleted
  <2>2. \A w \in HandlerShape : handlers' = [handlers EXCEPT ![h] = w] => IntakeTypeOK'
    BY <1>1, <2>1 DEF DecisionsInv, IntakeTypeOK, HandlerShape
  <2>3. QED
    BY <1>1, <2>1, <2>2, PlainGoingKeeps
<1>3. CASE ticket.event = handlers[h].event
  <2>1. PICK w \in HandlerShape : handlers' = [handlers EXCEPT ![h] = w] /\ HandlerSound(w)
    <3>1. CASE ticket.flyer = "requested"
      <4> PICK c : c = ticket.card
        OBVIOUS
      <4>1. Becomes(h, Handler("editing", c, "cancelled", Nothing, Nothing))
        BY <1>3, <3>1 DEF MarkDeleted, Edits
      <4>2. "editing" \in Places /\ "cancelled" \in FlyerStatus /\ c \in Cards \cup {Nothing}
        BY DEF Places, FlyerStatus, DecisionsInv, IntakeTypeOK
      <4>3. Nothing \in Proposals \cup {Nothing} /\ Nothing \in Images \cup {Scanned, Nothing}
        OBVIOUS
      <4>4. \E w \in HandlerShape : /\ handlers' = [handlers EXCEPT ![h] = w]
                                    /\ w.at = "editing" /\ w.card = c
                                    /\ w.as = "cancelled"
                                    /\ w.event = Nothing /\ w.image = Nothing
        BY <4>1, <4>2, <4>3, Becomings
      <4>5. QED
        BY <4>4 DEF HandlerSound
    <3>2. CASE ticket.flyer # "requested"
      BY <1>3, <3>2, Goings DEF MarkDeleted
    <3>3. QED
      BY <3>1, <3>2
  <2>2. ticket' \in TicketShapes /\ ticket'.event = Nothing
    <3>1. PICK f : f = IF ticket.flyer = "requested" THEN "cancelled" ELSE ticket.flyer
      OBVIOUS
    <3>2. f \in FlyerStatus /\ ticket' = [ticket EXCEPT !.event = Nothing, !.flyer = f]
      BY <1>3, <3>1 DEF MarkDeleted, DecisionsInv, IntakeTypeOK, FlyerStatus
    <3>3. QED
      BY <3>2 DEF DecisionsInv, IntakeTypeOK, TicketShapes
  <2>3. IntakeTypeOK'
    <3>1. tools' \in Nat /\ missed' \subseteq Proposals /\ forms' \in Nat
      BY <1>1 DEF DecisionsInv, IntakeTypeOK
    <3>2. QED
      BY <1>1, <2>1, <2>2, <3>1, TypesOf DEF DecisionsInv
  <2>4. QED
    BY <1>1, <2>1, <2>2, <2>3, PromisingKeeps
<1>4. QED
  BY <1>2, <1>3

\* A calendar row and a handler change: rows stay made, and gone ones gone.
LEMMA RowKeeps ==
  ASSUME DecisionsInv, NEW h \in Handlers, NEW w, handlers' = [handlers EXCEPT ![h] = w],
         NEW e \in Proposals, NEW r, calendar' = [calendar EXCEPT ![e] = r],
         calendar[e].state # "unborn" => r.state # "unborn",
         calendar[e].state = "gone" => r.state = "gone",
         r.linked => r.state = "live",
         HandlerSound(w)', UNCHANGED ticket, IntakeTypeOK',
         ticket.event # Nothing /\ ticket.image # Nothing /\ ticket.event \notin missed'
           => Settled(ticket.event)'
  PROVE  DecisionsInv'
<1>1. handlers'[h] = w /\ \A g \in Handlers \ {h} : handlers'[g] = handlers[g]
  BY DEF DecisionsInv, IntakeTypeOK
<1>2. calendar'[e] = r /\ \A d \in Proposals \ {e} : calendar'[d] = calendar[d]
  BY DEF DecisionsInv, IntakeTypeOK
<1>3. \A d \in Proposals : /\ calendar[d].state # "unborn" => calendar'[d].state # "unborn"
                           /\ calendar[d].state = "gone" => calendar'[d].state = "gone"
                           /\ calendar'[d].linked => calendar'[d].state = "live"
  BY <1>2 DEF DecisionsInv
<1>4. (\A g \in Handlers : HandlerSound(handlers[g]))'
  BY <1>1, <1>3 DEF DecisionsInv, HandlerSound
<1>5. ticket.event # Nothing => calendar'[ticket.event].state # "unborn"
  BY <1>3 DEF DecisionsInv, IntakeTypeOK
<1>6. QED
  BY <1>3, <1>4, <1>5 DEF DecisionsInv

LEMMA ApplyingDecides ==
  ASSUME DecisionsInv, NEW h \in Handlers, ApplyFlyer(h)
  PROVE  DecisionsInv'
<1>1. handlers[h].at = "applying" /\ UNCHANGED <<ticket, shows, missed, forms, tools>>
  BY DEF ApplyFlyer, Awaits, intakeBounds
<1>2. CASE ticket.event = Nothing
  <2>1. Goes(h, "idle") /\ UNCHANGED calendar
    BY <1>2 DEF ApplyFlyer
  <2>2. \A w \in HandlerShape : handlers' = [handlers EXCEPT ![h] = w] => IntakeTypeOK'
    BY <1>1, <2>1 DEF DecisionsInv, IntakeTypeOK, HandlerShape
  <2>3. QED
    BY <1>1, <1>2, <2>1, <2>2, PlainGoingKeeps
<1>3. CASE ticket.event # Nothing
  <2>1. PICK e : e = ticket.event
    OBVIOUS
  <2>2. PICK i : i = handlers[h].image
    OBVIOUS
  <2>3. /\ e \in Proposals /\ calendar[e].state # "unborn" /\ i \in Images
        /\ calendar[e].linked => calendar[e].state = "live"
    BY <1>1, <1>3, <2>1, <2>2 DEF DecisionsInv, IntakeTypeOK, HandlerSound
  <2> DEFINE w == Handler("covering", Nothing, "none", e, i)
             r == [calendar[e] EXCEPT !.flyer = i]
  <2>4. handlers' = [handlers EXCEPT ![h] = w] /\ calendar' = [calendar EXCEPT ![e] = r]
    BY <1>3, <2>1, <2>2 DEF ApplyFlyer, Becomes
  <2>5. /\ r \in [state : {"unborn", "live", "gone"}, linked : BOOLEAN,
                   cover : Images \cup {Scanned, Nothing}, flyer : Images \cup {Nothing}]
        /\ r.state = calendar[e].state /\ r.linked = calendar[e].linked
    BY <2>3 DEF DecisionsInv, IntakeTypeOK
  <2>6. w \in HandlerShape /\ w.at = "covering" /\ w.event = e /\ w.image = i
    BY <2>3 DEF Handler, HandlerShape, Places, FlyerStatus
  <2> HIDE DEF w, r
  <2>7. IntakeTypeOK'
    BY <1>1, <2>4, <2>5, <2>6 DEF DecisionsInv, IntakeTypeOK, HandlerShape
  <2>8. HandlerSound(w)'
    BY <2>3, <2>4, <2>5, <2>6 DEF HandlerSound, DecisionsInv, IntakeTypeOK
  <2>9. handlers'[h] = w
    BY <2>4 DEF DecisionsInv, IntakeTypeOK
  <2>10. Covers(handlers'[h], e)
    BY <2>3, <2>6, <2>9, IntakeAssumption DEF Covers
  <2>11. Settled(ticket.event)'
    BY <1>1, <2>1, <2>10 DEF Settled, Covers
  <2>12. QED
    BY <1>1, <2>3, <2>4, <2>5, <2>7, <2>8, <2>11, RowKeeps
<1>4. QED
  BY <1>2, <1>3

RowShapes ==
  [state : {"unborn", "live", "gone"}, linked : BOOLEAN,
   cover : Images \cup {Scanned, Nothing}, flyer : Images \cup {Nothing}]

LEMMA CoverDecides ==
  ASSUME DecisionsInv, NEW h \in Handlers, CoverSet(h)
  PROVE  DecisionsInv'
<1>1. PICK e, i : e = handlers[h].event /\ i = handlers[h].image
  OBVIOUS
<1>2. /\ handlers[h].at \in {"covering", "syncing"} /\ Goes(h, "idle")
      /\ UNCHANGED <<ticket, shows, forms, tools>>
  BY DEF CoverSet, Awaits
<1>3. e \in Proposals /\ calendar[e].state # "unborn" /\ i \in Images \cup {Scanned, Nothing}
  BY <1>1, <1>2 DEF DecisionsInv, HandlerSound, IntakeTypeOK
<1>4. PICK w \in HandlerShape : /\ handlers' = [handlers EXCEPT ![h] = w] /\ w.at = "idle"
                                /\ \A d : ~LeavesBare(w, d)
  BY <1>2, Goings
<1>5. HandlerSound(w)'
  BY <1>4 DEF HandlerSound
<1>6. PICK r : /\ calendar' = [calendar EXCEPT ![e] = r] /\ r \in RowShapes
               /\ r.state = calendar[e].state
               /\ \/ r = calendar[e] /\ r.state # "live" /\ missed' = missed
                  \/ i # Nothing /\ r.cover = i /\ missed' = missed \ {e}
                  \/ /\ r.cover = calendar[e].cover
                     /\ IF i # Nothing \/ handlers[h].at = "syncing" THEN Misses(e)
                        ELSE missed' = missed
               /\ r.linked => r.state = "live"
  <2>1. calendar[e] \in RowShapes /\ (calendar[e].linked => calendar[e].state = "live")
    BY <1>3 DEF DecisionsInv, IntakeTypeOK, RowShapes
  <2>2. CASE calendar[e].state # "live"
    <3>1. calendar' = [calendar EXCEPT ![e] = calendar[e]] /\ missed' = missed
      BY <1>1, <2>2 DEF CoverSet, DecisionsInv, IntakeTypeOK
    <3>2. QED
      BY <2>1, <2>2, <3>1
  <2>3. CASE calendar[e].state = "live" /\ i # Nothing /\ missed' = missed \ {e}
             /\ calendar' = [calendar EXCEPT ![e].linked = TRUE, ![e].cover = i]
    <3> DEFINE r == [calendar[e] EXCEPT !.linked = TRUE, !.cover = i]
    <3>1. calendar' = [calendar EXCEPT ![e] = r]
      BY <2>3 DEF DecisionsInv, IntakeTypeOK
    <3>2. r \in RowShapes /\ r.state = calendar[e].state /\ r.cover = i
      BY <1>3, <2>1 DEF RowShapes
    <3> HIDE DEF r
    <3>3. QED
      BY <2>3, <3>1, <3>2
  <2>4. CASE /\ calendar[e].state = "live" /\ calendar' = [calendar EXCEPT ![e].linked = TRUE]
             /\ IF i # Nothing \/ handlers[h].at = "syncing" THEN Misses(e) ELSE missed' = missed
    <3> DEFINE r == [calendar[e] EXCEPT !.linked = TRUE]
    <3>1. calendar' = [calendar EXCEPT ![e] = r]
      BY <2>4 DEF DecisionsInv, IntakeTypeOK
    <3>2. r \in RowShapes /\ r.state = calendar[e].state /\ r.cover = calendar[e].cover
      BY <1>3, <2>1 DEF RowShapes
    <3> HIDE DEF r
    <3>3. QED
      BY <2>4, <3>1, <3>2
  <2>5. QED
    BY <1>1, <2>2, <2>3, <2>4 DEF CoverSet, Awaits
<1>7. IntakeTypeOK'
  <2>1. handlers' \in [Handlers -> HandlerShape]
    BY <1>4 DEF DecisionsInv, IntakeTypeOK, HandlerShape
  <2>2. calendar' \in [Proposals -> RowShapes]
    BY <1>3, <1>6 DEF DecisionsInv, IntakeTypeOK, RowShapes
  <2>3. missed' \subseteq Proposals
    BY <1>3, <1>6 DEF Misses, DecisionsInv, IntakeTypeOK
  <2>4. QED
    BY <1>2, <2>1, <2>2, <2>3 DEF DecisionsInv, IntakeTypeOK, HandlerShape, RowShapes
<1>8. /\ calendar'[e] = r /\ \A d \in Proposals \ {e} : calendar'[d] = calendar[d]
      /\ handlers'[h] = w /\ \A g \in Handlers \ {h} : handlers'[g] = handlers[g]
  <2>1. DOMAIN calendar = Proposals /\ DOMAIN handlers = Handlers
    BY DEF DecisionsInv, IntakeTypeOK
  <2>2. calendar'[e] = r /\ \A d \in Proposals \ {e} : calendar'[d] = calendar[d]
    BY <1>3, <1>6, <2>1
  <2>3. handlers'[h] = w /\ \A g \in Handlers \ {h} : handlers'[g] = handlers[g]
    BY <1>4, <2>1
  <2>4. QED
    BY <2>2, <2>3
<1>9. ASSUME ticket.event # Nothing, ticket.image # Nothing, ticket.event \notin missed'
      PROVE  Settled(ticket.event)'
  <2>1. PICK d \in Proposals : d = ticket.event /\ d = ticket'.event
    BY <1>2, <1>9 DEF DecisionsInv, IntakeTypeOK
  <2>2. \A g \in Handlers : LeavesBare(handlers'[g], d) => LeavesBare(handlers[g], d)
    BY <1>4, <1>8
  <2>3. \A g \in Handlers \ {h} : Covers(handlers[g], d) => Covers(handlers'[g], d)
    BY <1>8
  <2>4. CASE d # e
    <3>1. d \notin missed
      BY <1>6, <1>9, <2>1, <2>4 DEF Misses
    <3>2. Settled(d)
      BY <1>9, <2>1, <3>1 DEF DecisionsInv
    <3>3. ~Covers(handlers[h], d)
      BY <1>1, <1>2, <2>4 DEF Covers
    <3>4. \/ calendar'[d].cover # Nothing \/ calendar'[d].state = "gone"
          \/ \E g \in Handlers : Covers(handlers'[g], d)
          \/ ~calendar'[d].linked /\ \A g \in Handlers : ~LeavesBare(handlers'[g], d)
      BY <1>8, <2>2, <2>3, <2>4, <3>2, <3>3 DEF Settled
    <3>5. QED
      BY <2>1, <3>4 DEF Settled, Covers, LeavesBare
  <2>5. CASE d = e
    <3>1. CASE r.state # "live"
      <4>1. calendar'[d].state = "gone"
        BY <1>3, <1>6, <1>8, <2>5, <3>1 DEF RowShapes
      <4>2. QED
        BY <2>1, <4>1 DEF Settled
    <3>2. CASE r.cover # Nothing
      <4>1. calendar'[d].cover # Nothing
        BY <1>8, <2>5, <3>2
      <4>2. QED
        BY <2>1, <4>1 DEF Settled
    <3>3. CASE r.state = "live" /\ r.cover = Nothing
      <4>1. /\ calendar[d].cover = Nothing /\ calendar[d].state = "live"
            /\ i = Nothing /\ handlers[h].at = "covering" /\ missed' = missed
        BY <1>2, <1>6, <1>9, <2>1, <2>5, <3>3 DEF Misses
      <4>2. Settled(d)
        BY <1>9, <2>1, <4>1 DEF DecisionsInv
      <4>3. LeavesBare(handlers[h], d) /\ ~Covers(handlers[h], d)
        BY <1>1, <2>5, <4>1 DEF LeavesBare, Covers
      <4>4. \E g \in Handlers : Covers(handlers'[g], d)
        BY <2>3, <4>1, <4>2, <4>3 DEF Settled
      <4>5. QED
        BY <2>1, <4>4 DEF Settled, Covers
    <3>4. QED
      BY <3>1, <3>2, <3>3
  <2>6. QED
    BY <2>4, <2>5
<1>10. QED
  BY <1>2, <1>3, <1>4, <1>5, <1>6, <1>7, <1>9, RowKeeps

\* A row is made or given up by a handler that held nothing.
LEMMA RowStepDecides ==
  ASSUME DecisionsInv, NEW h \in Handlers, NEW e \in Proposals,
         CreateEvent(h, e) \/ WithdrawEvent(h, e)
  PROVE  DecisionsInv'
<1>1. PICK place \in {"created", "deleted"} :
         /\ Becomes(h, Handler(place, Nothing, "none", e, Nothing))
         /\ place = "created" => CreateEvent(h, e)
         /\ place = "deleted" => WithdrawEvent(h, e)
  BY DEF CreateEvent, WithdrawEvent
<1>2. /\ handlers[h].at = "idle" /\ UNCHANGED <<ticket, shows, missed, forms>> /\ tools' = tools + 1
  BY DEF CreateEvent, WithdrawEvent, Tool, Awaits
<1> DEFINE w == Handler(place, Nothing, "none", e, Nothing)
<1>3. w \in HandlerShape /\ w.at = place /\ w.event = e
  BY DEF Handler, HandlerShape, Places, FlyerStatus
<1>4. handlers' = [handlers EXCEPT ![h] = w]
  BY <1>1 DEF Becomes
<1> HIDE DEF w
<1>5. calendar[e] \in RowShapes /\ (calendar[e].linked => calendar[e].state = "live")
  BY DEF DecisionsInv, IntakeTypeOK, RowShapes
<1>6. PICK r : /\ calendar' = [calendar EXCEPT ![e] = r] /\ r \in RowShapes
               /\ r.state # "unborn" /\ (calendar[e].state = "gone" => r.state = "gone")
               /\ r.linked => r.state = "live"
               /\ place = "deleted" => r.state = "gone"
               /\ r.state # "gone" => r.linked = calendar[e].linked /\ r.cover = calendar[e].cover
  <2>1. CASE place = "created"
    <3> DEFINE r == [calendar[e] EXCEPT !.state = "live"]
    <3>1. calendar' = [calendar EXCEPT ![e] = r] /\ calendar[e].state # "gone"
      BY <1>1, <2>1 DEF CreateEvent, DecisionsInv, IntakeTypeOK
    <3>2. /\ r \in RowShapes /\ r.state = "live"
          /\ r.linked = calendar[e].linked /\ r.cover = calendar[e].cover
      BY <1>5 DEF RowShapes
    <3> HIDE DEF r
    <3>3. QED
      BY <2>1, <3>1, <3>2
  <2>2. CASE place = "deleted"
    <3> DEFINE r == [calendar[e] EXCEPT !.state = "gone", !.linked = FALSE, !.cover = Nothing]
    <3>1. calendar' = [calendar EXCEPT ![e] = r]
      BY <1>1, <2>2 DEF WithdrawEvent, DecisionsInv, IntakeTypeOK
    <3>2. /\ r \in RowShapes /\ r.state = "gone" /\ ~r.linked
      BY <1>5 DEF RowShapes
    <3> HIDE DEF r
    <3>3. QED
      BY <2>2, <3>1, <3>2
  <2>3. QED
    BY <2>1, <2>2
<1>7. IntakeTypeOK'
  BY <1>2, <1>3, <1>4, <1>6 DEF DecisionsInv, IntakeTypeOK, HandlerShape, RowShapes
<1>8. DOMAIN calendar = Proposals /\ DOMAIN handlers = Handlers
  BY DEF DecisionsInv, IntakeTypeOK
<1>9. /\ calendar'[e] = r /\ \A d \in Proposals \ {e} : calendar'[d] = calendar[d]
      /\ handlers'[h] = w /\ \A g \in Handlers \ {h} : handlers'[g] = handlers[g]
  BY <1>4, <1>6, <1>8
<1>10. HandlerSound(w)'
  BY <1>3, <1>6, <1>9 DEF HandlerSound
<1>11. ASSUME ticket.event # Nothing, ticket.image # Nothing, ticket.event \notin missed'
       PROVE  Settled(ticket.event)'
  <2>1. PICK d \in Proposals : d = ticket.event /\ d = ticket'.event
    BY <1>2, <1>11 DEF DecisionsInv, IntakeTypeOK
  <2>2. Settled(d)
    BY <1>2, <1>11, <2>1 DEF DecisionsInv
  <2>3. ~Covers(handlers[h], d) /\ ~LeavesBare(w, d)
    BY <1>2, <1>3 DEF Covers, LeavesBare
  <2>4. \/ calendar'[d].state = "gone"
        \/ /\ calendar'[d].cover = calendar[d].cover /\ calendar'[d].linked = calendar[d].linked
           /\ calendar[d].state # "gone"
    BY <1>6, <1>9
  <2>5. \/ calendar'[d].cover # Nothing \/ calendar'[d].state = "gone"
        \/ \E g \in Handlers : Covers(handlers'[g], d)
        \/ ~calendar'[d].linked /\ \A g \in Handlers : ~LeavesBare(handlers'[g], d)
    BY <1>9, <2>2, <2>3, <2>4 DEF Settled
  <2>6. QED
    BY <2>1, <2>5 DEF Settled, Covers, LeavesBare
<1>12. QED
  BY <1>2, <1>4, <1>6, <1>7, <1>10, <1>11, RowKeeps

\* A turn or a sync gives up: what it held is missed.
LEMMA MissingDecides ==
  ASSUME DecisionsInv, NEW h \in Handlers, CoverFails(h) \/ TurnThrows(h)
  PROVE  DecisionsInv'
<1>1. PICK e, i : e = handlers[h].event /\ i = handlers[h].image
  OBVIOUS
<1>2. /\ Goes(h, "idle") /\ UNCHANGED <<ticket, shows, calendar, forms, tools>>
      /\ \/ /\ handlers[h].at \in {"covering", "syncing"}
            /\ IF i # Nothing THEN Misses(e) ELSE missed' = missed
         \/ handlers[h].at = "created" /\ missed' = missed
         \/ handlers[h].at = "telling" /\ Misses(e)
  BY <1>1 DEF CoverFails, TurnThrows, Awaits
<1>3. PICK w \in HandlerShape : /\ handlers' = [handlers EXCEPT ![h] = w] /\ HandlerSound(w)
                                /\ \A d : ~LeavesBare(w, d)
  BY <1>2, Goings
<1>4. e \in Proposals
  BY <1>1, <1>2 DEF DecisionsInv, HandlerSound
<1>5. missed' \subseteq Proposals /\ \A d \in missed : d \in missed'
  BY <1>2, <1>4 DEF Misses, DecisionsInv, IntakeTypeOK
<1>6. IntakeTypeOK'
  BY <1>2, <1>3, <1>5 DEF DecisionsInv, IntakeTypeOK, HandlerShape
<1>7. ASSUME ticket.image # Nothing, ticket.event \notin missed',
             calendar[ticket.event].cover = Nothing
      PROVE  ~Covers(handlers[h], ticket.event)
  BY <1>1, <1>2, <1>7 DEF Covers, Misses
<1>8. QED
  BY <1>2, <1>3, <1>5, <1>6, <1>7, MovingKeeps

LEMMA SyncingDecides ==
  ASSUME DecisionsInv, NEW h \in Handlers, NEW e \in Proposals, ModSyncsEvent(h, e)
  PROVE  DecisionsInv'
<1>1. /\ handlers[h].at = "idle" /\ calendar[e].state = "live"
      /\ UNCHANGED <<ticket, shows, calendar, missed, forms>> /\ tools' = tools + 1
  BY DEF ModSyncsEvent, Awaits, Tool
<1>2. PICK i \in {Scanned, Nothing} : Becomes(h, Handler("syncing", Nothing, "none", e, i))
  BY DEF ModSyncsEvent
<1>3. PICK w : /\ w \in HandlerShape /\ handlers' = [handlers EXCEPT ![h] = w]
               /\ w.at = "syncing" /\ w.event = e
  <2>1. "syncing" \in Places /\ "none" \in FlyerStatus
    BY DEF Places, FlyerStatus
  <2>2. i \in Images \cup {Scanned, Nothing} /\ e \in Proposals \cup {Nothing}
    OBVIOUS
  <2>3. \E w \in HandlerShape : /\ handlers' = [handlers EXCEPT ![h] = w]
                                /\ w.at = "syncing" /\ w.card = Nothing /\ w.as = "none"
                                /\ w.event = e /\ w.image = i
    BY <1>2, <2>1, <2>2, Becomings
  <2>4. QED
    BY <2>3
<1>4. IntakeTypeOK'
  BY <1>1, <1>3 DEF DecisionsInv, IntakeTypeOK, HandlerShape
<1>5. HandlerSound(w)
  BY <1>1, <1>3 DEF HandlerSound
<1>6. \A d : ~Covers(handlers[h], d) /\ ~LeavesBare(w, d)
  BY <1>1, <1>3 DEF Covers, LeavesBare
<1>7. QED
  BY <1>1, <1>3, <1>4, <1>5, <1>6, MovingKeeps

LEMMA RestartDecides == ASSUME DecisionsInv, IntakeRestart PROVE DecisionsInv'
<1>1. /\ handlers' = [h \in Handlers |-> AtRest]
      /\ missed' = missed \cup
           {e \in InHand : ticket.image # Nothing /\ calendar[e].cover = Nothing}
      /\ UNCHANGED <<ticket, shows, calendar, forms, tools>>
  BY DEF IntakeRestart
<1>2. IntakeTypeOK'
  BY <1>1, AtRestIsSound DEF DecisionsInv, IntakeTypeOK, HandlerShape, InHand
<1>3. (\A h \in Handlers : HandlerSound(handlers[h]))'
  BY <1>1, AtRestIsSound DEF HandlerSound
<1>4. ASSUME ticket'.event # Nothing, ticket'.image # Nothing, ticket'.event \notin missed'
      PROVE  Settled(ticket.event)'
  <2>1. PICK d \in Proposals : d = ticket.event /\ d = ticket'.event
    BY <1>1, <1>4 DEF DecisionsInv, IntakeTypeOK
  <2>2. Settled(d) /\ (calendar[d].cover = Nothing => d \notin InHand)
    BY <1>1, <1>4, <2>1 DEF DecisionsInv
  <2>3. ASSUME calendar[d].cover = Nothing, NEW h \in Handlers PROVE ~Covers(handlers[h], d)
    BY <2>1, <2>2, <2>3 DEF InHand, Delivers, Covers
  <2>4. calendar[d].cover # Nothing \/ calendar[d].state = "gone" \/ ~calendar[d].linked
    BY <2>2, <2>3 DEF Settled
  <2>5. \A h \in Handlers : ~LeavesBare(handlers'[h], d)
    BY <1>1, AtRestIsSound DEF LeavesBare
  <2>6. QED
    BY <1>1, <2>1, <2>4, <2>5 DEF Settled, LeavesBare
<1>5. QED
  BY <1>1, <1>2, <1>3, <1>4 DEF DecisionsInv

LEMMA EndingDecides ==
  ASSUME DecisionsInv, NEW e \in Proposals, EventOver(e)
  PROVE  DecisionsInv'
<1> DEFINE r == [calendar[e] EXCEPT !.linked = FALSE, !.cover = Nothing]
<1>1. /\ missed' = IF ticket.image # Nothing /\ \E h \in Handlers : LeavesBare(handlers[h], e)
                   THEN missed \cup {e} ELSE missed
      /\ UNCHANGED <<ticket, handlers, shows, forms, tools>>
  BY DEF EventOver
<1>2. calendar' = [calendar EXCEPT ![e] = r]
  BY DEF EventOver, DecisionsInv, IntakeTypeOK
<1>3. calendar[e] \in RowShapes
  BY DEF DecisionsInv, IntakeTypeOK, RowShapes
<1>4. r \in RowShapes /\ r.state = calendar[e].state /\ ~r.linked
  BY <1>3 DEF RowShapes
<1> HIDE DEF r
<1>5. IntakeTypeOK'
  <2>1. missed' \subseteq Proposals
    BY <1>1 DEF DecisionsInv, IntakeTypeOK
  <2>2. QED
    BY <1>1, <1>2, <1>4, <2>1 DEF DecisionsInv, IntakeTypeOK, RowShapes
<1>6. DOMAIN calendar = Proposals
  BY DEF DecisionsInv, IntakeTypeOK
<1>7. calendar'[e] = r /\ \A d \in Proposals \ {e} : calendar'[d] = calendar[d]
  BY <1>2, <1>6
<1>8. (\A h \in Handlers : HandlerSound(handlers[h]))'
  BY <1>1, <1>4, <1>7 DEF DecisionsInv, HandlerSound
<1>9. /\ \A d \in Proposals : calendar'[d].linked => calendar'[d].state = "live"
      /\ ticket'.event # Nothing => calendar'[ticket'.event].state # "unborn"
  BY <1>1, <1>4, <1>7 DEF DecisionsInv, IntakeTypeOK
<1>10. ASSUME ticket'.event # Nothing, ticket'.image # Nothing, ticket'.event \notin missed'
       PROVE  Settled(ticket.event)'
  <2>1. PICK d \in Proposals : d = ticket.event /\ d = ticket'.event
    BY <1>1, <1>10 DEF DecisionsInv, IntakeTypeOK
  <2>2. Settled(d)
    BY <1>1, <1>10, <2>1 DEF DecisionsInv
  <2>3. \/ calendar'[d].cover # Nothing \/ calendar'[d].state = "gone"
        \/ \E h \in Handlers : Covers(handlers'[h], d)
        \/ ~calendar'[d].linked /\ \A h \in Handlers : ~LeavesBare(handlers'[h], d)
    <3>1. CASE d = e
      BY <1>1, <1>4, <1>7, <1>10, <2>1, <3>1
    <3>2. CASE d # e
      BY <1>1, <1>7, <2>2, <3>2 DEF Settled
    <3>3. QED
      BY <3>1, <3>2
  <2>4. QED
    BY <2>1, <2>3 DEF Settled, Covers, LeavesBare
<1>11. QED
  BY <1>5, <1>8, <1>9, <1>10 DEF DecisionsInv

LEMMA DecisionsStep == ASSUME DecisionsInv, [IntakeNext]_intakeVars PROVE DecisionsInv'
<1>1. CASE UNCHANGED intakeVars
  <2>1. UNCHANGED <<ticket, handlers, shows, calendar, missed, forms, tools>>
    BY <1>1 DEF intakeVars
  <2>2. QED
    BY <2>1 DEF DecisionsInv, IntakeTypeOK, HandlerSound, Settled, Covers, LeavesBare
<1>2. ASSUME NEW h \in Handlers, FlyerStep(h) PROVE DecisionsInv'
  BY <1>2, JobDecides, CardDecides, ClosingDecides, DeliveryDecides, EditDecides,
     ApplyingDecides, CoverDecides, MissingDecides DEF FlyerStep
<1>3. ASSUME NEW h \in Handlers, EventStep(h) PROVE DecisionsInv'
  BY <1>3, RowStepDecides, ApprovalDecides, ResolvingDecides, RevisingDecides,
     ForgettingDecides, MissingDecides, SyncingDecides DEF EventStep
<1>4. QED
  BY <1>1, <1>2, <1>3, FormDecides, RestartDecides, EndingDecides DEF IntakeNext

\* In every state a delivered flyer is on the event, on its way, or has no event to
\* be on, or the event is one of those named as missed, and what a handler deletes
\* is gone for good (watcher.ts, flyer-service.ts).
THEOREM DecisionsInvariant == IntakeSpec => []DecisionsInv
<1>1. DecisionsInv /\ [IntakeNext]_intakeVars => DecisionsInv'
  BY DecisionsStep
<1>2. QED
  BY <1>1, DecisionsStart, PTL DEF IntakeSpec

LEMMA CoversFollow == DecisionsInv => CoverFollowsDelivery
<1> SUFFICES ASSUME DecisionsInv, \A h \in Handlers : Awaits(h, "idle"),
                    ticket.event # Nothing, calendar[ticket.event].linked,
                    ticket.image # Nothing, ticket.event \notin missed
             PROVE  calendar[ticket.event].cover # Nothing
  BY DEF CoverFollowsDelivery
<1>1. ticket.event \in Proposals
  BY DEF DecisionsInv, IntakeTypeOK
<1>2. calendar[ticket.event].state = "live"
  BY <1>1 DEF DecisionsInv
<1>3. QED
  BY <1>2 DEF DecisionsInv, Settled, Covers, Awaits

LEMMA OnlyDeletionForgets ==
  ASSUME DecisionsInv, [IntakeNext]_intakeVars, ticket.event # Nothing, ticket'.event = Nothing
  PROVE  calendar[ticket.event].state = "gone"
<1>1. PICK h \in Handlers : MarkCreated(h) \/ MarkDeleted(h)
  <2>1. ASSUME NEW h \in Handlers, FlyerStep(h) PROVE FALSE
    <3>1. ticket'.event = ticket.event
      BY <2>1 DEF FlyerStep, OpenFails, CardPosted, FlyerRequested, RequestFlyer, CancelFlyer,
                  UpdateFlyer, FulfillFlyer, CardEdited, ApplyFlyer, CoverSet, CoverFails,
                  Opened, DecisionsInv, IntakeTypeOK
    <3>2. QED
      BY <3>1
  <2>2. ticket'.event = ticket.event \/ \E h \in Handlers : EventStep(h)
    BY <2>1 DEF IntakeNext, intakeVars, FormArrives, FormRecorded, FormRecovered, Recorded,
                IntakeRestart, EventOver, DecisionsInv, IntakeTypeOK
  <2>3. QED
    BY <2>2 DEF EventStep, CreateEvent, ModSyncsEvent, WithdrawEvent, ResolveFlyer, TurnThrows,
                  ReviseEvent
<1>2. PICK e : e = handlers[h].event
  OBVIOUS
<1>3. CASE MarkCreated(h)
  <2>1. handlers[h].at = "created" /\ ticket' = [ticket EXCEPT !.event = e]
    BY <1>2, <1>3 DEF MarkCreated, Awaits
  <2>2. e \in Proposals /\ ticket'.event = e
    BY <1>2, <2>1 DEF DecisionsInv, HandlerSound, IntakeTypeOK
  <2>3. QED
    BY <2>2, IntakeAssumption
<1>4. CASE MarkDeleted(h)
  <2>1. handlers[h].at = "deleted" /\ e = ticket.event
    BY <1>2, <1>4 DEF MarkDeleted, Awaits
  <2>2. QED
    BY <1>2, <2>1 DEF DecisionsInv, HandlerSound
<1>5. QED
  BY <1>1, <1>3, <1>4

\* What the moderators approved keeps its event until it is deleted, and gets the
\* flyer that was delivered, in whichever order they came and whatever handlers
\* were between, unless it is one of those named as missed (applyFlyerToEvent,
\* syncDiscordEventFor, recordProposal).
THEOREM ApprovalsStand == IntakeSpec => DecisionsStand
<1>1. DecisionsInv /\ [IntakeNext]_intakeVars => ApprovalStands
  BY OnlyDeletionForgets DEF ApprovalStands
<1>2. DecisionsInv => CoverFollowsDelivery
  BY CoversFollow
<1>3. QED
  BY <1>1, <1>2, DecisionsInvariant, PTL DEF IntakeSpec, DecisionsStand

-----------------------------------------------------------------------------
(* Voice sessions (MinutasSessions).                                       *)

SessionsTypeOK ==
  /\ rowStatus \in [Joins -> Statuses] /\ work \in [Joins -> Stages]
  /\ current \in Joins \cup {NoSession}
  /\ posts \in [Joins -> Nat] /\ cut \in [Joins -> Nat]

\* The guild's entry is of a session being recorded: ending it starts its
\* finalization once.
CurrentRecords == current # NoSession => work[current] = "recording"

\* A session that is over, or not begun, is not in what a restart sweeps.
OverIsSettled ==
  \A s \in Joins : work[s] \in {"none", "connecting", "over"} => rowStatus[s] \notin Swept

\* Before its post a session has only the posts that a restart cut off.
PostedSoFar ==
  \A s \in Joins :
    /\ work[s] \in {"posted", "stored", "over"} => posts[s] <= cut[s] + 1
    /\ work[s] \notin {"posted", "stored", "over"} => posts[s] <= cut[s]

SessionsInv == SessionsTypeOK /\ CurrentRecords /\ OverIsSettled /\ PostedSoFar

LEMMA SessionsInvInit == SessionsInit => SessionsInv
BY DEF SessionsInit, SessionsInv, SessionsTypeOK, CurrentRecords, OverIsSettled,
       PostedSoFar, Statuses, Stages, Swept

-----------------------------------------------------------------------------
(* One session moves from a stage to the next, and nothing else changes.   *)

\* The stages a session passes through without its minutes being posted.
Steps(s, from, to, mark) ==
  /\ work[s] = from /\ work' = [work EXCEPT ![s] = to]
  /\ rowStatus' = [rowStatus EXCEPT ![s] = mark]

\* A move that posts nothing, leaves the guild's entry alone, keeps a settled
\* session out of the sweep and does not bring a posted session back before its
\* post.
LEMMA MoveKeeps ==
  ASSUME SessionsInv, NEW s \in Joins, NEW to \in Stages, NEW mark \in Statuses,
         Steps(s, work[s], to, mark), UNCHANGED <<current, posts, cut>>,
         work[s] # "recording",
         to \in {"none", "connecting", "over"} => mark \notin Swept,
         work[s] \in {"posted", "stored", "over"} => to \in {"posted", "stored", "over"}
  PROVE  SessionsInv'
<1> USE DEF SessionsInv, Steps
<1>1. SessionsTypeOK'
  BY DEF SessionsTypeOK
<1>2. CurrentRecords'
  BY DEF CurrentRecords, SessionsTypeOK
<1>3. OverIsSettled'
  BY DEF OverIsSettled, SessionsTypeOK, Swept
<1>4. PostedSoFar'
  BY DEF PostedSoFar, SessionsTypeOK
<1> QED BY <1>1, <1>2, <1>3, <1>4

LEMMA UnmarkedStatus ==
  ASSUME SessionsInv, NEW s \in Joins
  PROVE  /\ rowStatus[s] \in Statuses /\ rowStatus = [rowStatus EXCEPT ![s] = rowStatus[s]]
         /\ work[s] \in Stages
BY DEF SessionsInv, SessionsTypeOK

LEMMA JoinKeeps ==
  ASSUME SessionsInv, NEW s \in Joins, Join(s) \/ ConnectFails(s)
  PROVE  SessionsInv'
<1>1. PICK to \in {"connecting", "over"} :
        /\ work[s] \in {"none", "connecting"} /\ Enters(s, to) /\ UNCHANGED <<rowStatus, current, posts, cut>>
  BY DEF Join, ConnectFails, sessionMemory, disk, sessionHistory
<1>2. rowStatus[s] \notin Swept
  BY <1>1 DEF SessionsInv, OverIsSettled
<1>3. Steps(s, work[s], to, rowStatus[s])
  BY <1>1, UnmarkedStatus DEF Steps, Enters
<1> QED BY <1>1, <1>2, <1>3, UnmarkedStatus, MoveKeeps DEF Stages

\* The new session takes the guild's entry, also from another's.
LEMMA ConnectedKeeps ==
  ASSUME SessionsInv, NEW s \in Joins, Connected(s)
  PROVE  SessionsInv'
<1> USE DEF SessionsInv, Connected, Enters, Marked
<1>1. SessionsTypeOK'
  BY DEF SessionsTypeOK, Statuses, Stages
<1>2. CurrentRecords'
  BY DEF CurrentRecords, SessionsTypeOK
<1>3. OverIsSettled'
  BY DEF OverIsSettled, SessionsTypeOK
<1>4. PostedSoFar'
  BY DEF PostedSoFar, SessionsTypeOK
<1> QED BY <1>1, <1>2, <1>3, <1>4

\* Ending takes the entry away, so a second end finds nothing.
LEMMA EndKeeps ==
  ASSUME SessionsInv, EndSession \/ (\E s \in Joins : MaxTimer(s))
  PROVE  SessionsInv'
<1> USE DEF SessionsInv
<1>1. UNCHANGED <<rowStatus, posts, cut>>
  BY DEF EndSession, MaxTimer, sessionHistory
<1>2. CASE current = NoSession
  <2>1. UNCHANGED <<work, current>>
    BY <1>2 DEF EndSession, MaxTimer, EndOf
  <2> QED
    BY <1>1, <2>1 DEF SessionsTypeOK, CurrentRecords, OverIsSettled, PostedSoFar
<1>3. CASE current # NoSession
  <2>1. /\ work' = [work EXCEPT ![current] = "ending"] /\ current' = NoSession
        /\ current \in Joins /\ work[current] = "recording"
    BY <1>3 DEF EndSession, MaxTimer, EndOf, Enters, AfterEnd, SessionsTypeOK, CurrentRecords
  <2>2. SessionsTypeOK' /\ CurrentRecords'
    BY <1>1, <2>1 DEF SessionsTypeOK, CurrentRecords, Stages
  <2>3. OverIsSettled'
    BY <1>1, <2>1 DEF OverIsSettled, SessionsTypeOK, Swept
  <2>4. PostedSoFar'
    BY <1>1, <2>1 DEF PostedSoFar, SessionsTypeOK
  <2> QED BY <2>2, <2>3, <2>4
<1> QED BY <1>2, <1>3

LEMMA FlushedKeeps ==
  ASSUME SessionsInv, NEW s \in Joins, Flushed(s)
  PROVE  SessionsInv'
<1>1. /\ work[s] = "ending" /\ Steps(s, "ending", "draining", "processing")
      /\ UNCHANGED <<current, posts, cut>>
  BY DEF Flushed, Enters, Marked, Steps, sessionMemory, sessionHistory
<1> QED BY <1>1, MoveKeeps DEF Stages, Statuses

\* The post is counted, in the one step that leaves "finalizing" with minutes.
LEMMA PostKeeps ==
  ASSUME SessionsInv, NEW s \in Joins, PostMinutes(s)
  PROVE  SessionsInv'
<1> USE DEF SessionsInv
<1>1. /\ work[s] = "finalizing" /\ work' = [work EXCEPT ![s] = "posted"]
      /\ UNCHANGED <<rowStatus, current, cut>>
      /\ posts' = posts \/ posts' = [posts EXCEPT ![s] = @ + 1]
  BY DEF PostMinutes, Enters, sessionMemory, sessionHistory
<1>2. SessionsTypeOK' /\ CurrentRecords'
  BY <1>1 DEF SessionsTypeOK, CurrentRecords, Stages
<1>3. OverIsSettled'
  BY <1>1 DEF OverIsSettled, SessionsTypeOK, Swept
<1>4. PostedSoFar'
  BY <1>1 DEF PostedSoFar, SessionsTypeOK
<1> QED BY <1>2, <1>3, <1>4

LEMMA FinalStepKeeps ==
  ASSUME SessionsInv, NEW s \in Joins, FinalStep(s)
  PROVE  SessionsInv'
<1>1. CASE Drained(s)
  <2>1. /\ work[s] = "draining" /\ Steps(s, "draining", "finalizing", rowStatus[s])
        /\ UNCHANGED <<current, posts, cut>>
    BY <1>1, UnmarkedStatus DEF Drained, Enters, Steps, sessionMemory, sessionHistory
  <2> QED BY <2>1, UnmarkedStatus, MoveKeeps DEF Stages
<1>2. CASE PostMinutes(s)
  BY <1>2, PostKeeps
<1>3. CASE UploadAudio(s)
  <2>1. /\ work[s] = "posted" /\ Steps(s, "posted", "stored", rowStatus[s])
        /\ UNCHANGED <<current, posts, cut>>
    BY <1>3, UnmarkedStatus DEF UploadAudio, Enters, Steps, sessionMemory, sessionHistory
  <2> QED BY <2>1, UnmarkedStatus, MoveKeeps DEF Stages
<1>4. CASE Done(s)
  <2>1. /\ work[s] = "stored" /\ Steps(s, "stored", "over", "done")
        /\ UNCHANGED <<current, posts, cut>>
    BY <1>4 DEF Done, Enters, Marked, Steps, sessionMemory, sessionHistory
  <2> QED BY <2>1, MoveKeeps DEF Stages, Statuses, Swept
<1>5. CASE FinalizeFails(s)
  <2>1. /\ work[s] \in {"finalizing", "posted"} /\ Steps(s, work[s], "over", "failed")
        /\ UNCHANGED <<current, posts, cut>>
    BY <1>5 DEF FinalizeFails, Enters, Marked, Steps, sessionMemory, sessionHistory
  <2> QED BY <2>1, MoveKeeps DEF Stages, Statuses, Swept
<1> QED BY <1>1, <1>2, <1>3, <1>4, <1>5 DEF FinalStep

\* The sweep puts what was unfinished back before its post, and every post it
\* puts back is counted as cut off.
LEMMA RestartKeeps ==
  ASSUME SessionsInv, MinutasRestart
  PROVE  SessionsInv'
<1> USE DEF SessionsInv
<1>1. /\ current' = NoSession /\ UNCHANGED posts
      /\ rowStatus' = [s \in Joins |-> IF rowStatus[s] \in Swept THEN "processing" ELSE rowStatus[s]]
      /\ work' = [s \in Joins |-> IF rowStatus[s] \in Swept THEN "draining"
                                  ELSE IF work[s] = "none" THEN "none" ELSE "over"]
      /\ cut' = [s \in Joins |-> IF work[s] \in {"posted", "stored"} THEN cut[s] + 1 ELSE cut[s]]
  BY DEF MinutasRestart
<1>2. SessionsTypeOK' /\ CurrentRecords'
  BY <1>1 DEF SessionsTypeOK, CurrentRecords, Statuses, Stages
<1>3. OverIsSettled'
  BY <1>1 DEF OverIsSettled, Swept
<1>4. PostedSoFar'
  <2> SUFFICES ASSUME NEW s \in Joins
               PROVE  /\ work'[s] \in {"posted", "stored", "over"} => posts[s] <= cut'[s] + 1
                      /\ work'[s] \notin {"posted", "stored", "over"} => posts[s] <= cut'[s]
    BY <1>1 DEF PostedSoFar
  <2>1. posts[s] \in Nat /\ cut[s] \in Nat
    BY DEF SessionsTypeOK
  <2>2. CASE work[s] \in {"posted", "stored"}
    BY <1>1, <2>1, <2>2 DEF PostedSoFar
  <2>3. CASE work[s] = "over"
    BY <1>1, <2>1, <2>3 DEF PostedSoFar, OverIsSettled
  <2>4. CASE work[s] \notin {"posted", "stored", "over"}
    BY <1>1, <2>1, <2>4 DEF PostedSoFar
  <2> QED BY <2>2, <2>3, <2>4
<1> QED BY <1>2, <1>3, <1>4

LEMMA SessionsInvStep == SessionsInv /\ [SessionsNext]_sessionVars => SessionsInv'
<1> SUFFICES ASSUME SessionsInv, [SessionsNext]_sessionVars PROVE SessionsInv'
  OBVIOUS
<1>1. CASE UNCHANGED sessionVars
  BY <1>1 DEF sessionVars, SessionsInv, SessionsTypeOK, CurrentRecords, OverIsSettled, PostedSoFar
<1>2. CASE SessionsNext
  BY <1>2, JoinKeeps, ConnectedKeeps, EndKeeps, FlushedKeeps, FinalStepKeeps, RestartKeeps
     DEF SessionsNext
<1> QED BY <1>1, <1>2

\* Whatever ends a recording, alone or together, posts its minutes once; only a
\* restart between the post and its record posts them again.
THEOREM MinutesArePostedOnce == SessionsSpec => []MinutesPostedOnce
<1>1. SessionsInv => MinutesPostedOnce
  BY DEF SessionsInv, PostedSoFar, SessionsTypeOK, MinutesPostedOnce
<1>2. SessionsSpec => []SessionsInv
  BY SessionsInvInit, SessionsInvStep, PTL DEF SessionsSpec
<1> QED BY <1>1, <1>2, PTL

-----------------------------------------------------------------------------
(* The transcriber of a session (LiveTranscriber).                         *)

WorkerStates ==
  [pending : SUBSET Bursts, expired : BOOLEAN, rest : SUBSET Bursts, sent : SUBSET Bursts]

LiveTypeOK ==
  /\ burst \in [Bursts -> {"unused", "open", "flushing", "recorded", "lost"}]
  /\ voice \in [Bursts -> Voices \cup {Nobody}]
  /\ live \in [Voices -> WorkerStates]
  /\ phase \in {"recording", "closing", "draining", "finalizing", "finished"}
  /\ available \in BOOLEAN

\* What waits for a voice's worker is that voice's, is on disk, and was not sent;
\* a burst still being recorded has a voice.
WorkersApart ==
  /\ \A b \in Bursts : burst[b] \in {"open", "flushing"} => voice[b] \in Voices
  /\ \A v \in Voices :
       /\ \A b \in live[v].pending \cup live[v].rest \cup live[v].sent :
            b \in Bursts /\ burst[b] = "recorded" /\ voice[b] = v
       /\ live[v].pending \cap live[v].rest = {}
       /\ \A b \in live[v].pending \cup live[v].rest : b \notin whispered

\* Whatever was sent is in the ledger or in whisper; while the meeting runs, it was
\* on disk.
SentOnce ==
  /\ doubled = {}
  /\ ledger \subseteq text
  /\ \A b \in whispered : \/ b \in ledger \/ b \in batch
                          \/ \E v \in Voices : b \in live[v].sent
  /\ phase = "recording" => \A b \in whispered : b \in Bursts /\ burst[b] = "recorded"

\* Finalize and the worker do not meet, and finalize has everything the ledger lacks.
Finalizing ==
  /\ phase \in {"recording", "closing", "draining"} => remaining = {} /\ batch = {}
  /\ phase \in {"finalizing", "finished"} =>
       /\ \A v \in Voices : live[v].pending = {} /\ live[v].rest = {} /\ live[v].sent = {}
       /\ remaining \cap whispered = {}
       /\ known \subseteq ledger \cup remaining \cup batch \cup missing
  /\ phase = "finished" => remaining = {} /\ batch = {}

LiveInv == LiveTypeOK /\ WorkersApart /\ SentOnce /\ Finalizing

\* A flush moves what is pending and touches nothing that is in flight.
LEMMA FlushKeeps ==
  ASSUME NEW w \in WorkerStates, w.pending \cap w.rest = {}
  PROVE  /\ MaybeFlush(w) \in WorkerStates
         /\ MaybeFlush(w).pending \cup MaybeFlush(w).rest = w.pending \cup w.rest
         /\ MaybeFlush(w).pending \cap MaybeFlush(w).rest = {}
         /\ MaybeFlush(w).sent = w.sent
<1>1. CASE MaybeFlush(w) = w
  BY <1>1
<1>2. CASE MaybeFlush(w) # w
  <2>1. /\ w.rest = {} /\ w.sent = {}
        /\ MaybeFlush(w) = [pending |-> {}, expired |-> FALSE, rest |-> w.pending, sent |-> {}]
    BY <1>2 DEF MaybeFlush, InFlight, Worker, WorkerStates
  <2>2. QED
    BY <2>1 DEF WorkerStates
<1>3. QED
  BY <1>1, <1>2

LEMMA LiveStarts == LiveInit => LiveInv
BY DEF LiveInit, LiveInv, LiveTypeOK, WorkersApart, SentOnce, Finalizing, Worker, WorkerStates

\* The worker of a voice turns to what it holds already.
LEMMA WorkerTurns ==
  ASSUME LiveInv, NEW v \in Voices, NEW w \in WorkerStates,
         live' = [live EXCEPT ![v] = MaybeFlush(w)],
         UNCHANGED <<burst, voice, phase, available, remaining, batch, text, ledger, doubled, known, missing>>,
         whispered' \subseteq whispered,
         w.pending \cup w.rest \cup w.sent
           \subseteq live[v].pending \cup live[v].rest \cup live[v].sent,
         w.pending \subseteq live[v].pending, w.rest \subseteq live[v].rest,
         whispered' \cap live[v].sent \subseteq w.sent \cup ledger
  PROVE  LiveInv'
<1> USE DEF LiveInv
<1>1. PICK u \in WorkerStates :
        /\ live' = [live EXCEPT ![v] = u]
        /\ u.pending \cup u.rest \subseteq w.pending \cup w.rest
        /\ u.sent = w.sent /\ u.pending \cap u.rest = {}
  <2>1. w.pending \cap w.rest = {}
    BY DEF WorkersApart
  <2>2. QED
    BY <2>1, FlushKeeps
<1>2. \A x \in Voices : live'[x] = IF x = v THEN u ELSE live[x]
  BY <1>1 DEF LiveTypeOK
<1>3. LiveTypeOK'
  BY <1>1 DEF LiveTypeOK
<1>4. WorkersApart'
  BY <1>1, <1>2 DEF WorkersApart
<1>5. SentOnce'
  BY <1>1, <1>2 DEF SentOnce
<1>6. Finalizing'
  BY <1>1, <1>2 DEF Finalizing
<1>7. QED
  BY <1>3, <1>4, <1>5, <1>6

LEMMA RecordingSteps ==
  ASSUME LiveInv, NEW b \in Bursts,
         \/ \E v \in Voices : Speak(b, v)
         \/ Silence(b) \/ BurstRecorded(b) \/ BurstLost(b)
  PROVE  LiveInv'
<1> USE DEF LiveInv
<1>1. UNCHANGED <<phase, available, finalizer, transcripts>>
  BY DEF Speak, Silence, BurstRecorded, BurstLost
<1>2. PICK s \in {"open", "flushing", "recorded", "lost"} :
        /\ burst' = [burst EXCEPT ![b] = s] /\ burst[b] \in {"unused", "open", "flushing"}
        /\ \A c \in Bursts : burst'[c] = IF c = b THEN s ELSE burst[c]
  BY DEF Speak, Silence, BurstRecorded, BurstLost, LiveTypeOK
<1>3. b \notin whispered \/ phase # "recording"
  BY <1>2 DEF SentOnce
<1>4. CASE live' = live
  <2>1. /\ voice' \in [Bursts -> Voices \cup {Nobody}]
        /\ \A c \in Bursts \ {b} : voice'[c] = voice[c]
        /\ s \in {"open", "flushing"} => voice'[b] \in Voices
    BY <1>2, <1>4 DEF Speak, Silence, BurstRecorded, BurstLost, LiveTypeOK, WorkersApart
  <2>2. LiveTypeOK'
    BY <1>1, <1>2, <1>4, <2>1 DEF LiveTypeOK
  <2>3. WorkersApart'
    BY <1>1, <1>2, <1>4, <2>1 DEF WorkersApart, transcripts
  <2>4. SentOnce' /\ Finalizing'
    BY <1>1, <1>2, <1>4 DEF SentOnce, Finalizing, transcripts, finalizer
  <2>5. QED
    BY <2>2, <2>3, <2>4
<1>5. CASE BurstRecorded(b) /\ phase = "recording" /\ available
  <2>1. PICK v \in Voices : v = voice[b]
    BY <1>5 DEF BurstRecorded, WorkersApart
  <2>2. PICK w \in WorkerStates :
          w = [live[v] EXCEPT !.pending = @ \cup {b}]
    BY DEF LiveTypeOK, WorkerStates
  <2>3. /\ w.pending = live[v].pending \cup {b} /\ w.rest = live[v].rest /\ w.sent = live[v].sent
    BY <2>2 DEF LiveTypeOK, WorkerStates
  <2>4. /\ live' = [live EXCEPT ![v] = MaybeFlush(w)] /\ burst' = [burst EXCEPT ![b] = "recorded"]
        /\ voice' = voice
    BY <1>5, <2>1, <2>2 DEF BurstRecorded, Works, Enqueue
  <2>5. PICK u \in WorkerStates :
          /\ live' = [live EXCEPT ![v] = u]
          /\ u.pending \cup u.rest = w.pending \cup w.rest
          /\ u.sent = w.sent /\ u.pending \cap u.rest = {}
    <3>1. w.pending \cap w.rest = {}
      BY <1>2, <2>3 DEF WorkersApart
    <3>2. QED
      BY <2>4, <3>1, FlushKeeps
  <2>6. \A x \in Voices : live'[x] = IF x = v THEN u ELSE live[x]
    BY <2>5 DEF LiveTypeOK
  <2>7. \A c \in Bursts : burst'[c] = IF c = b THEN "recorded" ELSE burst[c]
    BY <2>4 DEF LiveTypeOK
  <2>8. LiveTypeOK'
    BY <1>1, <2>4, <2>5 DEF LiveTypeOK
  <2>9. WorkersApart'
    BY <1>1, <1>3, <1>5, <2>1, <2>3, <2>4, <2>5, <2>6, <2>7 DEF WorkersApart, transcripts
  <2>10. SentOnce' /\ Finalizing'
    BY <1>1, <1>5, <2>3, <2>5, <2>6, <2>7 DEF SentOnce, Finalizing, transcripts, finalizer
  <2>11. QED
    BY <2>8, <2>9, <2>10
<1>6. QED
  BY <1>4, <1>5 DEF Speak, Silence, BurstRecorded, BurstLost

LEMMA WorkerSteps ==
  ASSUME LiveInv, NEW v \in Voices,
         \/ TimerFires(v) \/ BatchDone(v) \/ BatchFails(v)
         \/ \E bursts \in SUBSET live[v].rest : BatchStarts(v, bursts)
  PROVE  LiveInv'
<1> USE DEF LiveInv
<1>1. live[v] \in WorkerStates
  BY DEF LiveTypeOK
<1>2. UNCHANGED <<burst, voice, phase, available, remaining, batch, known, missing>>
  BY DEF TimerFires, BatchDone, BatchFails, BatchStarts, recording, finalizer
<1>3. CASE TimerFires(v)
  <2>1. PICK w \in WorkerStates : w = [live[v] EXCEPT !.expired = TRUE]
    BY <1>1 DEF WorkerStates
  <2>2. w.pending = live[v].pending /\ w.rest = live[v].rest /\ w.sent = live[v].sent
    BY <1>1, <2>1 DEF WorkerStates
  <2>3. live' = [live EXCEPT ![v] = MaybeFlush(w)] /\ UNCHANGED <<text, ledger, doubled, whispered>>
    BY <1>3, <2>1 DEF TimerFires, Works, transcripts
  <2>4. QED
    BY <1>2, <2>2, <2>3, WorkerTurns DEF WorkersApart
<1>4. CASE BatchFails(v)
  <2>1. PICK w \in WorkerStates : w = [live[v] EXCEPT !.sent = {}, !.rest = {}]
    BY <1>1 DEF WorkerStates
  <2>2. w.pending = live[v].pending /\ w.rest = {} /\ w.sent = {}
    BY <1>1, <2>1 DEF WorkerStates
  <2>3. /\ live' = [live EXCEPT ![v] = MaybeFlush(w)] /\ UNCHANGED <<text, ledger, doubled>>
        /\ whispered' = whispered \ live[v].sent
    BY <1>4, <2>1 DEF BatchFails, Works, Recheck
  <2>4. QED
    BY <1>2, <2>2, <2>3, WorkerTurns
<1>5. CASE BatchDone(v)
  <2> DEFINE sent == live[v].sent
  <2>1. PICK w \in WorkerStates : w = [live[v] EXCEPT !.sent = {}]
    BY <1>1 DEF WorkerStates
  <2>2. w.pending = live[v].pending /\ w.rest = live[v].rest /\ w.sent = {}
    BY <1>1, <2>1 DEF WorkerStates
  <2>3. /\ ledger' = ledger \cup sent /\ text' = text \cup sent /\ sent # {}
        /\ UNCHANGED <<doubled, whispered>>
        /\ live' = [live EXCEPT ![v] = IF w.rest = {} THEN MaybeFlush(w) ELSE w]
    BY <1>5, <2>1 DEF BatchDone, Works, Recheck, Appended
  <2>4. PICK u \in WorkerStates :
          /\ live' = [live EXCEPT ![v] = u]
          /\ u.pending \cup u.rest = w.pending \cup w.rest
          /\ u.sent = {} /\ u.pending \cap u.rest = {}
    <3>1. w.pending \cap w.rest = {}
      BY <2>2 DEF WorkersApart
    <3>2. CASE w.rest # {}
      BY <2>2, <2>3, <3>1, <3>2
    <3>3. CASE w.rest = {}
      BY <2>2, <2>3, <3>1, <3>3, FlushKeeps
    <3>4. QED
      BY <3>2, <3>3
  <2>5. \A x \in Voices : live'[x] = IF x = v THEN u ELSE live[x]
    BY <2>4 DEF LiveTypeOK
  <2>6. LiveTypeOK'
    BY <1>2, <2>4 DEF LiveTypeOK
  <2>7. WorkersApart'
    BY <1>2, <2>2, <2>3, <2>4, <2>5 DEF WorkersApart
  <2>8. SentOnce'
    BY <1>2, <2>2, <2>3, <2>4, <2>5 DEF SentOnce, WorkersApart
  <2>9. Finalizing'
    BY <1>2, <2>3 DEF Finalizing, LiveTypeOK
  <2>10. QED
    BY <2>6, <2>7, <2>8, <2>9
<1>6. ASSUME NEW bursts \in SUBSET live[v].rest, BatchStarts(v, bursts)
      PROVE  LiveInv'
  <2>1. /\ live[v].sent = {} /\ bursts # {}
        /\ live' = [live EXCEPT ![v] = [live[v] EXCEPT !.rest = @ \ bursts, !.sent = bursts]]
        /\ UNCHANGED <<ledger, text>>
        /\ doubled' = doubled \cup (whispered \cap bursts) /\ whispered' = whispered \cup bursts
    BY <1>6 DEF BatchStarts, Works, ToWhisper
  <2>2. PICK u \in WorkerStates :
          /\ live' = [live EXCEPT ![v] = u]
          /\ u.pending = live[v].pending /\ u.rest = live[v].rest \ bursts /\ u.sent = bursts
    <3> DEFINE r == [live[v] EXCEPT !.rest = @ \ bursts, !.sent = bursts]
    <3>1. /\ r \in WorkerStates
          /\ r.pending = live[v].pending /\ r.rest = live[v].rest \ bursts /\ r.sent = bursts
      BY <1>1 DEF WorkerStates
    <3>2. live' = [live EXCEPT ![v] = r]
      BY <2>1
    <3> HIDE DEF r
    <3>3. QED
      BY <3>1, <3>2
  <2>3. \A x \in Voices : live'[x] = IF x = v THEN u ELSE live[x]
    BY <2>2 DEF LiveTypeOK
  <2>4. LiveTypeOK'
    BY <1>2, <2>2 DEF LiveTypeOK
  <2>5. WorkersApart'
    BY <1>2, <2>1, <2>2, <2>3 DEF WorkersApart
  <2>6. SentOnce'
    BY <1>2, <2>1, <2>2, <2>3 DEF SentOnce, WorkersApart
  <2>7. Finalizing'
    BY <1>2, <2>1 DEF Finalizing, LiveTypeOK
  <2>8. QED
    BY <2>4, <2>5, <2>6, <2>7
<1>7. QED
  BY <1>3, <1>4, <1>5, <1>6

LEMMA FinalizeSteps ==
  ASSUME LiveInv,
         \/ MeetingEnds \/ DrainStarts \/ DrainEnds \/ Finish \/ Cut
         \/ (\E bursts \in SUBSET remaining : FinalBatch(bursts))
         \/ FinalBatchDone \/ FinalBatchFails
  PROVE  LiveInv'
<1> USE DEF LiveInv
<1>1. CASE MeetingEnds \/ DrainStarts \/ Finish
  <2>1. /\ UNCHANGED <<burst, voice, live, available, remaining, batch, known, missing, ledger, text, whispered, doubled>>
        /\ \/ phase = "recording" /\ phase' = "closing"
           \/ phase = "closing" /\ phase' = "draining"
           \/ phase = "finalizing" /\ phase' = "finished" /\ remaining = {} /\ batch = {}
    BY <1>1 DEF MeetingEnds, DrainStarts, Finish, recording, finalizer, transcripts
  <2>2. LiveTypeOK' /\ WorkersApart' /\ SentOnce'
    BY <2>1 DEF LiveTypeOK, WorkersApart, SentOnce
  <2>3. Finalizing'
    BY <2>1 DEF Finalizing
  <2>4. QED
    BY <2>2, <2>3
<1>2. CASE DrainEnds
  <2>1. /\ UNCHANGED <<burst, voice, available, batch, ledger, text, whispered, doubled>>
        /\ phase = "draining" /\ phase' = "finalizing"
        /\ live' = [v \in Voices |-> [live[v] EXCEPT !.pending = {}, !.expired = FALSE]]
        /\ known' = OnDisk /\ remaining' \cap ledger = {}
        /\ OnDisk \subseteq ledger \cup remaining' \cup missing'
        /\ \A v \in Voices : live[v].rest = {} /\ live[v].sent = {}
    BY <1>2 DEF DrainEnds, recording, transcripts, NoneInFlight, InFlight
  <2>2. /\ live' \in [Voices -> WorkerStates]
        /\ \A v \in Voices : live'[v].pending = {} /\ live'[v].rest = {} /\ live'[v].sent = {}
    <3>1. ASSUME NEW v \in Voices
          PROVE  LET w == [live[v] EXCEPT !.pending = {}, !.expired = FALSE] IN
                 /\ w \in WorkerStates /\ w.pending = {} /\ w.rest = {} /\ w.sent = {}
      <4>1. live[v] \in WorkerStates /\ live[v].rest = {} /\ live[v].sent = {}
        BY <2>1 DEF LiveTypeOK
      <4>2. QED
        BY <4>1 DEF WorkerStates
    <3>2. QED
      BY <2>1, <3>1
  <2>3. LiveTypeOK' /\ WorkersApart' /\ SentOnce'
    BY <2>1, <2>2 DEF LiveTypeOK, WorkersApart, SentOnce
  <2>4. Finalizing'
    BY <2>1, <2>2 DEF Finalizing, SentOnce
  <2>5. QED
    BY <2>3, <2>4
<1>3. CASE Cut
  <2>1. /\ UNCHANGED <<voice, available, ledger, text, doubled>>
        /\ burst' \in [Bursts -> {"unused", "recorded", "lost"}]
        /\ live' = [v \in Voices |-> Worker]
        /\ phase' = "draining" /\ remaining' = {} /\ batch' = {}
        /\ whispered' = whispered \ (batch \cup UNION {live[v].sent : v \in Voices})
    BY <1>3 DEF Cut
  <2>2. /\ live' \in [Voices -> WorkerStates]
        /\ \A v \in Voices : live'[v].pending = {} /\ live'[v].rest = {} /\ live'[v].sent = {}
    BY <2>1 DEF Worker, WorkerStates
  <2>3. LiveTypeOK' /\ WorkersApart'
    BY <2>1, <2>2 DEF LiveTypeOK, WorkersApart
  <2>4. SentOnce' /\ Finalizing'
    BY <2>1, <2>2 DEF SentOnce, Finalizing
  <2>5. QED
    BY <2>3, <2>4
<1>4. ASSUME NEW bursts \in SUBSET remaining, FinalBatch(bursts)
      PROVE  LiveInv'
  <2>1. /\ UNCHANGED <<burst, voice, live, phase, available, known, missing, ledger, text>>
        /\ phase = "finalizing" /\ batch = {}
        /\ batch' = bursts /\ remaining' = remaining \ bursts
        /\ doubled' = doubled \cup (whispered \cap bursts) /\ whispered' = whispered \cup bursts
    BY <1>4 DEF FinalBatch, recording, ToWhisper
  <2>2. QED
    BY <2>1 DEF LiveTypeOK, WorkersApart, SentOnce, Finalizing
<1>5. CASE FinalBatchDone \/ FinalBatchFails
  <2>1. /\ UNCHANGED <<burst, voice, live, phase, available, remaining, known, doubled>>
        /\ phase = "finalizing" /\ batch' = {}
        /\ \/ /\ ledger' = ledger \cup batch /\ text' = text \cup batch
              /\ UNCHANGED <<whispered, missing>>
           \/ /\ missing' = missing \cup batch /\ whispered' = whispered \ batch
              /\ UNCHANGED <<ledger, text>>
    BY <1>5 DEF FinalBatchDone, FinalBatchFails, recording, Appended
  <2>2. LiveTypeOK' /\ WorkersApart' /\ SentOnce'
    BY <2>1 DEF LiveTypeOK, WorkersApart, SentOnce
  <2>3. Finalizing'
    BY <2>1 DEF Finalizing
  <2>4. QED
    BY <2>2, <2>3
<1>6. QED
  BY <1>1, <1>2, <1>3, <1>4, <1>5

LEMMA LiveStep == LiveInv /\ [LiveNext]_liveVars => LiveInv'
<1> SUFFICES ASSUME LiveInv, [LiveNext]_liveVars PROVE LiveInv'
  OBVIOUS
<1>1. CASE UNCHANGED liveVars
  BY <1>1 DEF liveVars, LiveInv, LiveTypeOK, WorkersApart, SentOnce, Finalizing
<1>2. CASE LiveNext
  BY <1>2, RecordingSteps, WorkerSteps, FinalizeSteps DEF LiveNext
<1>3. QED
  BY <1>1, <1>2

\* The workers keep apart and send a burst once, in every state of a meeting.
THEOREM LiveInvariant == LiveSpec => []LiveInv
BY LiveStarts, LiveStep, PTL DEF LiveSpec

\* No burst goes to whisper twice and what was on disk is in the minutes, for any
\* number of voices, bursts, failures and restarts (beginFinalize, drain).
THEOREM EveryBurstTranscribedOnce == LiveSpec => []TranscribedExactly
<1>1. LiveInv => TranscribedExactly
  BY DEF LiveInv, SentOnce, Finalizing, TranscribedExactly
<1>2. QED
  BY <1>1, LiveInvariant, PTL

-----------------------------------------------------------------------------
(* Where messages go (Routing).                                            *)

Bindings == {Unbound, Configuration} \cup Capabilities \cup {EnvSeed[c] : c \in DOMAIN EnvSeed}

RoutingTypeOK ==
  /\ routes \in [Channels -> Bindings] /\ map \in [Channels -> Bindings]
  /\ wanted \in [Channels -> Bindings] /\ cutRows \in SUBSET Channels
  /\ setting \in [kind : Settings, seed : {Empty, "a"}]
  /\ asked \in [value : Values \cup {Never}, since : BOOLEAN]
  /\ waiting \in Seq(Channels)

\* A setting that can only be replaced is never emptied, and what is seeded is
\* seeded after the start that followed the last order.
SettingSound ==
  /\ SettingKept
  /\ setting.kind \in Replaceable => asked.value # Empty
  /\ startup = "init" => asked.since

RoutingInv == RoutingTypeOK /\ BindingsKept /\ ServedAsBound /\ SettingSound

LEMMA RoutingStarts == RoutingInit => RoutingInv
<1> SUFFICES ASSUME RoutingInit PROVE RoutingInv
  OBVIOUS
<1>1. RoutingTypeOK
  BY DEF RoutingInit, RoutingTypeOK, NoRoutes, Bindings
<1>2. BindingsKept /\ ServedAsBound
  BY DEF RoutingInit, BindingsKept, ServedAsBound, NoRoutes
<1>3. SettingSound
  BY DEF RoutingInit, SettingSound, SettingKept, Values, Empty, Never
<1>4. QED
  BY <1>1, <1>2, <1>3 DEF RoutingInv

-----------------------------------------------------------------------------
(* The start.                                                              *)

\* Steps that leave the bindings alone, but for what the router has forgotten.
LEMMA BindingsLeft ==
  ASSUME RoutingInv, UNCHANGED <<routes, wanted, cutRows, answer>>,
         startup' = "running" => startup = "running" /\ map' = map
  PROVE  BindingsKept' /\ ServedAsBound'
BY DEF RoutingInv, BindingsKept, ServedAsBound

LEMMA StartKeeps == ASSUME RoutingInv, Start PROVE RoutingInv'
<1>1. BindingsKept' /\ ServedAsBound'
  BY BindingsLeft DEF Start, settingsDisk
<1>2. NoRoutes \in [Channels -> Bindings] /\ <<>> \in Seq(Channels)
  BY DEF NoRoutes, Bindings
<1>3. RoutingTypeOK'
  BY <1>2 DEF Start, settingsDisk, RoutingInv, RoutingTypeOK
<1>4. /\ asked' = [asked EXCEPT !.since = TRUE] /\ asked \in [value : Values \cup {Never}, since : BOOLEAN]
      /\ UNCHANGED <<setting, stored>>
  BY DEF Start, settingsDisk, RoutingInv, RoutingTypeOK
<1>5. asked'.since = TRUE /\ asked'.value = asked.value
  BY <1>4
<1>6. SettingSound'
  BY <1>4, <1>5 DEF RoutingInv, SettingSound, SettingKept
<1>7. QED
  BY <1>1, <1>3, <1>6 DEF RoutingInv

\* The seed of a list takes the place of nothing, or of an emptied list.
LEMMA InitKeeps == ASSUME RoutingInv, InitCapability PROVE RoutingInv'
<1>1. /\ UNCHANGED <<routes, wanted, cutRows, answer, setting, map, waiting, asked, startup>>
      /\ startup = "init" /\ stored' \in {stored, Seeded(stored)}
  BY DEF InitCapability, past
<1>2. BindingsKept' /\ ServedAsBound'
  BY <1>1, BindingsLeft
<1>3. RoutingTypeOK'
  BY <1>1 DEF RoutingInv, RoutingTypeOK
<1>4. ASSUME stored' = stored PROVE SettingSound'
  BY <1>1, <1>4 DEF RoutingInv, SettingSound, SettingKept
<1>5. ASSUME stored' # stored PROVE SettingSound'
  <2>1. stored' = setting.seed /\ Unset(stored) /\ asked.since
    BY <1>1, <1>5 DEF Seeded, RoutingInv, SettingSound
  <2>2. setting.kind \in Settings /\ setting.seed \in {Empty, "a"}
    BY DEF RoutingInv, RoutingTypeOK
  <2>3. stored = asked.value
    BY <1>5, <2>1 DEF RoutingInv, SettingSound, SettingKept
  <2>4. asked.value = Never \/ (setting.kind \in Lists /\ asked.value = Empty)
    BY <2>1, <2>2, <2>3
    DEF Unset, RoutingInv, SettingSound, Settings, Lists, Replaceable
  <2>5. SettingKept'
    BY <1>1, <2>1, <2>4 DEF SettingKept
  <2>6. QED
    BY <1>1, <2>5 DEF RoutingInv, SettingSound
<1>6. SettingSound'
  BY <1>4, <1>5
<1>7. QED
  BY <1>2, <1>3, <1>6 DEF RoutingInv

LEMMA BuildKeeps == ASSUME RoutingInv, BuildRouter PROVE RoutingInv'
<1>1. /\ routes' = [routes EXCEPT ![ConfigChannel] = Configuration] /\ map' = routes'
      /\ wanted' = [wanted EXCEPT ![ConfigChannel] = Configuration]
      /\ cutRows' = cutRows \ {ConfigChannel} /\ startup' = "running"
      /\ UNCHANGED <<stored, setting, waiting, answer, asked>>
  BY DEF BuildRouter, WithConsole
<1>2. /\ routes \in [Channels -> Bindings] /\ wanted \in [Channels -> Bindings]
      /\ Configuration \in Bindings
  BY DEF RoutingInv, RoutingTypeOK, Bindings
<1>3. RoutingTypeOK'
  BY <1>1, <1>2 DEF RoutingInv, RoutingTypeOK
<1>4. BindingsKept'
  BY <1>1, <1>2 DEF RoutingInv, BindingsKept
<1>5. ServedAsBound' /\ SettingSound'
  BY <1>1 DEF RoutingInv, ServedAsBound, SettingSound, SettingKept
<1>6. QED
  BY <1>3, <1>4, <1>5 DEF RoutingInv

LEMMA SeedingKeeps == ASSUME RoutingInv, SeedBindings PROVE RoutingInv'
<1>1. /\ routes' = SeedRows /\ wanted' = SeedRows /\ cutRows' = {} /\ startup = "init"
      /\ UNCHANGED <<stored, setting, startup, map, waiting, answer, asked>>
  BY DEF SeedBindings, process
<1>2. SeedRows \in [Channels -> Bindings]
  BY DEF SeedRows, RoutingInv, RoutingTypeOK, Bindings
<1>3. RoutingTypeOK'
  BY <1>1, <1>2 DEF RoutingInv, RoutingTypeOK
<1>4. BindingsKept' /\ ServedAsBound' /\ SettingSound'
  BY <1>1 DEF RoutingInv, BindingsKept, ServedAsBound, SettingSound, SettingKept
<1>5. QED
  BY <1>3, <1>4 DEF RoutingInv

LEMMA StopKeeps == ASSUME RoutingInv, AbortStart \/ Stop PROVE RoutingInv'
<1>1. /\ UNCHANGED <<routes, stored, setting, map, waiting, answer, wanted, asked, cutRows>>
      /\ startup' \in {"aborted", "off"}
  BY DEF AbortStart, Stop, settingsDisk, past
<1>2. BindingsKept' /\ ServedAsBound'
  BY <1>1, BindingsLeft
<1>3. RoutingTypeOK' /\ SettingSound'
  BY <1>1 DEF RoutingInv, RoutingTypeOK, SettingSound, SettingKept
<1>4. QED
  BY <1>2, <1>3 DEF RoutingInv

-----------------------------------------------------------------------------
(* The console and the turns.                                              *)

\* A binding made or taken away goes to row and router at once.
LEMMA BindingKeeps ==
  ASSUME RoutingInv, NEW c \in Channels, NEW k \in Bindings, Order,
         routes' = [routes EXCEPT ![c] = k], map' = [map EXCEPT ![c] = k],
         wanted' = [wanted EXCEPT ![c] = k], cutRows' = cutRows \ {c},
         UNCHANGED <<stored, asked>>
  PROVE  RoutingInv'
<1>1. UNCHANGED <<setting, startup, waiting, answer>>
  BY DEF Order
<1>2. RoutingTypeOK'
  BY <1>1 DEF RoutingInv, RoutingTypeOK
<1>3. BindingsKept'
  BY <1>1 DEF RoutingInv, RoutingTypeOK, BindingsKept
<1>4. ServedAsBound' /\ SettingSound'
  BY <1>1 DEF RoutingInv, ServedAsBound, SettingSound, SettingKept
<1>5. QED
  BY <1>2, <1>3, <1>4 DEF RoutingInv

LEMMA PurgeKeeps ==
  ASSUME RoutingInv, NEW n \in Names, NEW c \in Channels, PurgeChannelData(n, c)
  PROVE  RoutingInv'
<1>1. /\ UNCHANGED <<stored, map, wanted, asked, setting, startup, waiting, answer>>
      /\ routes \in [Channels -> Bindings] /\ cutRows \in SUBSET Channels /\ Unbound \in Bindings
  BY DEF PurgeChannelData, Order, RoutingInv, RoutingTypeOK, Bindings
<1>2. CASE UNCHANGED <<routes, cutRows>>
  BY <1>1, <1>2 DEF RoutingInv, RoutingTypeOK, BindingsKept, ServedAsBound, SettingSound,
                    SettingKept
<1>3. CASE /\ routes' = [routes EXCEPT ![c] = Unbound]
           /\ cutRows' = IF routes[c] # Unbound THEN cutRows \cup {c} ELSE cutRows
  <2>1. RoutingTypeOK'
    BY <1>1, <1>3 DEF RoutingInv, RoutingTypeOK
  <2>2. ASSUME NEW d \in Channels
        PROVE  /\ routes'[d] = (IF d \in cutRows' THEN Unbound ELSE wanted[d])
               /\ startup = "running" => map[d] \in {wanted[d], routes'[d]}
    <3>1. /\ routes[d] = (IF d \in cutRows THEN Unbound ELSE wanted[d])
          /\ startup = "running" => map[d] \in {wanted[d], routes[d]}
      BY DEF RoutingInv, BindingsKept
    <3>2. CASE d = c
      BY <1>1, <1>3, <3>1, <3>2
    <3>3. CASE d # c
      BY <1>1, <1>3, <3>1, <3>3
    <3>4. QED
      BY <3>2, <3>3
  <2>3. BindingsKept'
    BY <1>1, <2>2 DEF BindingsKept
  <2>4. ServedAsBound' /\ SettingSound'
    BY <1>1 DEF RoutingInv, ServedAsBound, SettingSound, SettingKept
  <2>5. QED
    BY <2>1, <2>3, <2>4 DEF RoutingInv
<1>4. QED
  BY <1>2, <1>3 DEF PurgeChannelData

LEMMA SettingKeeps ==
  ASSUME RoutingInv, NEW kind, NEW v \in Values, SetSetting(kind, v),
         kind \in Replaceable => v # Empty
  PROVE  RoutingInv'
<1>1. /\ UNCHANGED <<routes, map, wanted, cutRows, setting, startup, waiting, answer>>
      /\ startup = "running" /\ setting.kind = kind
      /\ stored' = v /\ asked' = [value |-> v, since |-> FALSE]
  BY DEF SetSetting, Order
<1>2. RoutingTypeOK'
  BY <1>1 DEF RoutingInv, RoutingTypeOK
<1>3. BindingsKept' /\ ServedAsBound'
  BY <1>1, BindingsLeft
<1>4. SettingSound'
  BY <1>1 DEF SettingSound, SettingKept
<1>5. QED
  BY <1>2, <1>3, <1>4 DEF RoutingInv

\* The turn is routed by the map, which agrees with what was asked for its channel.
LEMMA TurnKeeps == ASSUME RoutingInv, NEW i \in 1..MaxMessages, TurnBegins(i) PROVE RoutingInv'
<1>1. /\ startup = "running" /\ i \in 1..Len(waiting) /\ waiting \in Seq(Channels)
      /\ UNCHANGED <<routes, stored, setting, startup, registry, map, wanted, asked, cutRows>>
      /\ answer' = [by |-> Server(waiting[i]), bound |-> Meant(waiting[i]), offered |-> registry]
      /\ waiting' = [j \in 1..Len(waiting) - 1 |-> waiting[IF j < i THEN j ELSE j + 1]]
  BY DEF TurnBegins, RoutingInv, RoutingTypeOK, settingsDisk, past
<1> DEFINE c == waiting[i]
           n == Len(waiting) - 1
<1>2. c \in Channels /\ Len(waiting) \in Nat /\ n \in Nat
  BY <1>1
<1>3. \A j \in 1..n : waiting'[j] \in Channels
  <2> SUFFICES ASSUME NEW j \in 1..n PROVE waiting'[j] \in Channels
    OBVIOUS
  <2>1. (IF j < i THEN j ELSE j + 1) \in 1..Len(waiting)
    BY <1>1, <1>2
  <2>2. QED
    BY <1>1, <2>1
<1>4. waiting' \in Seq(Channels)
  <2>1. waiting' \in [1..n -> Channels]
    BY <1>1, <1>3
  <2>2. QED
    BY <1>2, <2>1
<1>5. RoutingTypeOK'
  BY <1>1, <1>4 DEF RoutingInv, RoutingTypeOK
<1>6. map[c] \in Meant(c)
  BY <1>1, <1>2 DEF RoutingInv, BindingsKept, Meant
<1>7. ServedAsBound'
  <2>1. /\ answer'.by = Server(c) /\ answer'.bound = Meant(c) /\ answer'.offered = registry
    BY <1>1
  <2>2. QED
    BY <1>6, <2>1 DEF ServedAsBound, Server
<1>8. BindingsKept' /\ SettingSound'
  BY <1>1 DEF RoutingInv, BindingsKept, SettingSound, SettingKept
<1>9. QED
  BY <1>5, <1>7, <1>8 DEF RoutingInv

LEMMA RoutingStep == RoutingInv /\ [RoutingNext]_routingVars => RoutingInv'
<1> SUFFICES ASSUME RoutingInv, [RoutingNext]_routingVars PROVE RoutingInv'
  OBVIOUS
<1>1. CASE UNCHANGED routingVars
  BY <1>1 DEF routingVars, settingsDisk, process, past, RoutingInv, RoutingTypeOK, BindingsKept,
              ServedAsBound, SettingSound, SettingKept
<1>2. ASSUME NEW c \in Channels, NEW k \in Capabilities, BindChannel(c, k) PROVE RoutingInv'
  BY <1>2, BindingKeeps DEF BindChannel, Rerouted, Bindings
<1>3. ASSUME NEW c \in Channels, UnbindChannel(c) PROVE RoutingInv'
  BY <1>3, BindingKeeps DEF UnbindChannel, Bindings
<1>4. ASSUME NEW c \in Channels, Message(c) PROVE RoutingInv'
  <2>1. /\ UNCHANGED <<routes, stored, setting, startup, map, wanted, asked, cutRows, answer>>
        /\ waiting' = Append(waiting, c)
    BY <1>4 DEF Message, settingsDisk, past
  <2>2. BindingsKept' /\ ServedAsBound'
    BY <2>1, BindingsLeft
  <2>3. RoutingTypeOK' /\ SettingSound'
    BY <2>1 DEF RoutingInv, RoutingTypeOK, SettingSound, SettingKept
  <2>4. QED
    BY <2>2, <2>3 DEF RoutingInv
<1>5. ASSUME NEW v \in Values,
             \/ SetScannerChannels(v) \/ SetIntakeList(v) \/ SetMentions(v)
             \/ SetCalendarChannel(v) \/ SetMinutesChannel(v) \/ SetWorkshopChannels(v)
      PROVE  RoutingInv'
  BY <1>5, SettingKeeps
  DEF SetScannerChannels, SetIntakeList, SetMentions, SetCalendarChannel, SetMinutesChannel,
      SetWorkshopChannels, Replaceable
<1>6. QED
  BY <1>1, <1>2, <1>3, <1>4, <1>5, StartKeeps, InitKeeps, BuildKeeps, SeedingKeeps, StopKeeps,
     PurgeKeeps, TurnKeeps DEF RoutingNext

\* Rows, router, answers and settings agree with what was asked, in every state, for
\* any channels, capabilities and seeds of the environment.
THEOREM RoutingInvariant == RoutingSpec => []RoutingInv
BY RoutingStarts, RoutingStep, PTL DEF RoutingSpec

\* A report without problems: no channel is bound to what did not start.
LEMMA RoutingObeys == RoutingInv => OperatorsObeyed
<1> SUFFICES ASSUME RoutingInv PROVE OperatorsObeyed
  OBVIOUS
<1>1. ReportHonest
  <2> SUFFICES ASSUME startup = "running", Problems = {},
                      NEW c \in Channels \ cutRows, wanted[c] # Unbound
               PROVE  Server(c) = wanted[c]
    BY DEF ReportHonest
  <2>1. map[c] = wanted[c]
    BY DEF RoutingInv, BindingsKept
  <2>2. Orphans = {}
    BY DEF Problems
  <2>3. map[c] \in registry
    BY <2>1, <2>2 DEF Orphans
  <2>4. QED
    BY <2>1, <2>3 DEF Server
<1>2. QED
  BY <1>1 DEF RoutingInv, SettingSound, OperatorsObeyed

\* What operators ask of bindings and settings holds in the table, in the router and
\* for the turns, over failing inits, crashes of the start, purges and restarts
\* (loadBootBindings, buildRouter, the seeds of the stores).
THEOREM OperatorsAreObeyed == RoutingSpec => []OperatorsObeyed
BY RoutingInvariant, RoutingObeys, PTL

-----------------------------------------------------------------------------
(* What the migrations leave (SchemaMigrations).                           *)

(* The statements of a migration, one after the other.                     *)

\* One statement after what the earlier ones left.
Step(s, r) ==
  IF ~ r.ok \/ ~ Accepted(r.d, s) THEN [r EXCEPT !.ok = FALSE]
  ELSE [ok |-> TRUE, d |-> Effect(r.d, s)]
Begun(d) == [ok |-> TRUE, d |-> d]

\* What the fold of Execute computes for every subset of the positions.
PartialRuns(g, d, statements, S) ==
  g = [s \in SUBSET S |-> IF s = {} THEN Begun(d)
                          ELSE Step(statements[Max(s)], g[s \ {Max(s)}])]

LEMMA ExecuteIsRun ==
  ASSUME NEW d, NEW statements
  PROVE  Execute(d, statements) =
           (CHOOSE g : PartialRuns(g, d, statements, DOMAIN statements))[DOMAIN statements]
BY Zenon DEF Execute, FoldLeft, MapThenFoldSet, PartialRuns, Step, Begun

\* Of the sets of positions in C one has no smaller one in C.
SetsOf(C, S) == C \in SUBSET (SUBSET S) /\ C # {}
Smallest(u, C) == u \in C /\ \A v \in C : v \subseteq u => v = u

LEMMA SmallestSet ==
  ASSUME NEW S, IsFiniteSet(S), NEW C, SetsOf(C, S)
  PROVE  \E s : Smallest(s, C)
<1> USE DEF SetsOf, Smallest
<1>1. FiniteSubsetsOf(S) = SUBSET S
  BY FS_FiniteSubsetsOfFinite
<1>2. IsWellFoundedOn(StrictSubsetOrdering(S), SUBSET S)
  BY <1>1, FS_StrictSubsetOrderingWellFounded
<1>3. PICK s \in C : \A u \in C : ~(<<u, s>> \in StrictSubsetOrdering(S))
  BY <1>2, WFMin
<1>4. \A u \in C : u \subseteq s => u = s
  BY <1>3 DEF StrictSubsetOrdering
<1>5. QED
  BY <1>4

LEMMA Positions == ASSUME NEW n \in Nat, NEW S \in SUBSET (1..n) PROVE IsFiniteSet(S)
<1>1. IsFiniteSet(1..n)
  BY FS_Interval
<1>2. QED
  BY <1>1, FS_Subset

LEMMA SmallestPositions ==
  ASSUME NEW n \in Nat, NEW S \in SUBSET (1..n), NEW C, SetsOf(C, S)
  PROVE  \E s : Smallest(s, C)
<1>1. IsFiniteSet(S)
  BY Positions
<1>2. QED
  BY <1>1, SmallestSet

\* The last of some positions.
LEMMA GreatestOf ==
  ASSUME NEW n \in Nat, NEW S \in SUBSET (1..n), S # {}
  PROVE  Max(S) \in S /\ \A y \in S : y <= Max(S)
<1> DEFINE Tops(k) == {y \in S : y >= k}
           C == {T \in SUBSET S : \E k \in S : T = Tops(k)}
<1>1. IsFiniteSet(S)
  BY Positions
<1>2. C \in SUBSET (SUBSET S) /\ C # {}
  <2>1. \A k \in S : Tops(k) \in SUBSET S
    OBVIOUS
  <2>2. QED
    BY <2>1
<1>3. PICK T \in C : \A U \in C : U \subseteq T => U = T
  <2>1. SetsOf(C, S)
    BY <1>2 DEF SetsOf
  <2> HIDE DEF C
  <2>2. \E T : Smallest(T, C)
    BY <2>1, SmallestPositions
  <2>3. QED
    BY <2>2 DEF Smallest
<1>4. PICK k \in S : T = Tops(k)
  OBVIOUS
<1>5. ASSUME NEW y \in S PROVE y <= k
  <2>1. SUFFICES ASSUME ~(y <= k) PROVE FALSE
    OBVIOUS
  <2>2. y \in Nat /\ k \in Nat /\ y > k
    BY <2>1
  <2>3. Tops(y) \in C /\ Tops(y) \subseteq T
    <3>1. Tops(y) \in SUBSET S
      OBVIOUS
    <3>2. \A z \in S : z >= y => z >= k
      BY <2>2
    <3>3. QED
      BY <1>4, <3>1, <3>2
  <2>4. Tops(y) = T
    BY <1>3, <2>3
  <2>5. k \in T /\ k \notin Tops(y)
    BY <1>4, <2>2
  <2>6. QED
    BY <2>4, <2>5
<1>6. QED
  BY <1>5 DEF Max

\* The fold has one value: what it computes for T does not depend on the set it
\* was started with, and for every set of positions there is such a computation.
Part(T, S, n) == S \in SUBSET (1..n) /\ T \in SUBSET S

LEMMA PartialRunsAgree ==
  ASSUME NEW d, NEW statements, NEW n \in Nat, NEW S, NEW T, Part(T, S, n),
         NEW g, PartialRuns(g, d, statements, S), NEW h, PartialRuns(h, d, statements, T)
  PROVE  g[T] = h[T]
<1> USE DEF Part
<1> DEFINE C == {u \in SUBSET S : u \subseteq T /\ g[u] # h[u]}
<1>1. SUFFICES ASSUME g[T] # h[T] PROVE FALSE
  OBVIOUS
<1>2. PICK u \in C : \A v \in C : v \subseteq u => v = u
  <2>1. C \in SUBSET (SUBSET S) /\ T \in C
    BY <1>1
  <2>2. SetsOf(C, S)
    BY <2>1 DEF SetsOf
  <2> HIDE DEF C
  <2>3. \E u : Smallest(u, C)
    BY <2>2, SmallestPositions
  <2>4. QED
    BY <2>3 DEF Smallest
<1>3. u \in SUBSET S /\ u \in SUBSET T /\ g[u] # h[u]
  OBVIOUS
<1> DEFINE m == Max(u)
<1>4. g[u] = IF u = {} THEN Begun(d) ELSE Step(statements[m], g[u \ {m}])
  BY <1>3 DEF PartialRuns
<1>5. h[u] = IF u = {} THEN Begun(d) ELSE Step(statements[m], h[u \ {m}])
  BY <1>3 DEF PartialRuns
<1>6. u # {}
  BY <1>3, <1>4, <1>5
<1>7. m \in u
  BY <1>3, <1>6, GreatestOf
<1> HIDE DEF m
<1>8. g[u \ {m}] = h[u \ {m}]
  <2>1. u \ {m} \notin C
    BY <1>2, <1>7
  <2>2. u \ {m} \in SUBSET S /\ u \ {m} \subseteq T
    BY <1>3
  <2>3. QED
    BY <2>1, <2>2
<1>9. QED
  BY <1>3, <1>4, <1>5, <1>6, <1>8

LEMMA PartialRunsExist ==
  ASSUME NEW d, NEW statements, NEW n \in Nat, NEW S \in SUBSET (1..n)
  PROVE  \E g : PartialRuns(g, d, statements, S)
<1> DEFINE C == {u \in SUBSET S : ~ \E g : PartialRuns(g, d, statements, u)}
<1>1. SUFFICES ASSUME ~ \E g : PartialRuns(g, d, statements, S) PROVE FALSE
  OBVIOUS
<1>2. PICK u \in C : \A v \in C : v \subseteq u => v = u
  <2>1. C \in SUBSET (SUBSET S) /\ S \in C
    BY <1>1
  <2>2. SetsOf(C, S)
    BY <2>1 DEF SetsOf
  <2> HIDE DEF C
  <2>3. \E u : Smallest(u, C)
    BY <2>2, SmallestPositions
  <2>4. QED
    BY <2>3 DEF Smallest
<1>3. u \in SUBSET S /\ u \in SUBSET (1..n) /\ ~ \E g : PartialRuns(g, d, statements, u)
  OBVIOUS
<1> DEFINE last(v) == (CHOOSE g : PartialRuns(g, d, statements, v))[v]
           G == [s \in SUBSET u |-> IF s = {} THEN Begun(d)
                                    ELSE Step(statements[Max(s)], last(s \ {Max(s)}))]
<1>4. ASSUME NEW v \in SUBSET u, v # u
      PROVE  PartialRuns(CHOOSE g : PartialRuns(g, d, statements, v), d, statements, v)
  <2>1. v \notin C /\ v \in SUBSET S
    BY <1>2, <1>3, <1>4
  <2>2. \E g : PartialRuns(g, d, statements, v)
    BY <2>1
  <2>3. QED
    BY <2>2, Zenon
<1>5. ASSUME NEW v \in SUBSET u, v # u PROVE last(v) = G[v]
  <2> DEFINE w == v \ {Max(v)}
             gv == CHOOSE g : PartialRuns(g, d, statements, v)
             gw == CHOOSE g : PartialRuns(g, d, statements, w)
  <2>1. PartialRuns(gv, d, statements, v)
    BY <1>4, <1>5
  <2>2. CASE v = {}
    <3> HIDE DEF gv
    <3>1. gv[v] = Begun(d)
      BY <2>1, <2>2 DEF PartialRuns
    <3>2. G[v] = Begun(d)
      BY <2>2
    <3>3. QED
      BY <3>1, <3>2 DEF gv
  <2>3. CASE v # {}
    <3>1. Max(v) \in v
      BY <1>3, <2>3, GreatestOf
    <3>2. w \in SUBSET u /\ w # u /\ w \subseteq v
      BY <1>5, <3>1
    <3>3. PartialRuns(gw, d, statements, w)
      BY <1>4, <3>2
    <3>4. Part(w, v, n)
      BY <1>3, <3>2 DEF Part
    <3> HIDE DEF gv, gw, w
    <3>5. gv[w] = gw[w]
      BY <2>1, <3>3, <3>4, PartialRunsAgree
    <3>6. gv[v] = Step(statements[Max(v)], gv[w])
      BY <2>1, <2>3 DEF PartialRuns, w
    <3>7. G[v] = Step(statements[Max(v)], gw[w])
      BY <2>3 DEF gw, w
    <3>8. QED
      BY <3>5, <3>6, <3>7 DEF gv
  <2>4. QED
    BY <2>2, <2>3
<1> HIDE DEF last
<1>6. ASSUME NEW s \in SUBSET u, s # {} PROVE last(s \ {Max(s)}) = G[s \ {Max(s)}]
  <2>1. Max(s) \in s
    BY <1>3, <1>6, GreatestOf
  <2>2. s \ {Max(s)} \in SUBSET u /\ s \ {Max(s)} # u
    BY <2>1
  <2>3. QED
    BY <1>5, <2>2
<1>7. G = [s \in SUBSET u |-> IF s = {} THEN Begun(d)
                              ELSE Step(statements[Max(s)], G[s \ {Max(s)}])]
  BY <1>6
<1>8. PartialRuns(G, d, statements, u)
  BY <1>7 DEF PartialRuns
<1>9. QED
  BY <1>3, <1>8

\* Execute runs the statements one after the other.
Listed(statements, n) == n \in Nat /\ DOMAIN statements = 1..n
Run(h, d, statements, n) ==
  /\ h[0] = Begun(d)
  /\ \A k \in 1..n : h[k] = Step(statements[k], h[k - 1])
  /\ Execute(d, statements) = h[n]

LEMMA ExecuteSteps ==
  ASSUME NEW d, NEW statements, NEW n, Listed(statements, n)
  PROVE  \E h : Run(h, d, statements, n)
<1> USE DEF Listed, Run
<1> DEFINE g == CHOOSE f : PartialRuns(f, d, statements, 1..n)
           h == [k \in 0..n |-> g[1..k]]
<1>1. PartialRuns(g, d, statements, 1..n)
  <2>1. 1..n \in SUBSET (1..n)
    OBVIOUS
  <2>2. \E f : PartialRuns(f, d, statements, 1..n)
    BY <2>1, PartialRunsExist
  <2>3. QED
    BY <2>2, Zenon
<1>2. Execute(d, statements) = g[1..n]
  BY ExecuteIsRun
<1> HIDE DEF g
<1>3. h[0] = Begun(d)
  <2>1. 1..0 = {}
    OBVIOUS
  <2>2. g[1..0] = Begun(d)
    BY <1>1, <2>1 DEF PartialRuns
  <2>3. QED
    BY <2>2
<1>4. ASSUME NEW k \in 1..n PROVE h[k] = Step(statements[k], h[k - 1])
  <2>1. 1..k \in SUBSET (1..n) /\ k \in 1..k
    OBVIOUS
  <2>2. Max(1..k) = k
    <3>1. Max(1..k) \in 1..k /\ k <= Max(1..k)
      BY <2>1, GreatestOf
    <3>2. QED
      BY <3>1
  <2>3. (1..k) \ {k} = 1..(k - 1)
    OBVIOUS
  <2>4. g[1..k] = Step(statements[k], g[1..(k - 1)])
    BY <1>1, <2>1, <2>2, <2>3 DEF PartialRuns
  <2>5. QED
    BY <2>4
<1>5. h[n] = g[1..n]
  OBVIOUS
<1> HIDE DEF h
<1>6. QED
  BY <1>2, <1>3, <1>4, <1>5

\* What migrations of up to six statements compute.
LEMMA ExecuteFew ==
  ASSUME NEW d, NEW m
  PROVE  LET r1 == Step(m[1], Begun(d))
             r2 == Step(m[2], r1)
             r3 == Step(m[3], r2)
             r4 == Step(m[4], r3)
             r5 == Step(m[5], r4)
             r6 == Step(m[6], r5)
         IN /\ DOMAIN m = 1..1 => Execute(d, m) = r1
            /\ DOMAIN m = 1..2 => Execute(d, m) = r2
            /\ DOMAIN m = 1..3 => Execute(d, m) = r3
            /\ DOMAIN m = 1..4 => Execute(d, m) = r4
            /\ DOMAIN m = 1..6 => Execute(d, m) = r6
<1> DEFINE r1 == Step(m[1], Begun(d))
           r2 == Step(m[2], r1)
           r3 == Step(m[3], r2)
           r4 == Step(m[4], r3)
           r5 == Step(m[5], r4)
           r6 == Step(m[6], r5)
<1>1. ASSUME NEW n \in 1..6, DOMAIN m = 1..n
      PROVE  \E h : /\ n >= 1 => h[1] = r1
                    /\ n >= 2 => h[2] = r2
                    /\ n >= 3 => h[3] = r3
                    /\ n >= 4 => h[4] = r4
                    /\ n >= 5 => h[5] = r5
                    /\ n >= 6 => h[6] = r6
                    /\ Execute(d, m) = h[n]
  <2>1. PICK h : /\ h[0] = Begun(d)
                 /\ \A k \in 1..n : h[k] = Step(m[k], h[k - 1])
                 /\ Execute(d, m) = h[n]
    <3>1. Listed(m, n)
      BY <1>1 DEF Listed
    <3>2. \E h : Run(h, d, m, n)
      BY <3>1, ExecuteSteps
    <3>3. QED
      BY <3>2 DEF Run
  <2>2. n >= 1 => h[1] = r1
    BY <2>1
  <2>3. n >= 2 => h[2] = r2
    BY <2>1, <2>2
  <2>4. n >= 3 => h[3] = r3
    BY <2>1, <2>3
  <2>5. n >= 4 => h[4] = r4
    BY <2>1, <2>4
  <2>6. n >= 5 => h[5] = r5
    BY <2>1, <2>5
  <2>7. n >= 6 => h[6] = r6
    BY <2>1, <2>6
  <2> HIDE DEF r1, r2, r3, r4, r5, r6
  <2>8. QED
    BY <2>1, <2>2, <2>3, <2>4, <2>5, <2>6, <2>7
<1> HIDE DEF r1, r2, r3, r4, r5, r6
<1>2. DOMAIN m = 1..1 => Execute(d, m) = r1
  BY <1>1
<1>3. DOMAIN m = 1..2 => Execute(d, m) = r2
  BY <1>1
<1>4. DOMAIN m = 1..3 => Execute(d, m) = r3
  BY <1>1
<1>5. DOMAIN m = 1..4 => Execute(d, m) = r4
  BY <1>1
<1>6. DOMAIN m = 1..6 => Execute(d, m) = r6
  BY <1>1
<1>7. QED
  BY <1>2, <1>3, <1>4, <1>5, <1>6 DEF r1, r2, r3, r4, r5, r6

\* A database is tables and rows; a row is of a table and written under a version.
IsDb(d) == d = [tables |-> d.tables, rows |-> d.rows]
Tidy(d) == \A x \in d.rows : x = <<x[1], x[2]>> /\ x[1] \in DOMAIN d.tables
\* The statements so far were accepted.
Fine(r) == r = [ok |-> TRUE, d |-> r.d] /\ IsDb(r.d) /\ Tidy(r.d)

LEMMA SqlParts ==
  ASSUME NEW o, NEW t, NEW u, NEW c, NEW s, s = Sql(o, t, u, c)
  PROVE  s.op = o /\ s.table = t /\ s.to = u /\ s.columns = c
BY DEF Sql

LEMMA StepAccepted ==
  ASSUME NEW r, r.ok = TRUE, NEW s, Accepted(r.d, s)
  PROVE  Step(s, r) = [ok |-> TRUE, d |-> Effect(r.d, s)]
BY DEF Step

LEMMA StatementMeans ==
  ASSUME NEW d, NEW s
  PROVE  /\ s.op = "create" => /\ Accepted(d, s) <=> ~Has(d, s.table)
                               /\ Effect(d, s) = WithTable(d, s.table, s.columns)
         /\ s.op = "once" => /\ Accepted(d, s)
                             /\ ~Has(d, s.table) =>
                                  Effect(d, s) = WithTable(d, s.table, s.columns)
         /\ s.op = "add" =>
              /\ Has(d, s.table) /\ s.columns \cap d.tables[s.table] = {} => Accepted(d, s)
              /\ Effect(d, s) = WithTable(d, s.table, d.tables[s.table] \cup s.columns)
         /\ s.op = "copy" =>
              /\ Has(d, s.table) /\ Has(d, s.to)
                 /\ s.columns \subseteq d.tables[s.table] \cap d.tables[s.to] => Accepted(d, s)
              /\ Effect(d, s) = [d EXCEPT !.rows = @ \cup MovedRows(d, s.table, s.to)]
         /\ s.op = "drop" => Accepted(d, s) /\ Effect(d, s) = WithoutTable(d, s.table)
         /\ s.op = "rename" =>
              /\ Has(d, s.table) /\ ~Has(d, s.to) => Accepted(d, s)
              /\ Effect(d, s) =
                   [WithTable(WithoutTable(d, s.table), s.to, d.tables[s.table])
                      EXCEPT !.rows = @ \cup MovedRows(d, s.table, s.to)]
         /\ s.op = "delete" =>
              /\ Has(d, s.table) => Accepted(d, s)
              /\ Effect(d, s) = [d EXCEPT !.rows = @ \ RowsOf(d, s.table)]
<1>1. CASE s.op = "create"
  BY <1>1 DEF Accepted, Effect
<1>2. CASE s.op = "once"
  BY <1>2 DEF Accepted, Effect
<1>3. CASE s.op = "add"
  BY <1>3 DEF Accepted, Effect
<1>4. CASE s.op = "copy"
  BY <1>4 DEF Accepted, Effect
<1>5. CASE s.op = "drop"
  BY <1>5 DEF Accepted, Effect
<1>6. CASE s.op = "rename"
  BY <1>6 DEF Accepted, Effect
<1>7. CASE s.op = "delete"
  BY <1>7 DEF Accepted, Effect
<1>8. QED
  BY <1>1, <1>2, <1>3, <1>4, <1>5, <1>6, <1>7

\* From r to q: table t got the columns c, the others are as they were.
TableSet(r, q, t, c) ==
  /\ Fine(q) /\ DOMAIN q.d.tables = DOMAIN r.d.tables \cup {t}
  /\ q.d.tables[t] = c
  /\ \A u \in DOMAIN r.d.tables \ {t} : q.d.tables[u] = r.d.tables[u]

LEMMA WithTableMeans ==
  ASSUME NEW d, IsDb(d), NEW t, NEW c
  PROVE  WithTable(d, t, c) =
           [tables |-> [u \in DOMAIN d.tables \cup {t} |-> IF u = t THEN c ELSE d.tables[u]],
            rows |-> d.rows]
BY DEF WithTable, IsDb

LEMMA TableIsSet ==
  ASSUME NEW r, Fine(r), NEW t, NEW c, NEW q, q = [ok |-> TRUE, d |-> WithTable(r.d, t, c)]
  PROVE  TableSet(r, q, t, c) /\ q.d.rows = r.d.rows
<1>1. q.d = [tables |-> [u \in DOMAIN r.d.tables \cup {t} |->
                           IF u = t THEN c ELSE r.d.tables[u]],
             rows |-> r.d.rows]
  BY WithTableMeans DEF Fine
<1>2. q = [ok |-> TRUE, d |-> q.d]
  OBVIOUS
<1>3. QED
  BY <1>1, <1>2 DEF TableSet, Fine, IsDb, Tidy

LEMMA CreateStep ==
  ASSUME NEW r, Fine(r), NEW t, t \notin DOMAIN r.d.tables, NEW c, NEW s, NEW q,
         s = CreateTable(t, c) \/ s = CreateOnce(t, c), q = Step(s, r)
  PROVE  TableSet(r, q, t, c) /\ q.d.rows = r.d.rows
<1>1. s.op \in {"create", "once"} /\ s.table = t /\ s.columns = c
  BY SqlParts DEF CreateTable, CreateOnce
<1>2. ~Has(r.d, s.table)
  BY <1>1 DEF Has
<1>3. Accepted(r.d, s) /\ Effect(r.d, s) = WithTable(r.d, t, c)
  BY <1>1, <1>2, StatementMeans
<1>4. r.ok = TRUE
  BY DEF Fine
<1>5. q = [ok |-> TRUE, d |-> WithTable(r.d, t, c)]
  BY <1>3, <1>4, StepAccepted
<1>6. QED
  BY <1>5, TableIsSet

\* ALTER TABLE ADD COLUMN can run, and has run.
CanAdd(r, t, c) == Fine(r) /\ t \in DOMAIN r.d.tables /\ c \cap r.d.tables[t] = {}
Added(r, q, t, c) == TableSet(r, q, t, r.d.tables[t] \cup c) /\ q.d.rows = r.d.rows

LEMMA AddStep ==
  ASSUME NEW r, NEW t, NEW c, CanAdd(r, t, c), NEW q, q = Step(AddColumns(t, c), r)
  PROVE  Added(r, q, t, c)
<1>0. Fine(r) /\ t \in DOMAIN r.d.tables /\ c \cap r.d.tables[t] = {}
  BY DEF CanAdd
<1> DEFINE s == AddColumns(t, c)
<1>1. s.op = "add" /\ s.table = t /\ s.columns = c
  BY SqlParts DEF AddColumns
<1> HIDE DEF s
<1>2. Has(r.d, s.table)
  BY <1>0, <1>1 DEF Has
<1>3. Accepted(r.d, s) /\ Effect(r.d, s) = WithTable(r.d, t, r.d.tables[t] \cup c)
  BY <1>0, <1>1, <1>2, StatementMeans
<1>4. r.ok = TRUE
  BY <1>0 DEF Fine
<1>5. q = [ok |-> TRUE, d |-> WithTable(r.d, t, r.d.tables[t] \cup c)]
  BY <1>3, <1>4, StepAccepted DEF s
<1>6. QED
  BY <1>0, <1>5, TableIsSet DEF Added

\* The rows of other tables stay.
LEMMA DropStep ==
  ASSUME NEW r, Fine(r), NEW t, NEW q, q = Step(DropTable(t), r)
  PROVE  /\ Fine(q) /\ DOMAIN q.d.tables = DOMAIN r.d.tables \ {t}
         /\ \A u \in DOMAIN r.d.tables \ {t} : q.d.tables[u] = r.d.tables[u]
         /\ q.d.rows = {x \in r.d.rows : x[1] # t}
<1> DEFINE s == DropTable(t)
<1>1. s.op = "drop" /\ s.table = t
  BY SqlParts DEF DropTable
<1> HIDE DEF s
<1>2. Accepted(r.d, s) /\ Effect(r.d, s) = WithoutTable(r.d, t)
  BY <1>1, StatementMeans
<1>3. r.ok = TRUE
  BY DEF Fine
<1>4. q = [ok |-> TRUE, d |-> WithoutTable(r.d, t)]
  BY <1>2, <1>3, StepAccepted DEF s
<1>5. q = [ok |-> TRUE, d |-> q.d]
      /\ q.d = [tables |-> [u \in DOMAIN r.d.tables \ {t} |-> r.d.tables[u]],
                rows |-> {x \in r.d.rows : x[1] # t}]
  BY <1>4 DEF WithoutTable
<1>6. QED
  BY <1>5 DEF Fine, IsDb, Tidy

LEMMA DeleteStep ==
  ASSUME NEW r, Fine(r), NEW t, t \in DOMAIN r.d.tables, NEW q, q = Step(DeleteRows(t), r)
  PROVE  /\ Fine(q) /\ q.d.tables = r.d.tables
         /\ q.d.rows = {x \in r.d.rows : x[1] # t}
<1> DEFINE s == DeleteRows(t)
<1>1. s.op = "delete" /\ s.table = t
  BY SqlParts DEF DeleteRows
<1> HIDE DEF s
<1>2. Has(r.d, t)
  BY DEF Has
<1>3. Accepted(r.d, s) /\ Effect(r.d, s) = [r.d EXCEPT !.rows = @ \ RowsOf(r.d, t)]
  BY <1>1, <1>2, StatementMeans
<1>4. r.ok = TRUE
  BY DEF Fine
<1>5. q = [ok |-> TRUE, d |-> [r.d EXCEPT !.rows = @ \ RowsOf(r.d, t)]]
  <2>1. q = Step(s, r)
    BY DEF s
  <2>2. Step(s, r) = [ok |-> TRUE, d |-> Effect(r.d, s)]
    BY <1>3, <1>4, StepAccepted
  <2>3. QED
    BY <1>3, <2>1, <2>2
<1>6. [r.d EXCEPT !.rows = @ \ RowsOf(r.d, t)] =
        [tables |-> r.d.tables, rows |-> r.d.rows \ RowsOf(r.d, t)]
  BY DEF Fine, IsDb
<1>7. r.d.rows \ RowsOf(r.d, t) = {x \in r.d.rows : x[1] # t}
  BY DEF RowsOf
<1>8. QED
  BY <1>5, <1>6, <1>7 DEF Fine, IsDb, Tidy

\* A rebuilt table keeps its rows.
LEMMA CopyStep ==
  ASSUME NEW r, Fine(r), NEW t \in DOMAIN r.d.tables, NEW new \in DOMAIN r.d.tables,
         NEW c, c \subseteq r.d.tables[t] \cap r.d.tables[new],
         NEW q, q = Step(CopyRows(t, new, c), r)
  PROVE  /\ Fine(q) /\ q.d.tables = r.d.tables
         /\ q.d.rows = r.d.rows \cup MovedRows(r.d, t, new)
<1> DEFINE s == CopyRows(t, new, c)
<1>1. s.op = "copy" /\ s.table = t /\ s.to = new /\ s.columns = c
  BY SqlParts DEF CopyRows
<1> HIDE DEF s
<1>2. Has(r.d, t) /\ Has(r.d, new)
  BY DEF Has
<1>3. /\ Accepted(r.d, s)
      /\ Effect(r.d, s) = [r.d EXCEPT !.rows = @ \cup MovedRows(r.d, t, new)]
  BY <1>1, <1>2, StatementMeans
<1>4. r.ok = TRUE
  BY DEF Fine
<1>5. q = [ok |-> TRUE, d |-> [r.d EXCEPT !.rows = @ \cup MovedRows(r.d, t, new)]]
  <2>1. q = Step(s, r)
    BY DEF s
  <2>2. Step(s, r) = [ok |-> TRUE, d |-> Effect(r.d, s)]
    BY <1>3, <1>4, StepAccepted
  <2>3. QED
    BY <1>3, <2>1, <2>2
<1>6. [r.d EXCEPT !.rows = @ \cup MovedRows(r.d, t, new)] =
        [tables |-> r.d.tables, rows |-> r.d.rows \cup MovedRows(r.d, t, new)]
  BY DEF Fine, IsDb
<1>7. \A x \in MovedRows(r.d, t, new) : x = <<x[1], x[2]>> /\ x[1] = new
  BY DEF MovedRows
<1>8. /\ q = [ok |-> TRUE, d |-> q.d] /\ q.d.tables = r.d.tables
      /\ q.d.rows = r.d.rows \cup MovedRows(r.d, t, new) /\ IsDb(q.d)
  BY <1>5, <1>6 DEF IsDb
<1>9. Tidy(q.d)
  <2>1. \A x \in r.d.rows : x = <<x[1], x[2]>> /\ x[1] \in DOMAIN r.d.tables
    BY DEF Fine, Tidy
  <2>2. QED
    BY <1>7, <1>8, <2>1 DEF Tidy
<1>10. QED
  BY <1>8, <1>9 DEF Fine

LEMMA RenameStep ==
  ASSUME NEW r, Fine(r), NEW new \in DOMAIN r.d.tables, NEW t, t \notin DOMAIN r.d.tables,
         NEW q, q = Step(Rename(new, t), r)
  PROVE  /\ Fine(q) /\ DOMAIN q.d.tables = (DOMAIN r.d.tables \ {new}) \cup {t}
         /\ q.d.tables[t] = r.d.tables[new]
         /\ \A u \in DOMAIN r.d.tables \ {new} : q.d.tables[u] = r.d.tables[u]
         /\ q.d.rows = {x \in r.d.rows : x[1] # new} \cup MovedRows(r.d, new, t)
<1> DEFINE s == Rename(new, t)
           c == r.d.tables[new]
           less == WithoutTable(r.d, new)
           moved == WithTable(less, t, c)
<1>1. s.op = "rename" /\ s.table = new /\ s.to = t
  BY SqlParts DEF Rename
<1> HIDE DEF s, c, less, moved
<1>2. Has(r.d, new) /\ ~Has(r.d, t)
  BY DEF Has
<1>3. /\ Accepted(r.d, s)
      /\ Effect(r.d, s) = [moved EXCEPT !.rows = @ \cup MovedRows(r.d, new, t)]
  BY <1>1, <1>2, StatementMeans DEF moved, less, c
<1>4. r.ok = TRUE
  BY DEF Fine
<1>5. q = [ok |-> TRUE, d |-> [moved EXCEPT !.rows = @ \cup MovedRows(r.d, new, t)]]
  <2>1. q = Step(s, r)
    BY DEF s
  <2>2. Step(s, r) = [ok |-> TRUE, d |-> Effect(r.d, s)]
    BY <1>3, <1>4, StepAccepted
  <2>3. QED
    BY <1>3, <2>1, <2>2
<1>6. less = [tables |-> [u \in DOMAIN r.d.tables \ {new} |-> r.d.tables[u]],
              rows |-> {x \in r.d.rows : x[1] # new}]
  BY DEF less, WithoutTable
<1>7. /\ IsDb(less) /\ DOMAIN less.tables = DOMAIN r.d.tables \ {new}
      /\ \A u \in DOMAIN r.d.tables \ {new} : less.tables[u] = r.d.tables[u]
      /\ less.rows = {x \in r.d.rows : x[1] # new}
  BY <1>6 DEF IsDb
<1>8. moved = [tables |-> [u \in DOMAIN less.tables \cup {t} |->
                             IF u = t THEN c ELSE less.tables[u]],
               rows |-> less.rows]
  <2>1. IsDb(less)
    BY <1>7
  <2>2. WithTable(less, t, c) = [tables |-> [u \in DOMAIN less.tables \cup {t} |->
                                               IF u = t THEN c ELSE less.tables[u]],
                                 rows |-> less.rows]
    BY <2>1 DEF WithTable, IsDb
  <2>3. QED
    BY <2>2 DEF moved
<1>9. [moved EXCEPT !.rows = @ \cup MovedRows(r.d, new, t)] =
        [tables |-> moved.tables, rows |-> less.rows \cup MovedRows(r.d, new, t)]
  BY <1>8
<1>10. /\ q.d.rows = {x \in r.d.rows : x[1] # new} \cup MovedRows(r.d, new, t)
       /\ q.d.tables = moved.tables /\ q = [ok |-> TRUE, d |-> q.d] /\ IsDb(q.d)
  <2>1. q.d = [tables |-> moved.tables, rows |-> less.rows \cup MovedRows(r.d, new, t)]
        /\ q = [ok |-> TRUE, d |-> q.d]
    BY <1>5, <1>9
  <2>2. q.d.tables = moved.tables /\ q.d.rows = less.rows \cup MovedRows(r.d, new, t)
    BY <2>1
  <2>3. QED
    BY <1>7, <2>1, <2>2 DEF IsDb
<1>11. /\ DOMAIN moved.tables = (DOMAIN r.d.tables \ {new}) \cup {t}
       /\ moved.tables[t] = c
       /\ \A u \in DOMAIN r.d.tables \ {new} : moved.tables[u] = r.d.tables[u]
  BY <1>7, <1>8
<1>12. \A x \in MovedRows(r.d, new, t) : x = <<x[1], x[2]>> /\ x[1] = t
  BY DEF MovedRows
<1>13. Tidy(q.d)
  BY <1>10, <1>11, <1>12 DEF Tidy, Fine
<1>14. QED
  BY <1>10, <1>11, <1>13 DEF Fine, c

LEMMA RebuildSteps ==
  ASSUME NEW r, Fine(r), NEW t \in DOMAIN r.d.tables,
         NEW new, new \notin DOMAIN r.d.tables, NEW c,
         NEW copied, copied \subseteq r.d.tables[t] \cap c,
         NEW r1, r1 = Step(CreateTable(new, c), r),
         NEW r2, r2 = Step(CopyRows(t, new, copied), r1),
         NEW r3, r3 = Step(DropTable(t), r2),
         NEW r4, r4 = Step(Rename(new, t), r3)
  PROVE  TableSet(r, r4, t, c) /\ r.d.rows \subseteq r4.d.rows
<1>1. TableSet(r, r1, new, c) /\ r1.d.rows = r.d.rows
  BY CreateStep
<1>2. t # new
  OBVIOUS
<1>3. /\ Fine(r2) /\ r2.d.tables = r1.d.tables
      /\ r2.d.rows = r1.d.rows \cup MovedRows(r1.d, t, new)
  <2>1. t \in DOMAIN r1.d.tables /\ new \in DOMAIN r1.d.tables
    BY <1>1 DEF TableSet
  <2>2. copied \subseteq r1.d.tables[t] \cap r1.d.tables[new]
    BY <1>1, <1>2 DEF TableSet
  <2>3. Fine(r1)
    BY <1>1 DEF TableSet
  <2>4. QED
    BY <2>1, <2>2, <2>3, CopyStep
<1>4. /\ Fine(r3) /\ DOMAIN r3.d.tables = DOMAIN r2.d.tables \ {t}
      /\ \A u \in DOMAIN r2.d.tables \ {t} : r3.d.tables[u] = r2.d.tables[u]
      /\ r3.d.rows = {x \in r2.d.rows : x[1] # t}
  BY <1>3, DropStep
<1>5. new \in DOMAIN r3.d.tables /\ t \notin DOMAIN r3.d.tables /\ r3.d.tables[new] = c
  BY <1>1, <1>2, <1>3, <1>4 DEF TableSet
<1>6. /\ Fine(r4) /\ DOMAIN r4.d.tables = (DOMAIN r3.d.tables \ {new}) \cup {t}
      /\ r4.d.tables[t] = r3.d.tables[new]
      /\ \A u \in DOMAIN r3.d.tables \ {new} : r4.d.tables[u] = r3.d.tables[u]
      /\ r4.d.rows = {x \in r3.d.rows : x[1] # new} \cup MovedRows(r3.d, new, t)
  BY <1>4, <1>5, RenameStep
<1>7. DOMAIN r4.d.tables = DOMAIN r.d.tables \cup {t}
  BY <1>1, <1>2, <1>3, <1>4, <1>6 DEF TableSet
<1>8. \A u \in DOMAIN r.d.tables \ {t} : r4.d.tables[u] = r.d.tables[u]
  BY <1>1, <1>2, <1>3, <1>4, <1>6 DEF TableSet
<1>9. ASSUME NEW x \in r.d.rows PROVE x \in r4.d.rows
  <2>1. x = <<x[1], x[2]>> /\ x[1] # new /\ x \in r1.d.rows
    BY <1>1 DEF Fine, Tidy
  <2>2. CASE x[1] = t
    <3>1. <<new, x[2]>> \in MovedRows(r1.d, t, new)
      BY <2>1, <2>2 DEF MovedRows, RowsOf
    <3>2. <<new, x[2]>> \in r3.d.rows
      BY <1>2, <1>3, <1>4, <3>1
    <3>3. <<t, x[2]>> \in MovedRows(r3.d, new, t)
      BY <3>2 DEF MovedRows, RowsOf
    <3>4. QED
      BY <1>6, <2>1, <2>2, <3>3
  <2>3. CASE x[1] # t
    BY <1>3, <1>4, <1>6, <2>1, <2>3
  <2>4. QED
    BY <2>2, <2>3
<1>10. QED
  BY <1>5, <1>6, <1>7, <1>8, <1>9 DEF TableSet

-----------------------------------------------------------------------------
(* The tables after each migration.                                        *)

\* What is there from version k on, and what was there only before it.
Since(n, k, c) == IF n >= k THEN c ELSE {}
Before(n, k, c) == IF n < k THEN c ELSE {}

CalEvents(n) ==
  EventFields \cup {"id"} \cup Before(n, 4, {"channel_id"})
  \cup Since(n, 2, {"recurrence_freq", "recurrence_until"})
  \cup Before(n, 5, Since(n, 3, {"discord_user_id"}))
  \cup Since(n, 7, {"discord_event_id"})
  \cup Since(n, 8, {"flyer_channel_id", "flyer_image_message_id"})
  \cup Since(n, 11, {"recurrence_interval", "recurrence_byday", "recurrence_monthly"})
CalSettings(n) ==
  {"output_channel_id"} \cup Since(n, 7, {"announce_channel_id", "announce_mentions_json"})
CalDrafts(n) ==
  Drafts(Before(n, 10, {"channel_ids_json"})
         \cup Since(n, 10, {"targets_json", "thread_title"}))
  \cup Since(n, 13, {"repost"})
CalNames(n) ==
  Since(n, 1, {"calendar_events"}) \cup Since(n, 5, {"calendar_published", "calendar_settings"})
  \cup Since(n, 6, {"calendar_event_overrides"}) \cup Since(n, 7, {"calendar_announcements"})
  \cup Since(n, 9, {"calendar_announcement_drafts"})
  \cup Since(n, 12, {"calendar_broadcast_deliveries"})
CalTables(n, T) ==
  /\ DOMAIN T = CalNames(n)
  /\ n >= 1 => T["calendar_events"] = CalEvents(n)
  /\ n >= 5 => T["calendar_settings"] = CalSettings(n)
  /\ n >= 9 => T["calendar_announcement_drafts"] = CalDrafts(n)
\* The tables whose rows the migration to version n is meant to drop.
CalLost(n) ==
  CASE n = 3 -> {"calendar_events"}
    [] n = 10 -> {"calendar_announcement_drafts"}
    [] OTHER -> {}

InstaAccounts(n) ==
  AccountFields \cup {"id"} \cup Before(n, 2, {"channel_id"})
  \cup Since(n, 3, {"last_post_at"}) \cup Since(n, 4, {"consecutive_auth_failures"})
  \cup Since(n, 6, {"poll_interval_ms", "posts_per_day", "cadence_updated_at"})
  \cup Since(n, 8, {"consecutive_hard_failures"})
  \cup Since(n, 9, {"ig_pk", "prefer_username_feed", "prefer_username_feed_at"})
InstaRuntime(n) ==
  {"global_stop", "stop_reason", "stopped_at", "recent_auth_json", "recent_429_json",
   "auth_cooldown_until", "rate_cooldown_until", "budget_pause_until", "requests_24h",
   "heartbeat_at"}
  \cup Since(n, 7, {"poll_stretch", "last_digest_at"})
  \cup Since(n, 10, {"poll_alloc_scale", "request_window_json"})
  \cup Since(n, 11, {"fetch_health_json"})
InstaNames(n) ==
  Since(n, 1, {"instagram_monitor_accounts", "instagram_monitor_seen_posts"})
  \cup Since(n, 5, {"instagram_monitor_runtime"})
InstaTables(n, T) ==
  /\ DOMAIN T = InstaNames(n)
  /\ n >= 1 => T["instagram_monitor_accounts"] = InstaAccounts(n)
  /\ n >= 5 => T["instagram_monitor_runtime"] = InstaRuntime(n)

ScannerSettings(n) == {"watched_channels_json"} \cup Since(n, 2, {"media_channels_json"})
ScannerTables(n, T) ==
  /\ DOMAIN T = Since(n, 1, {"file_scanner_settings", "file_scanner_runtime",
                             "file_scanner_scans"})
  /\ n >= 1 => T["file_scanner_settings"] = ScannerSettings(n)

IntakeSettings(n) ==
  {"watched_categories_json", "mod_roles_json"}
  \cup Since(n, 2, {"agitprop_channel_id", "agitprop_roles_json"})
  \cup Since(n, 3, {"moderation_roles_json"})
IntakeTickets(n) ==
  {"channel_id", "guild_id", "requester_id", "parsed_form_json", "resolved_start_at",
   "status", "proposal_message_id", "created_event_id", "created_at", "updated_at"}
  \cup Since(n, 2, {"flyer_status", "flyer_request_message_id", "flyer_image_channel_id",
                    "flyer_image_message_id", "flyer_notes"})
IntakeTables(n, T) ==
  /\ DOMAIN T = Since(n, 1, {"event_intake_settings", "event_intake_tickets"})
  /\ n >= 1 => /\ T["event_intake_settings"] = IntakeSettings(n)
               /\ T["event_intake_tickets"] = IntakeTickets(n)

WorkSessions(n) ==
  {"channel_id", "guild_id", "user_id", "user_tag", "status", "created_at",
   "last_activity_at", "context_cleared_at", "panel_message_id", "closed_at"}
  \cup Since(n, 2, {"summary", "summary_covers_until"})
WorkFiles(n) ==
  {"channel_id", "rel_path", "message_id", "bytes", "updated_at"}
  \cup Since(n, 3, {"storage_key"})
WorkTables(n, T) ==
  /\ DOMAIN T = Since(n, 1, {"workshop_settings", "workshop_sessions"})
                \cup Since(n, 2, {"workshop_files"})
  /\ n >= 1 => T["workshop_sessions"] = WorkSessions(n)
  /\ n >= 2 => T["workshop_files"] = WorkFiles(n)

VoiceSessions(n) ==
  {"id", "guild_id", "channel_id", "channel_name", "title", "started_by", "started_by_tag",
   "started_at", "ended_at", "status", "end_reason", "minio_prefix", "summary_message_id",
   "participants_json", "stats_json", "error"}
  \cup Since(n, 2, {"transcribe_after"})
  \cup Since(n, 3, {"output_channel_id", "agenda", "max_duration_minutes"})
VoiceTables(n, T) ==
  /\ DOMAIN T = Since(n, 1, {"minutas_settings", "minutas_sessions"})
  /\ n >= 1 => T["minutas_sessions"] = VoiceSessions(n)

FrameTables(n, T) ==
  DOMAIN T = Since(n, 1, {"users"})
             \cup Since(n, 2, {"framework_moderation_settings", "framework_moderation_trail"})
ConfTables(n, T) == DOMAIN T = Since(n, 1, {"configuration_bindings"})

Good(d) == IsDb(d) /\ Tidy(d)
\* The statements were accepted, and no row is lost but those of the tables in lost.
Migrated(q, d, lost) ==
  Fine(q) /\ \A x \in d.rows : x[1] \notin lost => x \in q.d.rows

LEMMA BegunFine == ASSUME NEW d, Good(d) PROVE Fine(Begun(d)) /\ Begun(d).d = d
BY DEF Good, Fine, Begun

LEMMA CalScript ==
  LET m == Migrations["calendar"] IN
  /\ DOMAIN m = 1..13
  /\ DOMAIN m[1] = 1..1
  /\ m[1][1] = CreateOnce("calendar_events", CalEvents(1))
  /\ DOMAIN m[2] = 1..1
  /\ m[2][1] = AddColumns("calendar_events", {"recurrence_freq", "recurrence_until"})
  /\ DOMAIN m[3] = 1..2
  /\ m[3][1] = DeleteRows("calendar_events")
  /\ m[3][2] = AddColumns("calendar_events", {"discord_user_id"})
  /\ DOMAIN m[4] = 1..4
  /\ m[4][1] = CreateTable("calendar_events_new", CalEvents(4))
  /\ m[4][2] = CopyRows("calendar_events", "calendar_events_new", CalEvents(4))
  /\ m[4][3] = DropTable("calendar_events")
  /\ m[4][4] = Rename("calendar_events_new", "calendar_events")
  /\ DOMAIN m[5] = 1..6
  /\ m[5][1] = CreateTable("calendar_events_global", CalEvents(5))
  /\ m[5][2] = CopyRows("calendar_events", "calendar_events_global", CalEvents(5))
  /\ m[5][3] = DropTable("calendar_events")
  /\ m[5][4] = Rename("calendar_events_global", "calendar_events")
  /\ m[5][5] = CreateOnce("calendar_published", {"pub_key", "channel_id", "message_id"})
  /\ m[5][6] = CreateOnce("calendar_settings", CalSettings(5))
  /\ DOMAIN m[6] = 1..1
  /\ m[6][1] = CreateOnce("calendar_event_overrides", {"master_id", "occurrence_start_at"})
  /\ DOMAIN m[7] = 1..4
  /\ m[7][1] = AddColumns("calendar_events", {"discord_event_id"})
  /\ m[7][2] = CreateOnce("calendar_announcements", {"announce_key", "channel_id"})
  /\ m[7][3] = AddColumns("calendar_settings", {"announce_channel_id"})
  /\ m[7][4] = AddColumns("calendar_settings", {"announce_mentions_json"})
  /\ DOMAIN m[8] = 1..2
  /\ m[8][1] = AddColumns("calendar_events", {"flyer_channel_id"})
  /\ m[8][2] = AddColumns("calendar_events", {"flyer_image_message_id"})
  /\ DOMAIN m[9] = 1..1
  /\ m[9][1] = CreateOnce("calendar_announcement_drafts", CalDrafts(9))
  /\ DOMAIN m[10] = 1..2
  /\ m[10][1] = DropTable("calendar_announcement_drafts")
  /\ m[10][2] = CreateTable("calendar_announcement_drafts", CalDrafts(10))
  /\ DOMAIN m[11] = 1..1
  /\ m[11][1] = AddColumns("calendar_events",
      {"recurrence_interval", "recurrence_byday", "recurrence_monthly"})
  /\ DOMAIN m[12] = 1..1
  /\ m[12][1] = CreateTable("calendar_broadcast_deliveries",
      {"event_id", "occurrence_start_at", "channel_id"})
  /\ DOMAIN m[13] = 1..1
  /\ m[13][1] = AddColumns("calendar_announcement_drafts", {"repost"})
<1> DEFINE first == CalendarMigrations1
           later == CalendarMigrations2
           m == Migrations["calendar"]
<1>1. /\ CalEvents(1) = EventFields \cup {"id", "channel_id"}
      /\ CalEvents(4) = EventFields \cup {"id", "discord_user_id", "recurrence_freq",
                                          "recurrence_until"}
      /\ CalEvents(5) = CalEvents(4) \ {"discord_user_id"}
  BY DEF CalEvents, EventFields, Since, Before
<1>2. CalSettings(5) = {"output_channel_id"}
  BY DEF CalSettings, Since
<1>3. /\ CalDrafts(9) = Drafts({"channel_ids_json"})
      /\ CalDrafts(10) = Drafts({"targets_json", "thread_title"})
  BY DEF CalDrafts, Drafts, Since, Before
<1>4. first[1] = <<CreateOnce("calendar_events", CalEvents(1))>>
  BY <1>1 DEF CalendarMigrations1
<1>5. first[2] = <<AddColumns("calendar_events", {"recurrence_freq", "recurrence_until"})>>
  BY DEF CalendarMigrations1
<1>6. first[3] = <<DeleteRows("calendar_events"),
                   AddColumns("calendar_events", {"discord_user_id"})>>
  BY DEF CalendarMigrations1
<1>7. first[4] = Rebuild("calendar_events", "calendar_events_new", CalEvents(4), CalEvents(4))
  BY <1>1 DEF CalendarMigrations1
<1>8. first[5] =
        Rebuild("calendar_events", "calendar_events_global", CalEvents(5), CalEvents(5))
        \o <<CreateOnce("calendar_published", {"pub_key", "channel_id", "message_id"}),
             CreateOnce("calendar_settings", CalSettings(5))>>
  BY <1>1, <1>2 DEF CalendarMigrations1
<1>9. /\ later[4] = <<CreateOnce("calendar_announcement_drafts", CalDrafts(9))>>
       /\ later[5] = <<DropTable("calendar_announcement_drafts"),
                        CreateTable("calendar_announcement_drafts", CalDrafts(10))>>
  BY <1>3 DEF CalendarMigrations2
<1>10. /\ DOMAIN m = 1..13
       /\ m[1] = first[1] /\ m[2] = first[2] /\ m[3] = first[3] /\ m[4] = first[4]
       /\ m[5] = first[5] /\ m[6] = later[1] /\ m[7] = later[2] /\ m[8] = later[3]
       /\ m[9] = later[4] /\ m[10] = later[5] /\ m[11] = later[6] /\ m[12] = later[7]
       /\ m[13] = later[8]
  BY DEF Migrations, CalendarMigrations1, CalendarMigrations2
<1> HIDE DEF first, m
<1>11. QED
  BY <1>4, <1>5, <1>6, <1>7, <1>8, <1>9, <1>10 DEF m, later, CalendarMigrations2, Rebuild

LEMMA CalMigrates ==
  ASSUME NEW d, Good(d), NEW n \in 1..13, CalTables(n - 1, d.tables),
         NEW q, q = Execute(d, Migrations["calendar"][n])
  PROVE  Migrated(q, d, CalLost(n)) /\ CalTables(n, q.d.tables)
<1> DEFINE m == Migrations["calendar"][n]
           r0 == Begun(d)
           r1 == Step(m[1], r0)
           r2 == Step(m[2], r1)
           r3 == Step(m[3], r2)
           r4 == Step(m[4], r3)
           r5 == Step(m[5], r4)
           r6 == Step(m[6], r5)
<1>1. Fine(r0) /\ r0.d = d
  BY BegunFine
<1>2. DOMAIN m = 1..1 => q = r1
  BY ExecuteFew
<1>3. DOMAIN m = 1..2 => q = r2
  BY ExecuteFew
<1>4. DOMAIN m = 1..4 => q = r4
  BY ExecuteFew
<1>5. DOMAIN m = 1..6 => q = r6
  BY ExecuteFew
<1> HIDE DEF m, r0
<1>6. CASE n = 1
  <2>1. /\ q = r1
        /\ m[1] = CreateOnce("calendar_events", CalEvents(1))
    BY <1>2, <1>6, CalScript DEF m
  <2> HIDE DEF r1, r2, r3, r4, r5, r6
  <2>2. TableSet(r0, r1, "calendar_events", CalEvents(1)) /\ r1.d.rows = r0.d.rows
    <3>1. "calendar_events" \notin DOMAIN r0.d.tables /\ Fine(r0)
      BY <1>1, <1>6 DEF CalTables, CalNames, Since, TableSet
    <3>2. QED
      BY <2>1, <3>1, CreateStep DEF r1
  <2>3. QED
    BY <2>1, <1>1, <1>6, <2>2 DEF CalTables, CalNames, Since, TableSet, Migrated, CalLost
<1>7. CASE n = 2
  <2> DEFINE c1 == {"recurrence_freq", "recurrence_until"}
  <2>1. /\ q = r1
        /\ m[1] = AddColumns("calendar_events", c1)
    BY <1>2, <1>7, CalScript DEF m
  <2> HIDE DEF r1, r2, r3, r4, r5, r6, c1
  <2>2. TableSet(r0, r1, "calendar_events", CalEvents(2)) /\ r1.d.rows = r0.d.rows
    <3>1. c1 \cap CalEvents(1) = {} /\ CalEvents(1) \cup c1 = CalEvents(2)
      BY DEF CalEvents, EventFields, Since, Before, c1
    <3>2. /\ r0.d.tables["calendar_events"] = CalEvents(1)
          /\ "calendar_events" \in DOMAIN r0.d.tables /\ Fine(r0)
      BY <1>1, <1>7 DEF CalTables, CalNames, Since, TableSet
    <3>3. CanAdd(r0, "calendar_events", c1)
      BY <3>1, <3>2 DEF CanAdd
    <3>4. r1 = Step(AddColumns("calendar_events", c1), r0)
      BY <2>1 DEF r1
    <3>5. Added(r0, r1, "calendar_events", c1)
      BY <3>3, <3>4, AddStep
    <3>6. QED
      BY <3>1, <3>2, <3>5 DEF Added
  <2>3. QED
    BY <2>1, <1>1, <1>7, <2>2 DEF CalTables, CalNames, Since, TableSet, Migrated, CalLost
<1>8. CASE n = 3
  <2> DEFINE c2 == {"discord_user_id"}
  <2>1. /\ q = r2
        /\ m[1] = DeleteRows("calendar_events")
        /\ m[2] = AddColumns("calendar_events", c2)
    BY <1>3, <1>8, CalScript DEF m
  <2> HIDE DEF r1, r2, r3, r4, r5, r6, c2
  <2>2. /\ Fine(r1) /\ r1.d.tables = r0.d.tables
        /\ r1.d.rows = {x \in r0.d.rows : x[1] # "calendar_events"}
    <3>1. "calendar_events" \in DOMAIN r0.d.tables
      BY <1>1, <1>8 DEF CalTables, CalNames, Since
    <3>2. QED
      BY <1>1, <2>1, <3>1, DeleteStep DEF r1
  <2>3. TableSet(r1, r2, "calendar_events", CalEvents(3)) /\ r2.d.rows = r1.d.rows
    <3>1. c2 \cap CalEvents(2) = {} /\ CalEvents(2) \cup c2 = CalEvents(3)
      BY DEF CalEvents, EventFields, Since, Before, c2
    <3>2. /\ r1.d.tables["calendar_events"] = CalEvents(2)
          /\ "calendar_events" \in DOMAIN r1.d.tables /\ Fine(r1)
      BY <1>1, <1>8, <2>2 DEF CalTables, CalNames, Since, TableSet
    <3>3. CanAdd(r1, "calendar_events", c2)
      BY <3>1, <3>2 DEF CanAdd
    <3>4. r2 = Step(AddColumns("calendar_events", c2), r1)
      BY <2>1 DEF r2
    <3>5. Added(r1, r2, "calendar_events", c2)
      BY <3>3, <3>4, AddStep
    <3>6. QED
      BY <3>1, <3>2, <3>5 DEF Added
  <2>4. QED
    BY <2>1, <1>1, <1>8, <2>2, <2>3 DEF CalTables, CalNames, Since, TableSet, Migrated, CalLost
<1>9. CASE n = 4
  <2>1. /\ q = r4
        /\ m[1] = CreateTable("calendar_events_new", CalEvents(4))
        /\ m[2] = CopyRows("calendar_events", "calendar_events_new", CalEvents(4))
        /\ m[3] = DropTable("calendar_events")
        /\ m[4] = Rename("calendar_events_new", "calendar_events")
    BY <1>4, <1>9, CalScript DEF m
  <2> HIDE DEF r1, r2, r3, r4, r5, r6
  <2>2. TableSet(r0, r4, "calendar_events", CalEvents(4)) /\ r0.d.rows \subseteq r4.d.rows
    <3>1. CalEvents(4) \subseteq CalEvents(3) \cap CalEvents(4)
      BY DEF CalEvents, EventFields, Since, Before
    <3>2. /\ r0.d.tables["calendar_events"] = CalEvents(3) /\ Fine(r0)
          /\ "calendar_events" \in DOMAIN r0.d.tables
          /\ "calendar_events_new" \notin DOMAIN r0.d.tables
      BY <1>1, <1>9 DEF CalTables, CalNames, Since, TableSet
    <3>3. QED
      BY <2>1, <3>1, <3>2, RebuildSteps DEF r1, r2, r3, r4
  <2>3. QED
    BY <2>1, <1>1, <1>9, <2>2 DEF CalTables, CalNames, Since, TableSet, Migrated, CalLost
<1>10. CASE n = 5
  <2>1. /\ q = r6
        /\ m[1] = CreateTable("calendar_events_global", CalEvents(5))
        /\ m[2] = CopyRows("calendar_events", "calendar_events_global", CalEvents(5))
        /\ m[3] = DropTable("calendar_events")
        /\ m[4] = Rename("calendar_events_global", "calendar_events")
        /\ m[5] = CreateOnce("calendar_published", {"pub_key", "channel_id", "message_id"})
        /\ m[6] = CreateOnce("calendar_settings", CalSettings(5))
    BY <1>5, <1>10, CalScript DEF m
  <2> HIDE DEF r1, r2, r3, r4, r5, r6
  <2>2. TableSet(r0, r4, "calendar_events", CalEvents(5)) /\ r0.d.rows \subseteq r4.d.rows
    <3>1. CalEvents(5) \subseteq CalEvents(4) \cap CalEvents(5)
      BY DEF CalEvents, EventFields, Since, Before
    <3>2. /\ r0.d.tables["calendar_events"] = CalEvents(4) /\ Fine(r0)
          /\ "calendar_events" \in DOMAIN r0.d.tables
          /\ "calendar_events_global" \notin DOMAIN r0.d.tables
      BY <1>1, <1>10 DEF CalTables, CalNames, Since, TableSet
    <3>3. QED
      BY <2>1, <3>1, <3>2, RebuildSteps DEF r1, r2, r3, r4
  <2>3. /\ TableSet(r4, r5, "calendar_published", {"pub_key", "channel_id", "message_id"})
        /\ r5.d.rows = r4.d.rows
    <3>1. "calendar_published" \notin DOMAIN r4.d.tables /\ Fine(r4)
      BY <1>1, <1>10, <2>2 DEF CalTables, CalNames, Since, TableSet
    <3>2. QED
      BY <2>1, <3>1, CreateStep DEF r5
  <2>4. TableSet(r5, r6, "calendar_settings", CalSettings(5)) /\ r6.d.rows = r5.d.rows
    <3>1. "calendar_settings" \notin DOMAIN r5.d.tables /\ Fine(r5)
      BY <1>1, <1>10, <2>2, <2>3 DEF CalTables, CalNames, Since, TableSet
    <3>2. QED
      BY <2>1, <3>1, CreateStep DEF r6
  <2>5. QED
    BY <2>1, <1>1, <1>10, <2>2, <2>3, <2>4 DEF CalTables, CalNames, Since, TableSet, Migrated,
        CalLost
<1>11. CASE n = 6
  <2>1. /\ q = r1
        /\ m[1] = CreateOnce("calendar_event_overrides", {"master_id", "occurrence_start_at"})
    BY <1>2, <1>11, CalScript DEF m
  <2> HIDE DEF r1, r2, r3, r4, r5, r6
  <2>2. /\ TableSet(r0, r1, "calendar_event_overrides", {"master_id", "occurrence_start_at"})
        /\ r1.d.rows = r0.d.rows
    <3>1. "calendar_event_overrides" \notin DOMAIN r0.d.tables /\ Fine(r0)
      BY <1>1, <1>11 DEF CalTables, CalNames, Since, TableSet
    <3>2. QED
      BY <2>1, <3>1, CreateStep DEF r1
  <2>3. CalEvents(6) = CalEvents(5) /\ CalSettings(6) = CalSettings(5)
    BY DEF CalEvents, EventFields, Since, Before, CalSettings
  <2>4. QED
    BY <2>1, <1>1, <1>11, <2>2, <2>3 DEF CalTables, CalNames, Since, TableSet, Migrated, CalLost
<1>12. CASE n = 7
  <2> DEFINE c1 == {"discord_event_id"}
             c3 == {"announce_channel_id"}
             c4 == {"announce_mentions_json"}
  <2>1. /\ q = r4
        /\ m[1] = AddColumns("calendar_events", c1)
        /\ m[2] = CreateOnce("calendar_announcements", {"announce_key", "channel_id"})
        /\ m[3] = AddColumns("calendar_settings", c3)
        /\ m[4] = AddColumns("calendar_settings", c4)
    BY <1>4, <1>12, CalScript DEF m
  <2> HIDE DEF r1, r2, r3, r4, r5, r6, c1, c3, c4
  <2>2. TableSet(r0, r1, "calendar_events", CalEvents(7)) /\ r1.d.rows = r0.d.rows
    <3>1. c1 \cap CalEvents(6) = {} /\ CalEvents(6) \cup c1 = CalEvents(7)
      BY DEF CalEvents, EventFields, Since, Before, c1
    <3>2. /\ r0.d.tables["calendar_events"] = CalEvents(6)
          /\ "calendar_events" \in DOMAIN r0.d.tables /\ Fine(r0)
      BY <1>1, <1>12 DEF CalTables, CalNames, Since, TableSet
    <3>3. CanAdd(r0, "calendar_events", c1)
      BY <3>1, <3>2 DEF CanAdd
    <3>4. r1 = Step(AddColumns("calendar_events", c1), r0)
      BY <2>1 DEF r1
    <3>5. Added(r0, r1, "calendar_events", c1)
      BY <3>3, <3>4, AddStep
    <3>6. QED
      BY <3>1, <3>2, <3>5 DEF Added
  <2>3. /\ TableSet(r1, r2, "calendar_announcements", {"announce_key", "channel_id"})
        /\ r2.d.rows = r1.d.rows
    <3>1. "calendar_announcements" \notin DOMAIN r1.d.tables /\ Fine(r1)
      BY <1>1, <1>12, <2>2 DEF CalTables, CalNames, Since, TableSet
    <3>2. QED
      BY <2>1, <3>1, CreateStep DEF r2
  <2>4. TableSet(r2, r3, "calendar_settings", (CalSettings(6) \cup c3)) /\ r3.d.rows = r2.d.rows
    <3>1. c3 \cap CalSettings(6) = {} /\ CalSettings(6) \cup c3 = (CalSettings(6) \cup c3)
      BY DEF CalSettings, Since, c3
    <3>2. /\ r2.d.tables["calendar_settings"] = CalSettings(6)
          /\ "calendar_settings" \in DOMAIN r2.d.tables /\ Fine(r2)
      BY <1>1, <1>12, <2>2, <2>3 DEF CalTables, CalNames, Since, TableSet
    <3>3. CanAdd(r2, "calendar_settings", c3)
      BY <3>1, <3>2 DEF CanAdd
    <3>4. r3 = Step(AddColumns("calendar_settings", c3), r2)
      BY <2>1 DEF r3
    <3>5. Added(r2, r3, "calendar_settings", c3)
      BY <3>3, <3>4, AddStep
    <3>6. QED
      BY <3>1, <3>2, <3>5 DEF Added
  <2>5. TableSet(r3, r4, "calendar_settings", CalSettings(7)) /\ r4.d.rows = r3.d.rows
    <3>1. /\ c4 \cap (CalSettings(6) \cup c3) = {}
          /\ (CalSettings(6) \cup c3) \cup c4 = CalSettings(7)
      BY DEF CalSettings, Since, c3, c4
    <3>2. /\ r3.d.tables["calendar_settings"] = (CalSettings(6) \cup c3)
          /\ "calendar_settings" \in DOMAIN r3.d.tables /\ Fine(r3)
      BY <1>1, <1>12, <2>2, <2>3, <2>4 DEF CalTables, CalNames, Since, TableSet
    <3>3. CanAdd(r3, "calendar_settings", c4)
      BY <3>1, <3>2 DEF CanAdd
    <3>4. r4 = Step(AddColumns("calendar_settings", c4), r3)
      BY <2>1 DEF r4
    <3>5. Added(r3, r4, "calendar_settings", c4)
      BY <3>3, <3>4, AddStep
    <3>6. QED
      BY <3>1, <3>2, <3>5 DEF Added
  <2>6. QED
    BY <2>1, <1>1, <1>12, <2>2, <2>3, <2>4, <2>5 DEF CalTables, CalNames, Since, TableSet,
        Migrated, CalLost
<1>13. CASE n = 8
  <2> DEFINE c1 == {"flyer_channel_id"}
             c2 == {"flyer_image_message_id"}
  <2>1. /\ q = r2
        /\ m[1] = AddColumns("calendar_events", c1)
        /\ m[2] = AddColumns("calendar_events", c2)
    BY <1>3, <1>13, CalScript DEF m
  <2> HIDE DEF r1, r2, r3, r4, r5, r6, c1, c2
  <2>2. TableSet(r0, r1, "calendar_events", (CalEvents(7) \cup c1)) /\ r1.d.rows = r0.d.rows
    <3>1. c1 \cap CalEvents(7) = {} /\ CalEvents(7) \cup c1 = (CalEvents(7) \cup c1)
      BY DEF CalEvents, EventFields, Since, Before, c1
    <3>2. /\ r0.d.tables["calendar_events"] = CalEvents(7)
          /\ "calendar_events" \in DOMAIN r0.d.tables /\ Fine(r0)
      BY <1>1, <1>13 DEF CalTables, CalNames, Since, TableSet
    <3>3. CanAdd(r0, "calendar_events", c1)
      BY <3>1, <3>2 DEF CanAdd
    <3>4. r1 = Step(AddColumns("calendar_events", c1), r0)
      BY <2>1 DEF r1
    <3>5. Added(r0, r1, "calendar_events", c1)
      BY <3>3, <3>4, AddStep
    <3>6. QED
      BY <3>1, <3>2, <3>5 DEF Added
  <2>3. TableSet(r1, r2, "calendar_events", CalEvents(8)) /\ r2.d.rows = r1.d.rows
    <3>1. c2 \cap (CalEvents(7) \cup c1) = {} /\ (CalEvents(7) \cup c1) \cup c2 = CalEvents(8)
      BY DEF CalEvents, EventFields, Since, Before, c1, c2
    <3>2. /\ r1.d.tables["calendar_events"] = (CalEvents(7) \cup c1)
          /\ "calendar_events" \in DOMAIN r1.d.tables /\ Fine(r1)
      BY <1>1, <1>13, <2>2 DEF CalTables, CalNames, Since, TableSet
    <3>3. CanAdd(r1, "calendar_events", c2)
      BY <3>1, <3>2 DEF CanAdd
    <3>4. r2 = Step(AddColumns("calendar_events", c2), r1)
      BY <2>1 DEF r2
    <3>5. Added(r1, r2, "calendar_events", c2)
      BY <3>3, <3>4, AddStep
    <3>6. QED
      BY <3>1, <3>2, <3>5 DEF Added
  <2>4. CalSettings(8) = CalSettings(7)
    BY DEF CalSettings, Since
  <2>5. QED
    BY <2>1, <1>1, <1>13, <2>2, <2>3, <2>4 DEF CalTables, CalNames, Since, TableSet, Migrated,
        CalLost
<1>14. CASE n = 9
  <2>1. /\ q = r1
        /\ m[1] = CreateOnce("calendar_announcement_drafts", CalDrafts(9))
    BY <1>2, <1>14, CalScript DEF m
  <2> HIDE DEF r1, r2, r3, r4, r5, r6
  <2>2. TableSet(r0, r1, "calendar_announcement_drafts", CalDrafts(9)) /\ r1.d.rows = r0.d.rows
    <3>1. "calendar_announcement_drafts" \notin DOMAIN r0.d.tables /\ Fine(r0)
      BY <1>1, <1>14 DEF CalTables, CalNames, Since, TableSet
    <3>2. QED
      BY <2>1, <3>1, CreateStep DEF r1
  <2>3. CalEvents(9) = CalEvents(8) /\ CalSettings(9) = CalSettings(8)
    BY DEF CalEvents, EventFields, Since, Before, CalSettings
  <2>4. QED
    BY <2>1, <1>1, <1>14, <2>2, <2>3 DEF CalTables, CalNames, Since, TableSet, Migrated, CalLost
<1>15. CASE n = 10
  <2>1. /\ q = r2
        /\ m[1] = DropTable("calendar_announcement_drafts")
        /\ m[2] = CreateTable("calendar_announcement_drafts", CalDrafts(10))
    BY <1>3, <1>15, CalScript DEF m
  <2> HIDE DEF r1, r2, r3, r4, r5, r6
  <2>2. /\ Fine(r1)
        /\ DOMAIN r1.d.tables = DOMAIN r0.d.tables \ {"calendar_announcement_drafts"}
        /\ \A u \in DOMAIN r0.d.tables \ {"calendar_announcement_drafts"} :
             r1.d.tables[u] = r0.d.tables[u]
        /\ r1.d.rows = {x \in r0.d.rows : x[1] # "calendar_announcement_drafts"}
    BY <1>1, <2>1, DropStep DEF r1
  <2>3. TableSet(r1, r2, "calendar_announcement_drafts", CalDrafts(10)) /\ r2.d.rows = r1.d.rows
    <3>1. "calendar_announcement_drafts" \notin DOMAIN r1.d.tables /\ Fine(r1)
      BY <1>1, <1>15, <2>2 DEF CalTables, CalNames, Since, TableSet
    <3>2. QED
      BY <2>1, <3>1, CreateStep DEF r2
  <2>4. CalEvents(10) = CalEvents(9) /\ CalSettings(10) = CalSettings(9)
    BY DEF CalEvents, EventFields, Since, Before, CalSettings
  <2>5. QED
    BY <2>1, <1>1, <1>15, <2>2, <2>3, <2>4 DEF CalTables, CalNames, Since, TableSet, Migrated,
        CalLost
<1>16. CASE n = 11
  <2> DEFINE c1 == {"recurrence_interval", "recurrence_byday", "recurrence_monthly"}
  <2>1. /\ q = r1
        /\ m[1] = AddColumns("calendar_events", c1)
    BY <1>2, <1>16, CalScript DEF m
  <2> HIDE DEF r1, r2, r3, r4, r5, r6, c1
  <2>2. TableSet(r0, r1, "calendar_events", CalEvents(11)) /\ r1.d.rows = r0.d.rows
    <3>1. c1 \cap CalEvents(10) = {} /\ CalEvents(10) \cup c1 = CalEvents(11)
      BY DEF CalEvents, EventFields, Since, Before, c1
    <3>2. /\ r0.d.tables["calendar_events"] = CalEvents(10)
          /\ "calendar_events" \in DOMAIN r0.d.tables /\ Fine(r0)
      BY <1>1, <1>16 DEF CalTables, CalNames, Since, TableSet
    <3>3. CanAdd(r0, "calendar_events", c1)
      BY <3>1, <3>2 DEF CanAdd
    <3>4. r1 = Step(AddColumns("calendar_events", c1), r0)
      BY <2>1 DEF r1
    <3>5. Added(r0, r1, "calendar_events", c1)
      BY <3>3, <3>4, AddStep
    <3>6. QED
      BY <3>1, <3>2, <3>5 DEF Added
  <2>3. CalSettings(11) = CalSettings(10) /\ CalDrafts(11) = CalDrafts(10)
    BY DEF CalSettings, Since, CalDrafts, Drafts, Before
  <2>4. QED
    BY <2>1, <1>1, <1>16, <2>2, <2>3 DEF CalTables, CalNames, Since, TableSet, Migrated, CalLost
<1>17. CASE n = 12
  <2>1. /\ q = r1
        /\ m[1] = CreateTable("calendar_broadcast_deliveries",
            {"event_id", "occurrence_start_at", "channel_id"})
    BY <1>2, <1>17, CalScript DEF m
  <2> HIDE DEF r1, r2, r3, r4, r5, r6
  <2>2. /\ TableSet(r0, r1, "calendar_broadcast_deliveries",
            {"event_id", "occurrence_start_at", "channel_id"})
        /\ r1.d.rows = r0.d.rows
    <3>1. "calendar_broadcast_deliveries" \notin DOMAIN r0.d.tables /\ Fine(r0)
      BY <1>1, <1>17 DEF CalTables, CalNames, Since, TableSet
    <3>2. QED
      BY <2>1, <3>1, CreateStep DEF r1
  <2>3. /\ CalEvents(12) = CalEvents(11)
        /\ CalSettings(12) = CalSettings(11)
        /\ CalDrafts(12) = CalDrafts(11)
    BY DEF CalEvents, EventFields, Since, Before, CalSettings, CalDrafts, Drafts
  <2>4. QED
    BY <2>1, <1>1, <1>17, <2>2, <2>3 DEF CalTables, CalNames, Since, TableSet, Migrated, CalLost
<1>18. CASE n = 13
  <2> DEFINE c1 == {"repost"}
  <2>1. /\ q = r1
        /\ m[1] = AddColumns("calendar_announcement_drafts", c1)
    BY <1>2, <1>18, CalScript DEF m
  <2> HIDE DEF r1, r2, r3, r4, r5, r6, c1
  <2>2. TableSet(r0, r1, "calendar_announcement_drafts", CalDrafts(13)) /\ r1.d.rows = r0.d.rows
    <3>1. c1 \cap CalDrafts(12) = {} /\ CalDrafts(12) \cup c1 = CalDrafts(13)
      BY DEF CalDrafts, Drafts, Since, Before, c1
    <3>2. /\ r0.d.tables["calendar_announcement_drafts"] = CalDrafts(12)
          /\ "calendar_announcement_drafts" \in DOMAIN r0.d.tables /\ Fine(r0)
      BY <1>1, <1>18 DEF CalTables, CalNames, Since, TableSet
    <3>3. CanAdd(r0, "calendar_announcement_drafts", c1)
      BY <3>1, <3>2 DEF CanAdd
    <3>4. r1 = Step(AddColumns("calendar_announcement_drafts", c1), r0)
      BY <2>1 DEF r1
    <3>5. Added(r0, r1, "calendar_announcement_drafts", c1)
      BY <3>3, <3>4, AddStep
    <3>6. QED
      BY <3>1, <3>2, <3>5 DEF Added
  <2>3. CalEvents(13) = CalEvents(12) /\ CalSettings(13) = CalSettings(12)
    BY DEF CalEvents, EventFields, Since, Before, CalSettings
  <2>4. QED
    BY <2>1, <1>1, <1>18, <2>2, <2>3 DEF CalTables, CalNames, Since, TableSet, Migrated, CalLost
<1>19. QED
  BY <1>6, <1>7, <1>8, <1>9, <1>10, <1>11, <1>12, <1>13, <1>14, <1>15, <1>16, <1>17, <1>18

LEMMA InstaScript ==
  LET m == Migrations["instagram_monitor"] IN
  /\ DOMAIN m = 1..11
  /\ DOMAIN m[1] = 1..2
  /\ m[1][1] = CreateOnce("instagram_monitor_accounts", InstaAccounts(1))
  /\ m[1][2] = CreateOnce("instagram_monitor_seen_posts", {"ig_post_id", "channel_id"})
  /\ DOMAIN m[2] = 1..4
  /\ m[2][1] = CreateTable("instagram_monitor_accounts_new", InstaAccounts(2))
  /\ m[2][2] = CopyRows("instagram_monitor_accounts", "instagram_monitor_accounts_new",
      AccountFields)
  /\ m[2][3] = DropTable("instagram_monitor_accounts")
  /\ m[2][4] = Rename("instagram_monitor_accounts_new", "instagram_monitor_accounts")
  /\ DOMAIN m[3] = 1..1
  /\ m[3][1] = AddColumns("instagram_monitor_accounts", {"last_post_at"})
  /\ DOMAIN m[4] = 1..1
  /\ m[4][1] = AddColumns("instagram_monitor_accounts", {"consecutive_auth_failures"})
  /\ DOMAIN m[5] = 1..1
  /\ m[5][1] = CreateOnce("instagram_monitor_runtime", InstaRuntime(5))
  /\ DOMAIN m[6] = 1..1
  /\ m[6][1] = AddColumns("instagram_monitor_accounts",
      {"poll_interval_ms", "posts_per_day", "cadence_updated_at"})
  /\ DOMAIN m[7] = 1..1
  /\ m[7][1] = AddColumns("instagram_monitor_runtime", {"poll_stretch", "last_digest_at"})
  /\ DOMAIN m[8] = 1..1
  /\ m[8][1] = AddColumns("instagram_monitor_accounts", {"consecutive_hard_failures"})
  /\ DOMAIN m[9] = 1..1
  /\ m[9][1] = AddColumns("instagram_monitor_accounts",
      {"ig_pk", "prefer_username_feed", "prefer_username_feed_at"})
  /\ DOMAIN m[10] = 1..1
  /\ m[10][1] = AddColumns("instagram_monitor_runtime",
      {"poll_alloc_scale", "request_window_json"})
  /\ DOMAIN m[11] = 1..1
  /\ m[11][1] = AddColumns("instagram_monitor_runtime", {"fetch_health_json"})
BY DEF Migrations, InstagramMigrations1, InstagramMigrations2, Rebuild, InstaAccounts,
    InstaRuntime, Since, Before

LEMMA InstaMigrates ==
  ASSUME NEW d, Good(d), NEW n \in 1..11, InstaTables(n - 1, d.tables),
         NEW q, q = Execute(d, Migrations["instagram_monitor"][n])
  PROVE  Migrated(q, d, {}) /\ InstaTables(n, q.d.tables)
<1> DEFINE m == Migrations["instagram_monitor"][n]
           r0 == Begun(d)
           r1 == Step(m[1], r0)
           r2 == Step(m[2], r1)
           r3 == Step(m[3], r2)
           r4 == Step(m[4], r3)
<1>1. Fine(r0) /\ r0.d = d
  BY BegunFine
<1>2. DOMAIN m = 1..1 => q = r1
  BY ExecuteFew
<1>3. DOMAIN m = 1..2 => q = r2
  BY ExecuteFew
<1>4. DOMAIN m = 1..4 => q = r4
  BY ExecuteFew
<1> HIDE DEF m, r0
<1>5. CASE n = 1
  <2>1. /\ q = r2
        /\ m[1] = CreateOnce("instagram_monitor_accounts", InstaAccounts(1))
        /\ m[2] = CreateOnce("instagram_monitor_seen_posts", {"ig_post_id", "channel_id"})
    BY <1>3, <1>5, InstaScript DEF m
  <2> HIDE DEF r1, r2, r3, r4
  <2>2. /\ TableSet(r0, r1, "instagram_monitor_accounts", InstaAccounts(1))
        /\ r1.d.rows = r0.d.rows
    <3>1. "instagram_monitor_accounts" \notin DOMAIN r0.d.tables /\ Fine(r0)
      BY <1>1, <1>5 DEF InstaTables, InstaNames, Since, TableSet
    <3>2. QED
      BY <2>1, <3>1, CreateStep DEF r1
  <2>3. /\ TableSet(r1, r2, "instagram_monitor_seen_posts", {"ig_post_id", "channel_id"})
        /\ r2.d.rows = r1.d.rows
    <3>1. "instagram_monitor_seen_posts" \notin DOMAIN r1.d.tables /\ Fine(r1)
      BY <1>1, <1>5, <2>2 DEF InstaTables, InstaNames, Since, TableSet
    <3>2. QED
      BY <2>1, <3>1, CreateStep DEF r2
  <2>4. QED
    BY <2>1, <1>1, <1>5, <2>2, <2>3 DEF InstaTables, InstaNames, Since, TableSet, Migrated
<1>6. CASE n = 2
  <2>1. /\ q = r4
        /\ m[1] = CreateTable("instagram_monitor_accounts_new", InstaAccounts(2))
        /\ m[2] = CopyRows("instagram_monitor_accounts", "instagram_monitor_accounts_new",
            AccountFields)
        /\ m[3] = DropTable("instagram_monitor_accounts")
        /\ m[4] = Rename("instagram_monitor_accounts_new", "instagram_monitor_accounts")
    BY <1>4, <1>6, InstaScript DEF m
  <2> HIDE DEF r1, r2, r3, r4
  <2>2. /\ TableSet(r0, r4, "instagram_monitor_accounts", InstaAccounts(2))
        /\ r0.d.rows \subseteq r4.d.rows
    <3>1. AccountFields \subseteq InstaAccounts(1) \cap InstaAccounts(2)
      BY DEF InstaAccounts, AccountFields, Since, Before
    <3>2. /\ r0.d.tables["instagram_monitor_accounts"] = InstaAccounts(1) /\ Fine(r0)
          /\ "instagram_monitor_accounts" \in DOMAIN r0.d.tables
          /\ "instagram_monitor_accounts_new" \notin DOMAIN r0.d.tables
      BY <1>1, <1>6 DEF InstaTables, InstaNames, Since, TableSet
    <3>3. QED
      BY <2>1, <3>1, <3>2, RebuildSteps DEF r1, r2, r3, r4
  <2>3. QED
    BY <2>1, <1>1, <1>6, <2>2 DEF InstaTables, InstaNames, Since, TableSet, Migrated
<1>7. CASE n = 3
  <2> DEFINE c1 == {"last_post_at"}
  <2>1. /\ q = r1
        /\ m[1] = AddColumns("instagram_monitor_accounts", c1)
    BY <1>2, <1>7, InstaScript DEF m
  <2> HIDE DEF r1, r2, r3, r4, c1
  <2>2. /\ TableSet(r0, r1, "instagram_monitor_accounts", InstaAccounts(3))
        /\ r1.d.rows = r0.d.rows
    <3>1. c1 \cap InstaAccounts(2) = {} /\ InstaAccounts(2) \cup c1 = InstaAccounts(3)
      BY DEF InstaAccounts, AccountFields, Since, Before, c1
    <3>2. /\ r0.d.tables["instagram_monitor_accounts"] = InstaAccounts(2)
          /\ "instagram_monitor_accounts" \in DOMAIN r0.d.tables /\ Fine(r0)
      BY <1>1, <1>7 DEF InstaTables, InstaNames, Since, TableSet
    <3>3. CanAdd(r0, "instagram_monitor_accounts", c1)
      BY <3>1, <3>2 DEF CanAdd
    <3>4. r1 = Step(AddColumns("instagram_monitor_accounts", c1), r0)
      BY <2>1 DEF r1
    <3>5. Added(r0, r1, "instagram_monitor_accounts", c1)
      BY <3>3, <3>4, AddStep
    <3>6. QED
      BY <3>1, <3>2, <3>5 DEF Added
  <2>3. QED
    BY <2>1, <1>1, <1>7, <2>2 DEF InstaTables, InstaNames, Since, TableSet, Migrated
<1>8. CASE n = 4
  <2> DEFINE c1 == {"consecutive_auth_failures"}
  <2>1. /\ q = r1
        /\ m[1] = AddColumns("instagram_monitor_accounts", c1)
    BY <1>2, <1>8, InstaScript DEF m
  <2> HIDE DEF r1, r2, r3, r4, c1
  <2>2. /\ TableSet(r0, r1, "instagram_monitor_accounts", InstaAccounts(4))
        /\ r1.d.rows = r0.d.rows
    <3>1. c1 \cap InstaAccounts(3) = {} /\ InstaAccounts(3) \cup c1 = InstaAccounts(4)
      BY DEF InstaAccounts, AccountFields, Since, Before, c1
    <3>2. /\ r0.d.tables["instagram_monitor_accounts"] = InstaAccounts(3)
          /\ "instagram_monitor_accounts" \in DOMAIN r0.d.tables /\ Fine(r0)
      BY <1>1, <1>8 DEF InstaTables, InstaNames, Since, TableSet
    <3>3. CanAdd(r0, "instagram_monitor_accounts", c1)
      BY <3>1, <3>2 DEF CanAdd
    <3>4. r1 = Step(AddColumns("instagram_monitor_accounts", c1), r0)
      BY <2>1 DEF r1
    <3>5. Added(r0, r1, "instagram_monitor_accounts", c1)
      BY <3>3, <3>4, AddStep
    <3>6. QED
      BY <3>1, <3>2, <3>5 DEF Added
  <2>3. QED
    BY <2>1, <1>1, <1>8, <2>2 DEF InstaTables, InstaNames, Since, TableSet, Migrated
<1>9. CASE n = 5
  <2>1. /\ q = r1
        /\ m[1] = CreateOnce("instagram_monitor_runtime", InstaRuntime(5))
    BY <1>2, <1>9, InstaScript DEF m
  <2> HIDE DEF r1, r2, r3, r4
  <2>2. TableSet(r0, r1, "instagram_monitor_runtime", InstaRuntime(5)) /\ r1.d.rows = r0.d.rows
    <3>1. "instagram_monitor_runtime" \notin DOMAIN r0.d.tables /\ Fine(r0)
      BY <1>1, <1>9 DEF InstaTables, InstaNames, Since, TableSet
    <3>2. QED
      BY <2>1, <3>1, CreateStep DEF r1
  <2>3. InstaAccounts(5) = InstaAccounts(4)
    BY DEF InstaAccounts, AccountFields, Since, Before
  <2>4. QED
    BY <2>1, <1>1, <1>9, <2>2, <2>3 DEF InstaTables, InstaNames, Since, TableSet, Migrated
<1>10. CASE n = 6
  <2> DEFINE c1 == {"poll_interval_ms", "posts_per_day", "cadence_updated_at"}
  <2>1. /\ q = r1
        /\ m[1] = AddColumns("instagram_monitor_accounts", c1)
    BY <1>2, <1>10, InstaScript DEF m
  <2> HIDE DEF r1, r2, r3, r4, c1
  <2>2. /\ TableSet(r0, r1, "instagram_monitor_accounts", InstaAccounts(6))
        /\ r1.d.rows = r0.d.rows
    <3>1. c1 \cap InstaAccounts(5) = {} /\ InstaAccounts(5) \cup c1 = InstaAccounts(6)
      BY DEF InstaAccounts, AccountFields, Since, Before, c1
    <3>2. /\ r0.d.tables["instagram_monitor_accounts"] = InstaAccounts(5)
          /\ "instagram_monitor_accounts" \in DOMAIN r0.d.tables /\ Fine(r0)
      BY <1>1, <1>10 DEF InstaTables, InstaNames, Since, TableSet
    <3>3. CanAdd(r0, "instagram_monitor_accounts", c1)
      BY <3>1, <3>2 DEF CanAdd
    <3>4. r1 = Step(AddColumns("instagram_monitor_accounts", c1), r0)
      BY <2>1 DEF r1
    <3>5. Added(r0, r1, "instagram_monitor_accounts", c1)
      BY <3>3, <3>4, AddStep
    <3>6. QED
      BY <3>1, <3>2, <3>5 DEF Added
  <2>3. InstaRuntime(6) = InstaRuntime(5)
    BY DEF InstaRuntime, Since
  <2>4. QED
    BY <2>1, <1>1, <1>10, <2>2, <2>3 DEF InstaTables, InstaNames, Since, TableSet, Migrated
<1>11. CASE n = 7
  <2> DEFINE c1 == {"poll_stretch", "last_digest_at"}
  <2>1. /\ q = r1
        /\ m[1] = AddColumns("instagram_monitor_runtime", c1)
    BY <1>2, <1>11, InstaScript DEF m
  <2> HIDE DEF r1, r2, r3, r4, c1
  <2>2. TableSet(r0, r1, "instagram_monitor_runtime", InstaRuntime(7)) /\ r1.d.rows = r0.d.rows
    <3>1. c1 \cap InstaRuntime(6) = {} /\ InstaRuntime(6) \cup c1 = InstaRuntime(7)
      BY DEF InstaRuntime, Since, c1
    <3>2. /\ r0.d.tables["instagram_monitor_runtime"] = InstaRuntime(6)
          /\ "instagram_monitor_runtime" \in DOMAIN r0.d.tables /\ Fine(r0)
      BY <1>1, <1>11 DEF InstaTables, InstaNames, Since, TableSet
    <3>3. CanAdd(r0, "instagram_monitor_runtime", c1)
      BY <3>1, <3>2 DEF CanAdd
    <3>4. r1 = Step(AddColumns("instagram_monitor_runtime", c1), r0)
      BY <2>1 DEF r1
    <3>5. Added(r0, r1, "instagram_monitor_runtime", c1)
      BY <3>3, <3>4, AddStep
    <3>6. QED
      BY <3>1, <3>2, <3>5 DEF Added
  <2>3. InstaAccounts(7) = InstaAccounts(6)
    BY DEF InstaAccounts, AccountFields, Since, Before
  <2>4. QED
    BY <2>1, <1>1, <1>11, <2>2, <2>3 DEF InstaTables, InstaNames, Since, TableSet, Migrated
<1>12. CASE n = 8
  <2> DEFINE c1 == {"consecutive_hard_failures"}
  <2>1. /\ q = r1
        /\ m[1] = AddColumns("instagram_monitor_accounts", c1)
    BY <1>2, <1>12, InstaScript DEF m
  <2> HIDE DEF r1, r2, r3, r4, c1
  <2>2. /\ TableSet(r0, r1, "instagram_monitor_accounts", InstaAccounts(8))
        /\ r1.d.rows = r0.d.rows
    <3>1. c1 \cap InstaAccounts(7) = {} /\ InstaAccounts(7) \cup c1 = InstaAccounts(8)
      BY DEF InstaAccounts, AccountFields, Since, Before, c1
    <3>2. /\ r0.d.tables["instagram_monitor_accounts"] = InstaAccounts(7)
          /\ "instagram_monitor_accounts" \in DOMAIN r0.d.tables /\ Fine(r0)
      BY <1>1, <1>12 DEF InstaTables, InstaNames, Since, TableSet
    <3>3. CanAdd(r0, "instagram_monitor_accounts", c1)
      BY <3>1, <3>2 DEF CanAdd
    <3>4. r1 = Step(AddColumns("instagram_monitor_accounts", c1), r0)
      BY <2>1 DEF r1
    <3>5. Added(r0, r1, "instagram_monitor_accounts", c1)
      BY <3>3, <3>4, AddStep
    <3>6. QED
      BY <3>1, <3>2, <3>5 DEF Added
  <2>3. InstaRuntime(8) = InstaRuntime(7)
    BY DEF InstaRuntime, Since
  <2>4. QED
    BY <2>1, <1>1, <1>12, <2>2, <2>3 DEF InstaTables, InstaNames, Since, TableSet, Migrated
<1>13. CASE n = 9
  <2> DEFINE c1 == {"ig_pk", "prefer_username_feed", "prefer_username_feed_at"}
  <2>1. /\ q = r1
        /\ m[1] = AddColumns("instagram_monitor_accounts", c1)
    BY <1>2, <1>13, InstaScript DEF m
  <2> HIDE DEF r1, r2, r3, r4, c1
  <2>2. /\ TableSet(r0, r1, "instagram_monitor_accounts", InstaAccounts(9))
        /\ r1.d.rows = r0.d.rows
    <3>1. c1 \cap InstaAccounts(8) = {} /\ InstaAccounts(8) \cup c1 = InstaAccounts(9)
      BY DEF InstaAccounts, AccountFields, Since, Before, c1
    <3>2. /\ r0.d.tables["instagram_monitor_accounts"] = InstaAccounts(8)
          /\ "instagram_monitor_accounts" \in DOMAIN r0.d.tables /\ Fine(r0)
      BY <1>1, <1>13 DEF InstaTables, InstaNames, Since, TableSet
    <3>3. CanAdd(r0, "instagram_monitor_accounts", c1)
      BY <3>1, <3>2 DEF CanAdd
    <3>4. r1 = Step(AddColumns("instagram_monitor_accounts", c1), r0)
      BY <2>1 DEF r1
    <3>5. Added(r0, r1, "instagram_monitor_accounts", c1)
      BY <3>3, <3>4, AddStep
    <3>6. QED
      BY <3>1, <3>2, <3>5 DEF Added
  <2>3. InstaRuntime(9) = InstaRuntime(8)
    BY DEF InstaRuntime, Since
  <2>4. QED
    BY <2>1, <1>1, <1>13, <2>2, <2>3 DEF InstaTables, InstaNames, Since, TableSet, Migrated
<1>14. CASE n = 10
  <2> DEFINE c1 == {"poll_alloc_scale", "request_window_json"}
  <2>1. /\ q = r1
        /\ m[1] = AddColumns("instagram_monitor_runtime", c1)
    BY <1>2, <1>14, InstaScript DEF m
  <2> HIDE DEF r1, r2, r3, r4, c1
  <2>2. TableSet(r0, r1, "instagram_monitor_runtime", InstaRuntime(10)) /\ r1.d.rows = r0.d.rows
    <3>1. c1 \cap InstaRuntime(9) = {} /\ InstaRuntime(9) \cup c1 = InstaRuntime(10)
      BY DEF InstaRuntime, Since, c1
    <3>2. /\ r0.d.tables["instagram_monitor_runtime"] = InstaRuntime(9)
          /\ "instagram_monitor_runtime" \in DOMAIN r0.d.tables /\ Fine(r0)
      BY <1>1, <1>14 DEF InstaTables, InstaNames, Since, TableSet
    <3>3. CanAdd(r0, "instagram_monitor_runtime", c1)
      BY <3>1, <3>2 DEF CanAdd
    <3>4. r1 = Step(AddColumns("instagram_monitor_runtime", c1), r0)
      BY <2>1 DEF r1
    <3>5. Added(r0, r1, "instagram_monitor_runtime", c1)
      BY <3>3, <3>4, AddStep
    <3>6. QED
      BY <3>1, <3>2, <3>5 DEF Added
  <2>3. InstaAccounts(10) = InstaAccounts(9)
    BY DEF InstaAccounts, AccountFields, Since, Before
  <2>4. QED
    BY <2>1, <1>1, <1>14, <2>2, <2>3 DEF InstaTables, InstaNames, Since, TableSet, Migrated
<1>15. CASE n = 11
  <2> DEFINE c1 == {"fetch_health_json"}
  <2>1. /\ q = r1
        /\ m[1] = AddColumns("instagram_monitor_runtime", c1)
    BY <1>2, <1>15, InstaScript DEF m
  <2> HIDE DEF r1, r2, r3, r4, c1
  <2>2. TableSet(r0, r1, "instagram_monitor_runtime", InstaRuntime(11)) /\ r1.d.rows = r0.d.rows
    <3>1. c1 \cap InstaRuntime(10) = {} /\ InstaRuntime(10) \cup c1 = InstaRuntime(11)
      BY DEF InstaRuntime, Since, c1
    <3>2. /\ r0.d.tables["instagram_monitor_runtime"] = InstaRuntime(10)
          /\ "instagram_monitor_runtime" \in DOMAIN r0.d.tables /\ Fine(r0)
      BY <1>1, <1>15 DEF InstaTables, InstaNames, Since, TableSet
    <3>3. CanAdd(r0, "instagram_monitor_runtime", c1)
      BY <3>1, <3>2 DEF CanAdd
    <3>4. r1 = Step(AddColumns("instagram_monitor_runtime", c1), r0)
      BY <2>1 DEF r1
    <3>5. Added(r0, r1, "instagram_monitor_runtime", c1)
      BY <3>3, <3>4, AddStep
    <3>6. QED
      BY <3>1, <3>2, <3>5 DEF Added
  <2>3. InstaAccounts(11) = InstaAccounts(10)
    BY DEF InstaAccounts, AccountFields, Since, Before
  <2>4. QED
    BY <2>1, <1>1, <1>15, <2>2, <2>3 DEF InstaTables, InstaNames, Since, TableSet, Migrated
<1>16. QED
  BY <1>5, <1>6, <1>7, <1>8, <1>9, <1>10, <1>11, <1>12, <1>13, <1>14, <1>15

LEMMA ScannerScript ==
  LET m == Migrations["file_scanner"] IN
  /\ DOMAIN m = 1..2
  /\ DOMAIN m[1] = 1..3
  /\ m[1][1] = CreateOnce("file_scanner_settings", ScannerSettings(1))
  /\ m[1][2] = CreateOnce("file_scanner_runtime", {"request_times_json"})
  /\ m[1][3] = CreateOnce("file_scanner_scans", {"sha256"})
  /\ DOMAIN m[2] = 1..1
  /\ m[2][1] = AddColumns("file_scanner_settings", {"media_channels_json"})
BY DEF Migrations, ScannerMigrations, ScannerSettings, Since

LEMMA ScannerMigrates ==
  ASSUME NEW d, Good(d), NEW n \in 1..2, ScannerTables(n - 1, d.tables),
         NEW q, q = Execute(d, Migrations["file_scanner"][n])
  PROVE  Migrated(q, d, {}) /\ ScannerTables(n, q.d.tables)
<1> DEFINE m == Migrations["file_scanner"][n]
           r0 == Begun(d)
           r1 == Step(m[1], r0)
           r2 == Step(m[2], r1)
           r3 == Step(m[3], r2)
<1>1. Fine(r0) /\ r0.d = d
  BY BegunFine
<1>2. DOMAIN m = 1..1 => q = r1
  BY ExecuteFew
<1>3. DOMAIN m = 1..3 => q = r3
  BY ExecuteFew
<1> HIDE DEF m, r0
<1>4. CASE n = 1
  <2>1. /\ q = r3
        /\ m[1] = CreateOnce("file_scanner_settings", ScannerSettings(1))
        /\ m[2] = CreateOnce("file_scanner_runtime", {"request_times_json"})
        /\ m[3] = CreateOnce("file_scanner_scans", {"sha256"})
    BY <1>3, <1>4, ScannerScript DEF m
  <2> HIDE DEF r1, r2, r3
  <2>2. TableSet(r0, r1, "file_scanner_settings", ScannerSettings(1)) /\ r1.d.rows = r0.d.rows
    <3>1. "file_scanner_settings" \notin DOMAIN r0.d.tables /\ Fine(r0)
      BY <1>1, <1>4 DEF ScannerTables, Since, TableSet
    <3>2. QED
      BY <2>1, <3>1, CreateStep DEF r1
  <2>3. /\ TableSet(r1, r2, "file_scanner_runtime", {"request_times_json"})
        /\ r2.d.rows = r1.d.rows
    <3>1. "file_scanner_runtime" \notin DOMAIN r1.d.tables /\ Fine(r1)
      BY <1>1, <1>4, <2>2 DEF ScannerTables, Since, TableSet
    <3>2. QED
      BY <2>1, <3>1, CreateStep DEF r2
  <2>4. TableSet(r2, r3, "file_scanner_scans", {"sha256"}) /\ r3.d.rows = r2.d.rows
    <3>1. "file_scanner_scans" \notin DOMAIN r2.d.tables /\ Fine(r2)
      BY <1>1, <1>4, <2>2, <2>3 DEF ScannerTables, Since, TableSet
    <3>2. QED
      BY <2>1, <3>1, CreateStep DEF r3
  <2>5. QED
    BY <2>1, <1>1, <1>4, <2>2, <2>3, <2>4 DEF ScannerTables, Since, TableSet, Migrated
<1>5. CASE n = 2
  <2> DEFINE c1 == {"media_channels_json"}
  <2>1. /\ q = r1
        /\ m[1] = AddColumns("file_scanner_settings", c1)
    BY <1>2, <1>5, ScannerScript DEF m
  <2> HIDE DEF r1, r2, r3, c1
  <2>2. TableSet(r0, r1, "file_scanner_settings", ScannerSettings(2)) /\ r1.d.rows = r0.d.rows
    <3>1. c1 \cap ScannerSettings(1) = {} /\ ScannerSettings(1) \cup c1 = ScannerSettings(2)
      BY DEF ScannerSettings, Since, c1
    <3>2. /\ r0.d.tables["file_scanner_settings"] = ScannerSettings(1)
          /\ "file_scanner_settings" \in DOMAIN r0.d.tables /\ Fine(r0)
      BY <1>1, <1>5 DEF ScannerTables, Since, TableSet
    <3>3. CanAdd(r0, "file_scanner_settings", c1)
      BY <3>1, <3>2 DEF CanAdd
    <3>4. r1 = Step(AddColumns("file_scanner_settings", c1), r0)
      BY <2>1 DEF r1
    <3>5. Added(r0, r1, "file_scanner_settings", c1)
      BY <3>3, <3>4, AddStep
    <3>6. QED
      BY <3>1, <3>2, <3>5 DEF Added
  <2>3. QED
    BY <2>1, <1>1, <1>5, <2>2 DEF ScannerTables, Since, TableSet, Migrated
<1>6. QED
  BY <1>4, <1>5

LEMMA IntakeScript ==
  LET m == Migrations["event_intake"] IN
  /\ DOMAIN m = 1..3
  /\ DOMAIN m[1] = 1..2
  /\ m[1][1] = CreateOnce("event_intake_settings", IntakeSettings(1))
  /\ m[1][2] = CreateOnce("event_intake_tickets", IntakeTickets(1))
  /\ DOMAIN m[2] = 1..2
  /\ m[2][1] = AddColumns("event_intake_settings",
      {"agitprop_channel_id", "agitprop_roles_json"})
  /\ m[2][2] = AddColumns("event_intake_tickets",
      {"flyer_status", "flyer_request_message_id", "flyer_image_channel_id",
   "flyer_image_message_id", "flyer_notes"})
  /\ DOMAIN m[3] = 1..1
  /\ m[3][1] = AddColumns("event_intake_settings", {"moderation_roles_json"})
BY DEF Migrations, IntakeMigrations, IntakeSettings, IntakeTickets, Since

LEMMA IntakeMigrates ==
  ASSUME NEW d, Good(d), NEW n \in 1..3, IntakeTables(n - 1, d.tables),
         NEW q, q = Execute(d, Migrations["event_intake"][n])
  PROVE  Migrated(q, d, {}) /\ IntakeTables(n, q.d.tables)
<1> DEFINE m == Migrations["event_intake"][n]
           r0 == Begun(d)
           r1 == Step(m[1], r0)
           r2 == Step(m[2], r1)
<1>1. Fine(r0) /\ r0.d = d
  BY BegunFine
<1>2. DOMAIN m = 1..1 => q = r1
  BY ExecuteFew
<1>3. DOMAIN m = 1..2 => q = r2
  BY ExecuteFew
<1> HIDE DEF m, r0
<1>4. CASE n = 1
  <2>1. /\ q = r2
        /\ m[1] = CreateOnce("event_intake_settings", IntakeSettings(1))
        /\ m[2] = CreateOnce("event_intake_tickets", IntakeTickets(1))
    BY <1>3, <1>4, IntakeScript DEF m
  <2> HIDE DEF r1, r2
  <2>2. TableSet(r0, r1, "event_intake_settings", IntakeSettings(1)) /\ r1.d.rows = r0.d.rows
    <3>1. "event_intake_settings" \notin DOMAIN r0.d.tables /\ Fine(r0)
      BY <1>1, <1>4 DEF IntakeTables, Since, TableSet
    <3>2. QED
      BY <2>1, <3>1, CreateStep DEF r1
  <2>3. TableSet(r1, r2, "event_intake_tickets", IntakeTickets(1)) /\ r2.d.rows = r1.d.rows
    <3>1. "event_intake_tickets" \notin DOMAIN r1.d.tables /\ Fine(r1)
      BY <1>1, <1>4, <2>2 DEF IntakeTables, Since, TableSet
    <3>2. QED
      BY <2>1, <3>1, CreateStep DEF r2
  <2>4. QED
    BY <2>1, <1>1, <1>4, <2>2, <2>3 DEF IntakeTables, Since, TableSet, Migrated
<1>5. CASE n = 2
  <2> DEFINE c1 == {"agitprop_channel_id", "agitprop_roles_json"}
             c2 == {"flyer_status", "flyer_request_message_id", "flyer_image_channel_id",
   "flyer_image_message_id", "flyer_notes"}
  <2>1. /\ q = r2
        /\ m[1] = AddColumns("event_intake_settings", c1)
        /\ m[2] = AddColumns("event_intake_tickets", c2)
    BY <1>3, <1>5, IntakeScript DEF m
  <2> HIDE DEF r1, r2, c1, c2
  <2>2. TableSet(r0, r1, "event_intake_settings", IntakeSettings(2)) /\ r1.d.rows = r0.d.rows
    <3>1. c1 \cap IntakeSettings(1) = {} /\ IntakeSettings(1) \cup c1 = IntakeSettings(2)
      BY DEF IntakeSettings, Since, c1
    <3>2. /\ r0.d.tables["event_intake_settings"] = IntakeSettings(1)
          /\ "event_intake_settings" \in DOMAIN r0.d.tables /\ Fine(r0)
      BY <1>1, <1>5 DEF IntakeTables, Since, TableSet
    <3>3. CanAdd(r0, "event_intake_settings", c1)
      BY <3>1, <3>2 DEF CanAdd
    <3>4. r1 = Step(AddColumns("event_intake_settings", c1), r0)
      BY <2>1 DEF r1
    <3>5. Added(r0, r1, "event_intake_settings", c1)
      BY <3>3, <3>4, AddStep
    <3>6. QED
      BY <3>1, <3>2, <3>5 DEF Added
  <2>3. TableSet(r1, r2, "event_intake_tickets", IntakeTickets(2)) /\ r2.d.rows = r1.d.rows
    <3>1. c2 \cap IntakeTickets(1) = {} /\ IntakeTickets(1) \cup c2 = IntakeTickets(2)
      BY DEF IntakeTickets, Since, c2
    <3>2. /\ r1.d.tables["event_intake_tickets"] = IntakeTickets(1)
          /\ "event_intake_tickets" \in DOMAIN r1.d.tables /\ Fine(r1)
      BY <1>1, <1>5, <2>2 DEF IntakeTables, Since, TableSet
    <3>3. CanAdd(r1, "event_intake_tickets", c2)
      BY <3>1, <3>2 DEF CanAdd
    <3>4. r2 = Step(AddColumns("event_intake_tickets", c2), r1)
      BY <2>1 DEF r2
    <3>5. Added(r1, r2, "event_intake_tickets", c2)
      BY <3>3, <3>4, AddStep
    <3>6. QED
      BY <3>1, <3>2, <3>5 DEF Added
  <2>4. QED
    BY <2>1, <1>1, <1>5, <2>2, <2>3 DEF IntakeTables, Since, TableSet, Migrated
<1>6. CASE n = 3
  <2> DEFINE c1 == {"moderation_roles_json"}
  <2>1. /\ q = r1
        /\ m[1] = AddColumns("event_intake_settings", c1)
    BY <1>2, <1>6, IntakeScript DEF m
  <2> HIDE DEF r1, r2, c1
  <2>2. TableSet(r0, r1, "event_intake_settings", IntakeSettings(3)) /\ r1.d.rows = r0.d.rows
    <3>1. c1 \cap IntakeSettings(2) = {} /\ IntakeSettings(2) \cup c1 = IntakeSettings(3)
      BY DEF IntakeSettings, Since, c1
    <3>2. /\ r0.d.tables["event_intake_settings"] = IntakeSettings(2)
          /\ "event_intake_settings" \in DOMAIN r0.d.tables /\ Fine(r0)
      BY <1>1, <1>6 DEF IntakeTables, Since, TableSet
    <3>3. CanAdd(r0, "event_intake_settings", c1)
      BY <3>1, <3>2 DEF CanAdd
    <3>4. r1 = Step(AddColumns("event_intake_settings", c1), r0)
      BY <2>1 DEF r1
    <3>5. Added(r0, r1, "event_intake_settings", c1)
      BY <3>3, <3>4, AddStep
    <3>6. QED
      BY <3>1, <3>2, <3>5 DEF Added
  <2>3. IntakeTickets(3) = IntakeTickets(2)
    BY DEF IntakeTickets, Since
  <2>4. QED
    BY <2>1, <1>1, <1>6, <2>2, <2>3 DEF IntakeTables, Since, TableSet, Migrated
<1>7. QED
  BY <1>4, <1>5, <1>6

LEMMA WorkScript ==
  LET m == Migrations["workshop"] IN
  /\ DOMAIN m = 1..3
  /\ DOMAIN m[1] = 1..2
  /\ m[1][1] = CreateOnce("workshop_settings", {"welcome_channel_id"})
  /\ m[1][2] = CreateOnce("workshop_sessions", WorkSessions(1))
  /\ DOMAIN m[2] = 1..2
  /\ m[2][1] = AddColumns("workshop_sessions", {"summary", "summary_covers_until"})
  /\ m[2][2] = CreateOnce("workshop_files", WorkFiles(2))
  /\ DOMAIN m[3] = 1..1
  /\ m[3][1] = AddColumns("workshop_files", {"storage_key"})
BY DEF Migrations, WorkshopMigrations, WorkSessions, WorkFiles, Since

LEMMA WorkMigrates ==
  ASSUME NEW d, Good(d), NEW n \in 1..3, WorkTables(n - 1, d.tables),
         NEW q, q = Execute(d, Migrations["workshop"][n])
  PROVE  Migrated(q, d, {}) /\ WorkTables(n, q.d.tables)
<1> DEFINE m == Migrations["workshop"][n]
           r0 == Begun(d)
           r1 == Step(m[1], r0)
           r2 == Step(m[2], r1)
<1>1. Fine(r0) /\ r0.d = d
  BY BegunFine
<1>2. DOMAIN m = 1..1 => q = r1
  BY ExecuteFew
<1>3. DOMAIN m = 1..2 => q = r2
  BY ExecuteFew
<1> HIDE DEF m, r0
<1>4. CASE n = 1
  <2>1. /\ q = r2
        /\ m[1] = CreateOnce("workshop_settings", {"welcome_channel_id"})
        /\ m[2] = CreateOnce("workshop_sessions", WorkSessions(1))
    BY <1>3, <1>4, WorkScript DEF m
  <2> HIDE DEF r1, r2
  <2>2. TableSet(r0, r1, "workshop_settings", {"welcome_channel_id"}) /\ r1.d.rows = r0.d.rows
    <3>1. "workshop_settings" \notin DOMAIN r0.d.tables /\ Fine(r0)
      BY <1>1, <1>4 DEF WorkTables, Since, TableSet
    <3>2. QED
      BY <2>1, <3>1, CreateStep DEF r1
  <2>3. TableSet(r1, r2, "workshop_sessions", WorkSessions(1)) /\ r2.d.rows = r1.d.rows
    <3>1. "workshop_sessions" \notin DOMAIN r1.d.tables /\ Fine(r1)
      BY <1>1, <1>4, <2>2 DEF WorkTables, Since, TableSet
    <3>2. QED
      BY <2>1, <3>1, CreateStep DEF r2
  <2>4. QED
    BY <2>1, <1>1, <1>4, <2>2, <2>3 DEF WorkTables, Since, TableSet, Migrated
<1>5. CASE n = 2
  <2> DEFINE c1 == {"summary", "summary_covers_until"}
  <2>1. /\ q = r2
        /\ m[1] = AddColumns("workshop_sessions", c1)
        /\ m[2] = CreateOnce("workshop_files", WorkFiles(2))
    BY <1>3, <1>5, WorkScript DEF m
  <2> HIDE DEF r1, r2, c1
  <2>2. TableSet(r0, r1, "workshop_sessions", WorkSessions(2)) /\ r1.d.rows = r0.d.rows
    <3>1. c1 \cap WorkSessions(1) = {} /\ WorkSessions(1) \cup c1 = WorkSessions(2)
      BY DEF WorkSessions, Since, c1
    <3>2. /\ r0.d.tables["workshop_sessions"] = WorkSessions(1)
          /\ "workshop_sessions" \in DOMAIN r0.d.tables /\ Fine(r0)
      BY <1>1, <1>5 DEF WorkTables, Since, TableSet
    <3>3. CanAdd(r0, "workshop_sessions", c1)
      BY <3>1, <3>2 DEF CanAdd
    <3>4. r1 = Step(AddColumns("workshop_sessions", c1), r0)
      BY <2>1 DEF r1
    <3>5. Added(r0, r1, "workshop_sessions", c1)
      BY <3>3, <3>4, AddStep
    <3>6. QED
      BY <3>1, <3>2, <3>5 DEF Added
  <2>3. TableSet(r1, r2, "workshop_files", WorkFiles(2)) /\ r2.d.rows = r1.d.rows
    <3>1. "workshop_files" \notin DOMAIN r1.d.tables /\ Fine(r1)
      BY <1>1, <1>5, <2>2 DEF WorkTables, Since, TableSet
    <3>2. QED
      BY <2>1, <3>1, CreateStep DEF r2
  <2>4. QED
    BY <2>1, <1>1, <1>5, <2>2, <2>3 DEF WorkTables, Since, TableSet, Migrated
<1>6. CASE n = 3
  <2> DEFINE c1 == {"storage_key"}
  <2>1. /\ q = r1
        /\ m[1] = AddColumns("workshop_files", c1)
    BY <1>2, <1>6, WorkScript DEF m
  <2> HIDE DEF r1, r2, c1
  <2>2. TableSet(r0, r1, "workshop_files", WorkFiles(3)) /\ r1.d.rows = r0.d.rows
    <3>1. c1 \cap WorkFiles(2) = {} /\ WorkFiles(2) \cup c1 = WorkFiles(3)
      BY DEF WorkFiles, Since, c1
    <3>2. /\ r0.d.tables["workshop_files"] = WorkFiles(2)
          /\ "workshop_files" \in DOMAIN r0.d.tables /\ Fine(r0)
      BY <1>1, <1>6 DEF WorkTables, Since, TableSet
    <3>3. CanAdd(r0, "workshop_files", c1)
      BY <3>1, <3>2 DEF CanAdd
    <3>4. r1 = Step(AddColumns("workshop_files", c1), r0)
      BY <2>1 DEF r1
    <3>5. Added(r0, r1, "workshop_files", c1)
      BY <3>3, <3>4, AddStep
    <3>6. QED
      BY <3>1, <3>2, <3>5 DEF Added
  <2>3. WorkSessions(3) = WorkSessions(2)
    BY DEF WorkSessions, Since
  <2>4. QED
    BY <2>1, <1>1, <1>6, <2>2, <2>3 DEF WorkTables, Since, TableSet, Migrated
<1>7. QED
  BY <1>4, <1>5, <1>6

LEMMA VoiceScript ==
  LET m == Migrations["minutas"] IN
  /\ DOMAIN m = 1..3
  /\ DOMAIN m[1] = 1..2
  /\ m[1][1] = CreateOnce("minutas_settings", {"output_channel_id"})
  /\ m[1][2] = CreateOnce("minutas_sessions", VoiceSessions(1))
  /\ DOMAIN m[2] = 1..1
  /\ m[2][1] = AddColumns("minutas_sessions", {"transcribe_after"})
  /\ DOMAIN m[3] = 1..3
  /\ m[3][1] = AddColumns("minutas_sessions", {"output_channel_id"})
  /\ m[3][2] = AddColumns("minutas_sessions", {"agenda"})
  /\ m[3][3] = AddColumns("minutas_sessions", {"max_duration_minutes"})
BY DEF Migrations, MinutasMigrations, VoiceSessions, Since

LEMMA VoiceMigrates ==
  ASSUME NEW d, Good(d), NEW n \in 1..3, VoiceTables(n - 1, d.tables),
         NEW q, q = Execute(d, Migrations["minutas"][n])
  PROVE  Migrated(q, d, {}) /\ VoiceTables(n, q.d.tables)
<1> DEFINE m == Migrations["minutas"][n]
           r0 == Begun(d)
           r1 == Step(m[1], r0)
           r2 == Step(m[2], r1)
           r3 == Step(m[3], r2)
<1>1. Fine(r0) /\ r0.d = d
  BY BegunFine
<1>2. DOMAIN m = 1..1 => q = r1
  BY ExecuteFew
<1>3. DOMAIN m = 1..2 => q = r2
  BY ExecuteFew
<1>4. DOMAIN m = 1..3 => q = r3
  BY ExecuteFew
<1> HIDE DEF m, r0
<1>5. CASE n = 1
  <2>1. /\ q = r2
        /\ m[1] = CreateOnce("minutas_settings", {"output_channel_id"})
        /\ m[2] = CreateOnce("minutas_sessions", VoiceSessions(1))
    BY <1>3, <1>5, VoiceScript DEF m
  <2> HIDE DEF r1, r2, r3
  <2>2. TableSet(r0, r1, "minutas_settings", {"output_channel_id"}) /\ r1.d.rows = r0.d.rows
    <3>1. "minutas_settings" \notin DOMAIN r0.d.tables /\ Fine(r0)
      BY <1>1, <1>5 DEF VoiceTables, Since, TableSet
    <3>2. QED
      BY <2>1, <3>1, CreateStep DEF r1
  <2>3. TableSet(r1, r2, "minutas_sessions", VoiceSessions(1)) /\ r2.d.rows = r1.d.rows
    <3>1. "minutas_sessions" \notin DOMAIN r1.d.tables /\ Fine(r1)
      BY <1>1, <1>5, <2>2 DEF VoiceTables, Since, TableSet
    <3>2. QED
      BY <2>1, <3>1, CreateStep DEF r2
  <2>4. QED
    BY <2>1, <1>1, <1>5, <2>2, <2>3 DEF VoiceTables, Since, TableSet, Migrated
<1>6. CASE n = 2
  <2> DEFINE c1 == {"transcribe_after"}
  <2>1. /\ q = r1
        /\ m[1] = AddColumns("minutas_sessions", c1)
    BY <1>2, <1>6, VoiceScript DEF m
  <2> HIDE DEF r1, r2, r3, c1
  <2>2. TableSet(r0, r1, "minutas_sessions", VoiceSessions(2)) /\ r1.d.rows = r0.d.rows
    <3>1. c1 \cap VoiceSessions(1) = {} /\ VoiceSessions(1) \cup c1 = VoiceSessions(2)
      BY DEF VoiceSessions, Since, c1
    <3>2. /\ r0.d.tables["minutas_sessions"] = VoiceSessions(1)
          /\ "minutas_sessions" \in DOMAIN r0.d.tables /\ Fine(r0)
      BY <1>1, <1>6 DEF VoiceTables, Since, TableSet
    <3>3. CanAdd(r0, "minutas_sessions", c1)
      BY <3>1, <3>2 DEF CanAdd
    <3>4. r1 = Step(AddColumns("minutas_sessions", c1), r0)
      BY <2>1 DEF r1
    <3>5. Added(r0, r1, "minutas_sessions", c1)
      BY <3>3, <3>4, AddStep
    <3>6. QED
      BY <3>1, <3>2, <3>5 DEF Added
  <2>3. QED
    BY <2>1, <1>1, <1>6, <2>2 DEF VoiceTables, Since, TableSet, Migrated
<1>7. CASE n = 3
  <2> DEFINE c1 == {"output_channel_id"}
             c2 == {"agenda"}
             c3 == {"max_duration_minutes"}
  <2>1. /\ q = r3
        /\ m[1] = AddColumns("minutas_sessions", c1)
        /\ m[2] = AddColumns("minutas_sessions", c2)
        /\ m[3] = AddColumns("minutas_sessions", c3)
    BY <1>4, <1>7, VoiceScript DEF m
  <2> HIDE DEF r1, r2, r3, c1, c2, c3
  <2>2. /\ TableSet(r0, r1, "minutas_sessions", (VoiceSessions(2) \cup c1))
        /\ r1.d.rows = r0.d.rows
    <3>1. c1 \cap VoiceSessions(2) = {} /\ VoiceSessions(2) \cup c1 = (VoiceSessions(2) \cup c1)
      BY DEF VoiceSessions, Since, c1
    <3>2. /\ r0.d.tables["minutas_sessions"] = VoiceSessions(2)
          /\ "minutas_sessions" \in DOMAIN r0.d.tables /\ Fine(r0)
      BY <1>1, <1>7 DEF VoiceTables, Since, TableSet
    <3>3. CanAdd(r0, "minutas_sessions", c1)
      BY <3>1, <3>2 DEF CanAdd
    <3>4. r1 = Step(AddColumns("minutas_sessions", c1), r0)
      BY <2>1 DEF r1
    <3>5. Added(r0, r1, "minutas_sessions", c1)
      BY <3>3, <3>4, AddStep
    <3>6. QED
      BY <3>1, <3>2, <3>5 DEF Added
  <2>3. /\ TableSet(r1, r2, "minutas_sessions", ((VoiceSessions(2) \cup c1) \cup c2))
        /\ r2.d.rows = r1.d.rows
    <3>1. /\ c2 \cap (VoiceSessions(2) \cup c1) = {}
          /\ (VoiceSessions(2) \cup c1) \cup c2 = ((VoiceSessions(2) \cup c1) \cup c2)
      BY DEF VoiceSessions, Since, c1, c2
    <3>2. /\ r1.d.tables["minutas_sessions"] = (VoiceSessions(2) \cup c1)
          /\ "minutas_sessions" \in DOMAIN r1.d.tables /\ Fine(r1)
      BY <1>1, <1>7, <2>2 DEF VoiceTables, Since, TableSet
    <3>3. CanAdd(r1, "minutas_sessions", c2)
      BY <3>1, <3>2 DEF CanAdd
    <3>4. r2 = Step(AddColumns("minutas_sessions", c2), r1)
      BY <2>1 DEF r2
    <3>5. Added(r1, r2, "minutas_sessions", c2)
      BY <3>3, <3>4, AddStep
    <3>6. QED
      BY <3>1, <3>2, <3>5 DEF Added
  <2>4. TableSet(r2, r3, "minutas_sessions", VoiceSessions(3)) /\ r3.d.rows = r2.d.rows
    <3>1. /\ c3 \cap ((VoiceSessions(2) \cup c1) \cup c2) = {}
          /\ ((VoiceSessions(2) \cup c1) \cup c2) \cup c3 = VoiceSessions(3)
      BY DEF VoiceSessions, Since, c1, c2, c3
    <3>2. /\ r2.d.tables["minutas_sessions"] = ((VoiceSessions(2) \cup c1) \cup c2)
          /\ "minutas_sessions" \in DOMAIN r2.d.tables /\ Fine(r2)
      BY <1>1, <1>7, <2>2, <2>3 DEF VoiceTables, Since, TableSet
    <3>3. CanAdd(r2, "minutas_sessions", c3)
      BY <3>1, <3>2 DEF CanAdd
    <3>4. r3 = Step(AddColumns("minutas_sessions", c3), r2)
      BY <2>1 DEF r3
    <3>5. Added(r2, r3, "minutas_sessions", c3)
      BY <3>3, <3>4, AddStep
    <3>6. QED
      BY <3>1, <3>2, <3>5 DEF Added
  <2>5. QED
    BY <2>1, <1>1, <1>7, <2>2, <2>3, <2>4 DEF VoiceTables, Since, TableSet, Migrated
<1>8. QED
  BY <1>5, <1>6, <1>7

LEMMA FrameScript ==
  LET m == Migrations["framework"] IN
  /\ DOMAIN m = 1..2
  /\ DOMAIN m[1] = 1..1
  /\ m[1][1] = CreateOnce("users", {"discord_user_id"})
  /\ DOMAIN m[2] = 1..2
  /\ m[2][1] = CreateTable("framework_moderation_settings", {"guild_id"})
  /\ m[2][2] = CreateTable("framework_moderation_trail", {"id", "channel_id"})
BY DEF Migrations, UsersMigrations, ModerationMigrations

LEMMA FrameMigrates ==
  ASSUME NEW d, Good(d), NEW n \in 1..2, FrameTables(n - 1, d.tables),
         NEW q, q = Execute(d, Migrations["framework"][n])
  PROVE  Migrated(q, d, {}) /\ FrameTables(n, q.d.tables)
<1> DEFINE m == Migrations["framework"][n]
           r0 == Begun(d)
           r1 == Step(m[1], r0)
           r2 == Step(m[2], r1)
<1>1. Fine(r0) /\ r0.d = d
  BY BegunFine
<1>2. DOMAIN m = 1..1 => q = r1
  BY ExecuteFew
<1>3. DOMAIN m = 1..2 => q = r2
  BY ExecuteFew
<1> HIDE DEF m, r0
<1>4. CASE n = 1
  <2>1. /\ q = r1
        /\ m[1] = CreateOnce("users", {"discord_user_id"})
    BY <1>2, <1>4, FrameScript DEF m
  <2> HIDE DEF r1, r2
  <2>2. TableSet(r0, r1, "users", {"discord_user_id"}) /\ r1.d.rows = r0.d.rows
    <3>1. "users" \notin DOMAIN r0.d.tables /\ Fine(r0)
      BY <1>1, <1>4 DEF FrameTables, Since, TableSet
    <3>2. QED
      BY <2>1, <3>1, CreateStep DEF r1
  <2>3. QED
    BY <2>1, <1>1, <1>4, <2>2 DEF FrameTables, Since, TableSet, Migrated
<1>5. CASE n = 2
  <2>1. /\ q = r2
        /\ m[1] = CreateTable("framework_moderation_settings", {"guild_id"})
        /\ m[2] = CreateTable("framework_moderation_trail", {"id", "channel_id"})
    BY <1>3, <1>5, FrameScript DEF m
  <2> HIDE DEF r1, r2
  <2>2. TableSet(r0, r1, "framework_moderation_settings", {"guild_id"}) /\ r1.d.rows = r0.d.rows
    <3>1. "framework_moderation_settings" \notin DOMAIN r0.d.tables /\ Fine(r0)
      BY <1>1, <1>5 DEF FrameTables, Since, TableSet
    <3>2. QED
      BY <2>1, <3>1, CreateStep DEF r1
  <2>3. /\ TableSet(r1, r2, "framework_moderation_trail", {"id", "channel_id"})
        /\ r2.d.rows = r1.d.rows
    <3>1. "framework_moderation_trail" \notin DOMAIN r1.d.tables /\ Fine(r1)
      BY <1>1, <1>5, <2>2 DEF FrameTables, Since, TableSet
    <3>2. QED
      BY <2>1, <3>1, CreateStep DEF r2
  <2>4. QED
    BY <2>1, <1>1, <1>5, <2>2, <2>3 DEF FrameTables, Since, TableSet, Migrated
<1>6. QED
  BY <1>4, <1>5

LEMMA ConfScript ==
  LET m == Migrations["configuration"] IN
  /\ DOMAIN m = 1..1
  /\ DOMAIN m[1] = 1..1
  /\ m[1][1] = CreateOnce("configuration_bindings", {"channel_id"})
BY DEF Migrations, ConfigurationMigrations

LEMMA ConfMigrates ==
  ASSUME NEW d, Good(d), NEW n \in 1..1, ConfTables(n - 1, d.tables),
         NEW q, q = Execute(d, Migrations["configuration"][n])
  PROVE  Migrated(q, d, {}) /\ ConfTables(n, q.d.tables)
<1> DEFINE m == Migrations["configuration"][n]
           r0 == Begun(d)
           r1 == Step(m[1], r0)
<1>1. Fine(r0) /\ r0.d = d
  BY BegunFine
<1>2. DOMAIN m = 1..1 => q = r1
  BY ExecuteFew
<1> HIDE DEF m, r0
<1>3. CASE n = 1
  <2>1. /\ q = r1
        /\ m[1] = CreateOnce("configuration_bindings", {"channel_id"})
    BY <1>2, <1>3, ConfScript DEF m
  <2> HIDE DEF r1
  <2>2. TableSet(r0, r1, "configuration_bindings", {"channel_id"}) /\ r1.d.rows = r0.d.rows
    <3>1. "configuration_bindings" \notin DOMAIN r0.d.tables /\ Fine(r0)
      BY <1>1, <1>3 DEF ConfTables, Since, TableSet
    <3>2. QED
      BY <2>1, <3>1, CreateStep DEF r1
  <2>3. QED
    BY <2>1, <1>1, <1>3, <2>2 DEF ConfTables, Since, TableSet, Migrated
<1>4. QED
  BY <1>3

-----------------------------------------------------------------------------
(* What each owner's migrations make of its tables.                        *)

TablesOf(o, n, T) ==
  CASE o = "calendar" -> CalTables(n, T)
    [] o = "instagram_monitor" -> InstaTables(n, T)
    [] o = "file_scanner" -> ScannerTables(n, T)
    [] o = "event_intake" -> IntakeTables(n, T)
    [] o = "workshop" -> WorkTables(n, T)
    [] o = "minutas" -> VoiceTables(n, T)
    [] o = "framework" -> FrameTables(n, T)
    [] OTHER -> ConfTables(n, T)
LostTo(o, n) == IF o = "calendar" THEN CalLost(n) ELSE {}
Owners == {"calendar", "instagram_monitor", "file_scanner", "event_intake", "workshop",
           "minutas", "framework", "configuration"}

LEMMA OwnersOfMigrations == DOMAIN Migrations = Owners
BY DEF Migrations, Owners

LEMMA MigrationsInAll ==
  /\ Len(Migrations["calendar"]) = 13 /\ Len(Migrations["instagram_monitor"]) = 11
  /\ Len(Migrations["file_scanner"]) = 2 /\ Len(Migrations["event_intake"]) = 3
  /\ Len(Migrations["workshop"]) = 3 /\ Len(Migrations["minutas"]) = 3
  /\ Len(Migrations["framework"]) = 2 /\ Len(Migrations["configuration"]) = 1
<1>1. Len(Migrations["calendar"]) = 13
  BY DEF Migrations, CalendarMigrations1, CalendarMigrations2
<1>2. Len(Migrations["instagram_monitor"]) = 11
  BY DEF Migrations, InstagramMigrations1, InstagramMigrations2
<1>3. Len(Migrations["file_scanner"]) = 2 /\ Len(Migrations["event_intake"]) = 3
  BY DEF Migrations, ScannerMigrations, IntakeMigrations
<1>4. Len(Migrations["workshop"]) = 3 /\ Len(Migrations["minutas"]) = 3
  BY DEF Migrations, WorkshopMigrations, MinutasMigrations
<1>5. Len(Migrations["framework"]) = 2 /\ Len(Migrations["configuration"]) = 1
  BY DEF Migrations, UsersMigrations, ModerationMigrations, ConfigurationMigrations
<1>6. QED
  BY <1>1, <1>2, <1>3, <1>4, <1>5

\* One migration, on the tables that the earlier ones left: it is accepted, makes
\* the next tables, and loses no row but those of the tables it means to empty.
LEMMA MigrationMeans ==
  ASSUME NEW o \in Owners, NEW n \in 1 .. Len(Migrations[o]),
         NEW d, Good(d), TablesOf(o, n - 1, d.tables),
         NEW q, q = Execute(d, Migrations[o][n])
  PROVE  Migrated(q, d, LostTo(o, n)) /\ TablesOf(o, n, q.d.tables)
<1>1. CASE o = "calendar"
  <2>1. n \in 1..13 /\ CalTables(n - 1, d.tables)
    BY <1>1, MigrationsInAll DEF TablesOf
  <2>2. Migrated(q, d, CalLost(n)) /\ CalTables(n, q.d.tables)
    BY <1>1, <2>1, CalMigrates
  <2>3. QED
    BY <1>1, <2>2 DEF TablesOf, LostTo
<1>2. CASE o = "instagram_monitor"
  <2>1. n \in 1..11 /\ InstaTables(n - 1, d.tables)
    BY <1>2, MigrationsInAll DEF TablesOf
  <2>2. Migrated(q, d, {}) /\ InstaTables(n, q.d.tables)
    BY <1>2, <2>1, InstaMigrates
  <2>3. QED
    BY <1>2, <2>2 DEF TablesOf, LostTo
<1>3. CASE o = "file_scanner"
  <2>1. n \in 1..2 /\ ScannerTables(n - 1, d.tables)
    BY <1>3, MigrationsInAll DEF TablesOf
  <2>2. Migrated(q, d, {}) /\ ScannerTables(n, q.d.tables)
    BY <1>3, <2>1, ScannerMigrates
  <2>3. QED
    BY <1>3, <2>2 DEF TablesOf, LostTo
<1>4. CASE o = "event_intake"
  <2>1. n \in 1..3 /\ IntakeTables(n - 1, d.tables)
    BY <1>4, MigrationsInAll DEF TablesOf
  <2>2. Migrated(q, d, {}) /\ IntakeTables(n, q.d.tables)
    BY <1>4, <2>1, IntakeMigrates
  <2>3. QED
    BY <1>4, <2>2 DEF TablesOf, LostTo
<1>5. CASE o = "workshop"
  <2>1. n \in 1..3 /\ WorkTables(n - 1, d.tables)
    BY <1>5, MigrationsInAll DEF TablesOf
  <2>2. Migrated(q, d, {}) /\ WorkTables(n, q.d.tables)
    BY <1>5, <2>1, WorkMigrates
  <2>3. QED
    BY <1>5, <2>2 DEF TablesOf, LostTo
<1>6. CASE o = "minutas"
  <2>1. n \in 1..3 /\ VoiceTables(n - 1, d.tables)
    BY <1>6, MigrationsInAll DEF TablesOf
  <2>2. Migrated(q, d, {}) /\ VoiceTables(n, q.d.tables)
    BY <1>6, <2>1, VoiceMigrates
  <2>3. QED
    BY <1>6, <2>2 DEF TablesOf, LostTo
<1>7. CASE o = "framework"
  <2>1. n \in 1..2 /\ FrameTables(n - 1, d.tables)
    BY <1>7, MigrationsInAll DEF TablesOf
  <2>2. Migrated(q, d, {}) /\ FrameTables(n, q.d.tables)
    BY <1>7, <2>1, FrameMigrates
  <2>3. QED
    BY <1>7, <2>2 DEF TablesOf, LostTo
<1>8. CASE o = "configuration"
  <2>1. n \in 1..1 /\ ConfTables(n - 1, d.tables)
    BY <1>8, MigrationsInAll DEF TablesOf
  <2>2. Migrated(q, d, {}) /\ ConfTables(n, q.d.tables)
    BY <1>8, <2>1, ConfMigrates
  <2>3. QED
    BY <1>8, <2>2 DEF TablesOf, LostTo
<1>9. QED
  BY <1>1, <1>2, <1>3, <1>4, <1>5, <1>6, <1>7, <1>8 DEF Owners

\* No tables before the first migration, no half-made copies after any.
LEMMA NoTablesBefore == ASSUME NEW o \in Owners PROVE TablesOf(o, 0, NoTables)
BY DEF TablesOf, CalTables, CalNames, InstaTables, InstaNames, ScannerTables, IntakeTables,
       WorkTables, VoiceTables, FrameTables, ConfTables, Since, NoTables

HalfMade == {"calendar_events_new", "calendar_events_global", "instagram_monitor_accounts_new"}
LEMMA NoHalfMade ==
  ASSUME NEW o \in Owners, NEW n \in Nat, NEW T, TablesOf(o, n, T)
  PROVE  DOMAIN T \cap HalfMade = {}
<1>1. CASE o = "calendar"
  BY <1>1 DEF TablesOf, CalTables, CalNames, Since, HalfMade
<1>2. CASE o = "instagram_monitor"
  BY <1>2 DEF TablesOf, InstaTables, InstaNames, Since, HalfMade
<1>3. CASE o \in {"file_scanner", "event_intake", "workshop"}
  BY <1>3 DEF TablesOf, ScannerTables, IntakeTables, WorkTables, Since, HalfMade
<1>4. CASE o \in {"minutas", "framework", "configuration"}
  BY <1>4 DEF TablesOf, VoiceTables, FrameTables, ConfTables, Since, HalfMade
<1>5. QED
  BY <1>1, <1>2, <1>3, <1>4 DEF Owners

\* After the last migration the tables are the ones the stores declare.
LEMMA TablesFit ==
  ASSUME NEW o \in Owners, o \in DOMAIN Rows, NEW T, TablesOf(o, Len(Migrations[o]), T),
         NEW t \in DOMAIN Rows[o]
  PROVE  t \in DOMAIN T /\ Rows[o][t] = T[t]
<1>1. CASE o = "calendar"
  <2>1. CalTables(13, T)
    BY <1>1, MigrationsInAll DEF TablesOf
  <2>2. /\ DOMAIN Rows[o] = {"calendar_events", "calendar_settings",
                             "calendar_announcement_drafts"}
        /\ Rows[o]["calendar_events"] = CalendarEvent
        /\ Rows[o]["calendar_settings"] = CalendarSettings
        /\ Rows[o]["calendar_announcement_drafts"] = AnnouncementDraft
    BY <1>1 DEF Rows
  <2>3. CalEvents(13) = CalendarEvent
    BY DEF CalEvents, CalendarEvent, EventFields, Since, Before
  <2>4. CalSettings(13) = CalendarSettings
    BY DEF CalSettings, CalendarSettings, Since
  <2>5. CalDrafts(13) = AnnouncementDraft
    BY DEF CalDrafts, AnnouncementDraft, Drafts, Since, Before
  <2>6. QED
    BY <2>1, <2>2, <2>3, <2>4, <2>5 DEF CalTables, CalNames, Since
<1>2. CASE o = "instagram_monitor"
  <2>1. InstaTables(11, T)
    BY <1>2, MigrationsInAll DEF TablesOf
  <2>2. /\ DOMAIN Rows[o] = {"instagram_monitor_accounts", "instagram_monitor_runtime"}
        /\ Rows[o]["instagram_monitor_accounts"] = MonitoredAccount
        /\ Rows[o]["instagram_monitor_runtime"] = RuntimeState
    BY <1>2 DEF Rows
  <2>3. InstaAccounts(11) = MonitoredAccount
    BY DEF InstaAccounts, MonitoredAccount, AccountFields, Since, Before
  <2>4. InstaRuntime(11) = RuntimeState
    BY DEF InstaRuntime, RuntimeState, Since
  <2>5. QED
    BY <2>1, <2>2, <2>3, <2>4 DEF InstaTables, InstaNames, Since
<1>3. CASE o = "event_intake"
  <2>1. IntakeTables(3, T)
    BY <1>3, MigrationsInAll DEF TablesOf
  <2>2. DOMAIN Rows[o] = {"event_intake_tickets"} /\ Rows[o]["event_intake_tickets"] = TicketRow
    BY <1>3 DEF Rows
  <2>3. IntakeTickets(3) = TicketRow
    BY DEF IntakeTickets, TicketRow, Since
  <2>4. QED
    BY <2>1, <2>2, <2>3 DEF IntakeTables, Since
<1>4. CASE o = "workshop"
  <2>1. WorkTables(3, T)
    BY <1>4, MigrationsInAll DEF TablesOf
  <2>2. /\ DOMAIN Rows[o] = {"workshop_sessions", "workshop_files"}
        /\ Rows[o]["workshop_sessions"] = WorkshopSession
        /\ Rows[o]["workshop_files"] = WorkshopFileRecord
    BY <1>4 DEF Rows
  <2>3. WorkSessions(3) = WorkshopSession
    BY DEF WorkSessions, WorkshopSession, Since
  <2>4. WorkFiles(3) = WorkshopFileRecord
    BY DEF WorkFiles, WorkshopFileRecord, Since
  <2>5. QED
    BY <2>1, <2>2, <2>3, <2>4 DEF WorkTables, Since
<1>5. CASE o = "minutas"
  <2>1. VoiceTables(3, T)
    BY <1>5, MigrationsInAll DEF TablesOf
  <2>2. DOMAIN Rows[o] = {"minutas_sessions"} /\ Rows[o]["minutas_sessions"] = MinutasSessionRow
    BY <1>5 DEF Rows
  <2>3. VoiceSessions(3) = MinutasSessionRow
    BY DEF VoiceSessions, MinutasSessionRow, Since
  <2>4. QED
    BY <2>1, <2>2, <2>3 DEF VoiceTables, Since
<1>6. o \in {"calendar", "instagram_monitor", "event_intake", "workshop", "minutas"}
  BY DEF Rows
<1>7. QED
  BY <1>1, <1>2, <1>3, <1>4, <1>5, <1>6

-----------------------------------------------------------------------------
(* The tables come out of every update whole.                              *)

\* The migrations ran in order and up to some version: all of them, once the owner
\* runs.  The tables are those of that version, and no row is of a later one.
Ran(n) ==
  /\ applied = 1..n /\ TablesOf(whose, n, db.tables)
  /\ boot = "running" => n = code
  /\ \A r \in written : r[2] \in 0..n
SchemaInv ==
  /\ whose \in Owners /\ code \in 0..Known
  /\ boot \in {"off", "migrating", "skipped", "running"}
  /\ Good(db) /\ RowsKept
  /\ \E n \in 0..code : Ran(n)

LEMMA SchemaInitInv == SchemaInit => SchemaInv
<1> SUFFICES ASSUME SchemaInit PROVE SchemaInv
  OBVIOUS
<1>1. whose \in Owners /\ Known \in Nat
  BY OwnersOfMigrations, MigrationsInAll DEF SchemaInit, Known, Owners
<1>2. Good(db)
  BY DEF SchemaInit, Good, IsDb, Tidy
<1>3. Ran(0)
  BY <1>1, NoTablesBefore DEF SchemaInit, Ran
<1>4. QED
  BY <1>1, <1>2, <1>3 DEF SchemaInit, SchemaInv, RowsKept

\* The transaction runs the version after the last that ran.
LEMMA LowestIsNext ==
  ASSUME NEW n \in 0..code, code \in Nat, applied = 1..n, Pending # {}
  PROVE  Lowest = n + 1 /\ n + 1 \in 1..code
<1>1. Pending = (n + 1)..code
  BY DEF Pending
<1>2. n + 1 \in Pending /\ \A w \in Pending : n + 1 <= w
  BY <1>1
<1>3. Lowest \in Pending /\ \A w \in Pending : Lowest <= w
  BY <1>2 DEF Lowest
<1>4. QED
  BY <1>1, <1>2, <1>3

LEMMA RunMigrationInv ==
  ASSUME SchemaInv, RunMigration PROVE SchemaInv'
<1>1. PICK n \in 0..code : Ran(n)
  BY DEF SchemaInv
<1> DEFINE v == n + 1
           q == Execute(db, Migrations[whose][v])
<1>2. Lowest = v /\ v = n + 1 /\ v \in 1..code /\ v \in 1..Len(Migrations[whose])
      /\ n \in Nat
  <2>1. Len(Migrations[whose]) \in Nat
    BY MigrationsInAll DEF SchemaInv, Owners
  <2>2. code \in Nat /\ code \in 0..Len(Migrations[whose]) /\ applied = 1..n /\ Pending # {}
    BY <1>1, <2>1 DEF SchemaInv, Known, Ran, RunMigration
  <2>3. QED
    BY <2>1, <2>2, LowestIsNext
<1>3. q = Execute(db, Migrations[whose][v])
  OBVIOUS
<1>4. /\ boot = "migrating" /\ whose' = whose /\ code' = code /\ written' = written
      /\ db' = (IF q.ok THEN q.d ELSE db)
      /\ applied' = (IF q.ok THEN applied \cup {v} ELSE applied)
      /\ boot' = (IF q.ok THEN boot ELSE "failed")
  BY <1>2 DEF RunMigration
<1> HIDE DEF q
<1>5. Migrated(q, db, LostTo(whose, v)) /\ TablesOf(whose, v, q.d.tables)
  <2>1. v - 1 = n /\ TablesOf(whose, v - 1, db.tables) /\ Good(db) /\ whose \in Owners
    BY <1>1, <1>2 DEF SchemaInv, Ran
  <2>2. QED
    BY <1>2, <1>3, <2>1, MigrationMeans
<1>6. q.ok = TRUE /\ Good(q.d)
  BY <1>5 DEF Migrated, Fine, Good
<1>7. db' = q.d /\ boot' = "migrating" /\ applied' = 1..v
  <2>1. applied = 1..n /\ 1..n \cup {v} = 1..v
    BY <1>1, <1>2 DEF Ran
  <2>2. QED
    BY <1>4, <1>6, <2>1
<1> HIDE DEF v
<1>8. RowsKept'
  <2> SUFFICES ASSUME NEW r \in written, r \notin q.d.rows
               PROVE  \E w \in 1..v : MeantToGo(r, w)
    BY <1>4, <1>7 DEF RowsKept, MeantToGo
  <2>1. CASE r \notin db.rows
    <3>1. PICK w \in 1..n : MeantToGo(r, w)
      BY <1>1, <2>1 DEF SchemaInv, RowsKept, Ran
    <3>2. QED
      BY <1>2, <3>1
  <2>2. CASE r \in db.rows
    <3>1. r[1] \in LostTo(whose, v)
      BY <1>5, <2>2 DEF Migrated
    <3>2. r[2] \in 0..n
      BY <1>1 DEF Ran
    <3>3. \/ v = 3 /\ r[1] = "calendar_events"
          \/ v = 10 /\ r[1] = "calendar_announcement_drafts"
      BY <3>1 DEF LostTo, CalLost
    <3>4. MeantToGo(r, v)
      BY <1>2, <3>2, <3>3 DEF MeantToGo
    <3>5. QED
      BY <1>2, <3>4
  <2>3. QED
    BY <2>1, <2>2
<1>9. Ran(v)'
  <2>1. \A r \in written : r[2] \in 0..v
    BY <1>1, <1>2 DEF Ran
  <2>2. QED
    BY <1>2, <1>4, <1>5, <1>7, <2>1 DEF Ran
<1>10. QED
  BY <1>2, <1>4, <1>6, <1>7, <1>8, <1>9 DEF SchemaInv, Known

LEMMA WriteRowInv ==
  ASSUME SchemaInv, NEW t \in DOMAIN db.tables, WriteRow(t) PROVE SchemaInv'
<1>1. PICK n \in 0..code : Ran(n)
  BY DEF SchemaInv
<1>2. /\ boot = "running" /\ whose' = whose /\ code' = code /\ boot' = boot
      /\ applied' = applied /\ written' = written \cup {<<t, code>>}
      /\ db' = [db EXCEPT !.rows = @ \cup {<<t, code>>}]
  BY DEF WriteRow, theProcess
<1>3. db' = [tables |-> db.tables, rows |-> db.rows \cup {<<t, code>>}]
  BY <1>2 DEF SchemaInv, Good, IsDb
<1>4. Good(db)'
  BY <1>3 DEF SchemaInv, Good, IsDb, Tidy
<1>5. RowsKept'
  BY <1>2, <1>3 DEF SchemaInv, RowsKept, MeantToGo
<1>6. Ran(n)'
  BY <1>1, <1>2, <1>3 DEF Ran
<1>7. QED
  BY <1>2, <1>4, <1>5, <1>6 DEF SchemaInv, Known

LEMMA SchemaStepInv == SchemaInv /\ [SchemaNext]_schemaVars => SchemaInv'
<1> SUFFICES ASSUME SchemaInv, [SchemaNext]_schemaVars PROVE SchemaInv'
  OBVIOUS
<1>0. PICK n \in 0..code : Ran(n)
  BY DEF SchemaInv
<1>1. ASSUME NEW v \in 1..Known, BootRelease(v) PROVE SchemaInv'
  <2>1. /\ v \in (code..Known) \ {0} /\ code' = v /\ boot' = "migrating" /\ whose' = whose
        /\ db' = db /\ applied' = applied /\ written' = written
    BY <1>1 DEF BootRelease, theDatabase
  <2>2. Known \in Nat
    BY MigrationsInAll DEF Known, SchemaInv, Owners
  <2>3. n \in 0..code' /\ Ran(n)'
    BY <1>0, <2>1, <2>2 DEF SchemaInv, Ran
  <2>4. QED
    BY <2>1, <2>2, <2>3 DEF SchemaInv, Known, Good, IsDb, Tidy, RowsKept, MeantToGo
<1>2. ASSUME RunMigration PROVE SchemaInv'
  BY <1>2, RunMigrationInv
<1>3. ASSUME InitEnds PROVE SchemaInv'
  <2>1. /\ code' = code /\ boot' \in {"running", "skipped"} /\ whose' = whose
        /\ db' = db /\ applied' = applied /\ written' = written /\ Pending = {}
    BY <1>3 DEF InitEnds, theDatabase
  <2>2. n = code
    <3>1. Pending = (n + 1)..code /\ code \in Nat
      BY <1>0, MigrationsInAll DEF Pending, Ran, SchemaInv, Known, Owners
    <3>2. QED
      BY <2>1, <3>1
  <2>3. Ran(n)'
    BY <1>0, <2>1, <2>2 DEF Ran
  <2>4. QED
    BY <2>1, <2>3 DEF SchemaInv, Known, Good, IsDb, Tidy, RowsKept, MeantToGo
<1>4. ASSUME ProcessEnds PROVE SchemaInv'
  <2>1. /\ code' = code /\ boot' = "off" /\ whose' = whose
        /\ db' = db /\ applied' = applied /\ written' = written
    BY <1>4 DEF ProcessEnds, theDatabase
  <2>2. Ran(n)'
    BY <1>0, <2>1 DEF Ran
  <2>3. QED
    BY <2>1, <2>2 DEF SchemaInv, Known, Good, IsDb, Tidy, RowsKept, MeantToGo
<1>5. ASSUME NEW t \in DOMAIN db.tables, WriteRow(t) PROVE SchemaInv'
  BY <1>5, WriteRowInv
<1>6. CASE UNCHANGED schemaVars
  <2>1. UNCHANGED <<whose, code, boot, db, applied, written>>
    BY <1>6 DEF schemaVars, theProcess, theDatabase
  <2>2. Ran(n)'
    BY <1>0, <2>1 DEF Ran
  <2>3. QED
    BY <2>1, <2>2 DEF SchemaInv, Known, Good, IsDb, Tidy, RowsKept, MeantToGo
<1>7. QED
  BY <1>1, <1>2, <1>3, <1>4, <1>5, <1>6 DEF SchemaNext

LEMMA SchemaInvWhole == SchemaInv => SchemaWhole
<1> SUFFICES ASSUME SchemaInv PROVE SchemaWhole
  OBVIOUS
<1>1. PICK n \in 0..code : Ran(n)
  BY DEF SchemaInv
<1>2. whose \in Owners /\ code \in Nat /\ n \in Nat
  BY MigrationsInAll DEF SchemaInv, Known, Owners
<1>3. NeverRefused
  BY DEF SchemaInv, NeverRefused
<1>4. NoLeftovers
  <2>1. DOMAIN db.tables \cap HalfMade = {}
    BY <1>1, <1>2, NoHalfMade DEF Ran
  <2>2. QED
    BY <2>1 DEF NoLeftovers, HalfMade
<1>5. RowsFit
  <2> SUFFICES ASSUME boot = "running", code = Known, whose \in DOMAIN Rows,
                      NEW t \in DOMAIN Rows[whose]
               PROVE  Has(db, t) /\ Rows[whose][t] = db.tables[t]
    BY DEF RowsFit
  <2>1. TablesOf(whose, Len(Migrations[whose]), db.tables)
    BY <1>1 DEF Ran, Known
  <2>2. QED
    BY <1>2, <2>1, TablesFit DEF Has
<1>6. QED
  BY <1>3, <1>4, <1>5 DEF SchemaWhole, SchemaInv

\* Whichever releases ran before and wherever the process died between two
\* transactions (src/memory/migrations.ts): no migration of any store is refused,
\* the newest tables have the columns that their rows declare, no half-made copy
\* stays behind, and no row is lost but those a migration means to drop.
THEOREM TablesComeWhole == SchemaSpec => []SchemaWhole
<1>1. SchemaInv /\ [SchemaNext]_schemaVars => SchemaInv'
  BY SchemaStepInv
<1>2. SchemaSpec => []SchemaInv
  BY SchemaInitInv, <1>1, PTL DEF SchemaSpec
<1>3. QED
  BY SchemaInvWhole, <1>2, PTL
=============================================================================
