------------------------------- MODULE MCTurns -------------------------------
(* The turns of a session, what a turn shows in its channel, what the        *)
(* operators hear of the process and of the model's outages, the board of    *)
(* the months, the recordings of a guild and a ticket that asks for an       *)
(* event: they share no state, and a behaviour of this run is one of theirs. *)
(* Turns: three messages in one session, whose backlog overflows when two    *)
(* are on the books. Process: three boots, with windows that end within the  *)
(* clock. Presentation: three changes of progress, a reply of up to two      *)
(* chunks, two requests that fail. Board: three months, the second with a    *)
(* template; the first channel that is chosen is o1. Recordings: two joins   *)
(* and a restart or two. Ticket: two handlers, two flyers, two events.       *)
EXTENDS WorkshopTurns, ProcessWatch, TurnPresentation, MonthBoard, MinutasSessions,
        EventIntake

CONSTANTS a1, a2, a3, a, j1, j2, k1, k2, e1, e2

MCMessages == {a1, a2, a3}
MCChannels == {a}
MCChannelOf == [m \in MCMessages |-> a]

\* Messages, joins, cards and events are interchangeable: they come in the order of
\* their names.
InOrder == /\ step[a2] # "none" => step[a1] # "none"
           /\ step[a3] # "none" => step[a2] # "none"
JoinsInOrder == work[j2] # "none" => work[j1] # "none"
TicketInOrder == /\ shows[k2] # "none" => shows[k1] # "none"
                 /\ calendar[e2].state # "unborn" => calendar[e1].state # "unborn"

VARIABLE part

MCInit ==
  /\ part \in {"turns", "process", "presentation", "board", "recordings", "ticket"}
  /\ WorkshopInit /\ WatchInit /\ PresenterInit /\ BoardInit /\ SessionsInit /\ IntakeInit
  /\ part # "presentation" => style = "line"
  /\ month = IF part = "board" THEN 1 ELSE 2

turnParts == <<workshopVars, watchVars, presenterVars>>
otherParts == <<boardVars, sessionVars, intakeVars>>
MCNext ==
  /\ \/ part = "turns" /\ WorkshopNext /\ InOrder'
        /\ UNCHANGED <<watchVars, presenterVars, otherParts>>
     \/ part = "process" /\ WatchNext /\ UNCHANGED <<workshopVars, presenterVars, otherParts>>
     \/ part = "presentation" /\ PresenterNext
        /\ UNCHANGED <<workshopVars, watchVars, otherParts>>
     \/ part = "board" /\ BoardNext /\ (outlet # NoOutlet \/ outlet' # "o2")
        /\ UNCHANGED <<turnParts, sessionVars, intakeVars>>
     \/ part = "recordings" /\ SessionsNext /\ JoinsInOrder'
        /\ UNCHANGED <<turnParts, boardVars, intakeVars>>
     \/ part = "ticket" /\ IntakeNext /\ TicketInOrder' /\ UNCHANGED <<turnParts, boardVars, sessionVars>>
  /\ UNCHANGED part

\* In the other parts none of the steps that fairness is about is ever enabled.
MCSpec ==
  /\ MCInit /\ [][MCNext]_<<turnParts, otherParts, part>>
  /\ WorkshopFairness /\ SessionsFairness
  /\ WF_boardVars(part = "board" /\ CheckMonth)
  /\ \A r \in Runners : WF_boardVars(part = "board" /\ PassStep(r))
=============================================================================
