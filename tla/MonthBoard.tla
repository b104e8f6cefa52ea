----------------------------- MODULE MonthBoard -----------------------------
(***************************************************************************)
(* The cards of the output channel: one for the current month, one for     *)
(* each later month that has a one-off event, and the calendar file.       *)
(* OutputChannelPublisher (src/capabilities/calendar/publisher.ts), the    *)
(* watcher of the month and the alerts about templates (capability.ts).    *)
(*                                                                         *)
(* A pass brings the channel up to date: the watcher runs one when the     *)
(* process starts and when the month has no card, a turn after each edit.  *)
(* Code between two awaits is one step.  What a card shows is left to      *)
(* CalendarMirror: here it is a message of a channel for a month.          *)
(***************************************************************************)
EXTENDS Integers, Sequences, FiniteSets, FiniteSetsExt

CONSTANTS
  LastMonth,
  Templates,    \* the months that have a template
  Outlets,      \* the channels the console may choose
  NoOutlet,
  EnvOutlet,    \* the channel the environment gives, or none
  MaxEvents     \* bound on edits, further changes of the channel, failed requests,
                \* cards removed by hand and restarts, together

ASSUME BoardAssumption ==
  /\ LastMonth \in Nat \ {0} /\ Templates \subseteq 1..LastMonth
  /\ NoOutlet \notin Outlets /\ EnvOutlet \in Outlets \cup {NoOutlet}

VARIABLES
  month,        \* the current one
  booked,       \* the months to come that have a one-off event
  outlet,       \* the output channel
  cards,        \* the messages ever posted to output channels, by id
  published,    \* calendar_published: the id of each month's card, 0 for none
  passes,       \* what the watcher and a turn are doing
  warned,       \* alertedKeys: the lacks of a template this process told of
  settled,      \* history: the last pass was alone, ended well and nothing changed since
  strayed,      \* history: a card may have been left behind
  happened      \* what is used of the bound

boardVars == <<month, booked, outlet, cards, published, passes, warned, settled, strayed, happened>>
outside == <<month, booked, outlet>>

Months == 1..LastMonth
Runners == {"watcher", "turn"}
Feed == 0                          \* the calendar file's key, never pruned
NoPass == [pc |-> "idle", to |-> NoOutlet, wanted |-> {}, left |-> {}, key |-> Feed,
           id |-> 0, seen |-> <<>>, alone |-> TRUE, turning |-> FALSE]

\* desiredMonthKeys.
Wanted == Templates \cap (booked \cup {month})

Other(r) == CHOOSE s \in Runners : s # r
Still(r) == passes[r].pc = "idle"
Standing(r, pc) == passes[r].pc = pc
Moves(r, pass) == passes' = [passes EXCEPT ![r] = pass]
Happens == happened < MaxEvents /\ happened' = happened + 1

\* A pass that begins: the channel is resolved at once.
Begun(r, to, turning) ==
  [passes EXCEPT
    ![r] = IF to = NoOutlet THEN NoPass
           ELSE [NoPass EXCEPT !.pc = "connect", !.to = to, !.turning = turning,
                               !.alone = Still(Other(r))],
    ![Other(r)].alone = @ /\ (to = NoOutlet \/ Still(Other(r)))]

BoardInit ==
  /\ month \in Months /\ booked = {} /\ outlet = EnvOutlet
  /\ cards = <<>> /\ published = [k \in Months \cup {Feed} |-> 0]
  /\ passes = [r \in Runners |->
       IF r = "watcher" /\ EnvOutlet # NoOutlet
       THEN [NoPass EXCEPT !.pc = "connect", !.to = EnvOutlet] ELSE NoPass]
  /\ warned = {} /\ settled = FALSE /\ strayed = FALSE
  /\ happened = 0

-----------------------------------------------------------------------------
(* What begins a pass.                                                     *)

\* The edit of an event of the month itself changes no set of months.
Changes(m) ==
  booked' = IF m = month THEN booked
            ELSE IF m \in booked THEN booked \ {m} ELSE booked \cup {m}

\* A tool of a calendar turn: the edit is followed by publishNow.
EditAndPublish(m) ==
  /\ Still("turn") /\ m >= month
  /\ Happens
  /\ Changes(m) /\ passes' = Begun("turn", outlet, FALSE)
  /\ settled' = FALSE
  /\ UNCHANGED <<month, outlet, cards, published, warned, strayed>>

\* The console edits events without publishing.
EditFromConsole(m) ==
  /\ m > month
  /\ Happens
  /\ Changes(m) /\ settled' = FALSE
  /\ UNCHANGED <<month, outlet, cards, published, passes, warned, strayed>>

\* set_output_channel: the cards of the old channel are forgotten there.
MoveOutlet(o) ==
  /\ o # outlet
  /\ IF outlet = NoOutlet THEN UNCHANGED happened ELSE Happens
  /\ outlet' = o /\ settled' = FALSE
  /\ strayed' = (strayed \/ outlet # NoOutlet)
  /\ UNCHANGED <<month, booked, cards, published, passes, warned>>

\* Altered: a board that has its file has been published.
FilePublished == published[Feed] # 0
\* monthPublishAction: a month without a card has not been published.
MonthPublished == published[month] # 0

\* checkMonthRollover.
CheckMonth ==
  /\ Still("watcher")
  /\ IF month \in Templates
     THEN /\ ~MonthPublished /\ outlet # NoOutlet
          /\ passes' = Begun("watcher", outlet, TRUE) /\ UNCHANGED warned
     ELSE /\ <<"no_template", month>> \notin warned
          /\ warned' = warned \cup {<<"no_template", month>>} /\ UNCHANGED passes
  /\ settled' = FALSE
  /\ UNCHANGED <<outside, cards, published, strayed, happened>>

-----------------------------------------------------------------------------
(* reconcile.                                                              *)

\* Altered: a card is kept until its month is past.
Overdue(p, rows) == {m \in Months : rows[m] # 0 /\ m < month}
\* The cards that are tracked and not wanted.
Unwanted(p, rows) == {m \in Months \ p.wanted : rows[m] # 0}

\* sendOrEdit begins: a card of this channel is edited, otherwise one is sent.
Facing(p, k, rows) ==
  LET known == rows[k] # 0 /\ cards[rows[k]].outlet = p.to
  IN [p EXCEPT !.pc = IF known THEN "edit" ELSE "send", !.key = k,
               !.id = IF known THEN rows[k] ELSE 0]

\* The cards in order, then the pruning, then the file.
Onward(p, rows) ==
  IF p.left # {} THEN Facing(p, Min(p.left), rows)
  ELSE IF Unwanted(p, rows) # {}
       THEN [p EXCEPT !.pc = "prune", !.left = Unwanted(p, rows),
                      !.key = Feed, !.id = 0, !.seen = rows]
       ELSE Facing(p, Feed, rows)

Connect(r) ==
  /\ Standing(r, "connect")
  /\ Moves(r, Onward([passes[r] EXCEPT !.wanted = Wanted, !.left = Wanted], published))
  /\ UNCHANGED <<outside, cards, published, warned, settled, strayed, happened>>

\* The key is recorded.  The file ends the pass, and the watcher then sees to the
\* template of the month after (warnIfNextMonthUntemplated).
Brought(r, id) ==
  LET p == passes[r]
      rows == [published EXCEPT ![p.key] = id]
      next == month + 1
  IN
  /\ published' = rows
  /\ IF p.key = Feed
     THEN /\ Moves(r, NoPass)
          /\ settled' = (p.alone /\ p.to = outlet /\ p.wanted = Wanted)
          /\ warned' = IF p.turning /\ next \in Months \ Templates
                       THEN warned \cup {<<"no_next_template", next>>} ELSE warned
     ELSE /\ Moves(r, Onward([p EXCEPT !.left = @ \ {p.key}], rows))
          /\ UNCHANGED <<settled, warned>>

EditCardInPlace(r) ==
  /\ Standing(r, "edit") /\ cards[passes[r].id].up
  /\ Brought(r, passes[r].id)
  /\ UNCHANGED <<outside, cards, strayed, happened>>

\* It is gone or cannot be edited: it is forgotten and sent again.
CardCannotBeEdited(r) ==
  /\ Standing(r, "edit")
  /\ IF cards[passes[r].id].up THEN Happens /\ strayed' = TRUE ELSE UNCHANGED <<happened, strayed>>
  /\ published' = [published EXCEPT ![passes[r].key] = 0]
  /\ Moves(r, [passes[r] EXCEPT !.pc = "send", !.id = 0])
  /\ UNCHANGED <<outside, cards, warned, settled>>

SendNewCard(r) ==
  /\ Standing(r, "send")
  /\ cards' = Append(cards, [outlet |-> passes[r].to, key |-> passes[r].key, up |-> TRUE])
  /\ Moves(r, [passes[r] EXCEPT !.pc = "record", !.id = Len(cards) + 1])
  /\ UNCHANGED <<outside, published, warned, settled, strayed, happened>>

RecordCard(r) ==
  /\ Standing(r, "record")
  /\ Brought(r, passes[r].id)
  /\ strayed' = (strayed \/ ~passes[r].alone)
  /\ UNCHANGED <<outside, cards, happened>>

\* deleteMessage, which may fail, of the card read when the pruning began, and
\* clearPublished.
PruneCard(r, deleted) ==
  LET p == passes[r]
      m == Min(p.left)
      id == p.seen[m]
      here == cards[id].outlet = p.to /\ cards[id].up
      rows == [published EXCEPT ![m] = 0]
      rest == p.left \ {m}
  IN
  /\ Standing(r, "prune")
  /\ IF deleted THEN UNCHANGED <<happened, strayed>>
     ELSE here /\ Happens /\ strayed' = TRUE
  /\ cards' = IF here /\ deleted THEN [cards EXCEPT ![id].up = FALSE] ELSE cards
  /\ published' = rows
  /\ Moves(r, IF rest = {} THEN Facing([p EXCEPT !.left = {}, !.seen = <<>>], Feed, rows)
              ELSE [p EXCEPT !.left = rest])
  /\ UNCHANGED <<outside, warned, settled>>

\* The channel cannot be had, a drawing or a post fails: the pass ends.
PassFails(r) ==
  /\ passes[r].pc \in {"connect", "send"}
  /\ Happens /\ Moves(r, NoPass)
  /\ UNCHANGED <<outside, cards, published, warned, settled, strayed>>

-----------------------------------------------------------------------------
(* The world.                                                              *)

TurnMonth ==
  /\ month + 1 \in Months /\ month' = month + 1
  /\ booked' = booked \ {month + 1}
  /\ settled' = FALSE
  /\ UNCHANGED <<outlet, cards, published, passes, warned, strayed, happened>>

RemoveByHand(id) ==
  /\ cards[id].up /\ Happens
  /\ cards' = [cards EXCEPT ![id].up = FALSE]
  /\ settled' = FALSE
  /\ UNCHANGED <<outside, published, passes, warned, strayed>>

\* The next process seeds the channel and begins with a pass of its own.
RestartBoard ==
  LET to == IF outlet = NoOutlet THEN EnvOutlet ELSE outlet IN
  /\ Happens
  /\ outlet' = to
  /\ passes' = [r \in Runners |-> IF r = "watcher" /\ to # NoOutlet
                                  THEN [NoPass EXCEPT !.pc = "connect", !.to = to] ELSE NoPass]
  /\ warned' = {} /\ settled' = FALSE
  /\ strayed' = (strayed \/ \E r \in Runners : Standing(r, "record"))
  /\ UNCHANGED <<month, booked, cards, published>>

PassStep(r) ==
  \/ Connect(r) \/ EditCardInPlace(r) \/ CardCannotBeEdited(r)
  \/ SendNewCard(r) \/ RecordCard(r) \/ PruneCard(r, TRUE)

BoardNext ==
  \/ \E m \in Months : EditAndPublish(m) \/ EditFromConsole(m)
  \/ \E o \in Outlets : MoveOutlet(o)
  \/ CheckMonth \/ TurnMonth \/ RestartBoard
  \/ \E r \in Runners : PassStep(r) \/ PruneCard(r, FALSE) \/ PassFails(r)
  \/ \E id \in 1..Len(cards) : RemoveByHand(id)

\* The interval of the watcher keeps firing and what a pass awaits is answered.
BoardFairness ==
  /\ WF_boardVars(CheckMonth)
  /\ \A r \in Runners : WF_boardVars(PassStep(r))

BoardSpec == BoardInit /\ [][BoardNext]_boardVars /\ BoardFairness

-----------------------------------------------------------------------------
(* Properties.                                                             *)

\* The channel shows what is tracked: a card of the output channel that no row
\* knows is one that a failed request, two passes at once, a restart between
\* post and record or a change of channel left behind.
NoStrays ==
  \A id \in 1..Len(cards) :
    cards[id].up /\ ~strayed =>
      \/ published[cards[id].key] = id
      \/ \E r \in Runners : Standing(r, "record") /\ passes[r].id = id

\* The months a reader of the channel should find: this one and the later ones
\* with something booked, as far as there are templates.
MonthsDue == {m \in Templates : m >= month /\ (m \in booked \/ m = month)}

\* After a pass that ran alone and ended well, and until something changes,
\* exactly those months are tracked, in this channel, and so is the file.
LiveBoard ==
  settled /\ (\A r \in Runners : Still(r)) =>
    \A k \in Months \cup {Feed} :
      IF k \in MonthsDue \cup {Feed}
      THEN published[k] # 0 /\ cards[published[k]].outlet = outlet
      ELSE published[k] = 0

\* The board is a live one: it holds what is tracked, and after a good pass that
\* is what is due (publisher.ts, reconcile).
BoardKept == NoStrays /\ LiveBoard

\* The month's card comes and stays, and a month without a template is reported,
\* whatever a pass that began before the month turned does to it
\* (checkMonthRollover).
MonthComes ==
  <>[](IF month \in Templates THEN published[month] # 0 \/ outlet = NoOutlet
       ELSE <<"no_template", month>> \in warned)
=============================================================================
