--------------------------- MODULE MCAnnouncements ---------------------------
(* The scheduled event and the card of one row of the calendar, the          *)
(* announcements of its sessions (the ledger they go through, a post that    *)
(* lands in more copies than one, the daily pass over the sessions and their *)
(* scheduled events) and the conversation of a turn with the model share no  *)
(* state here; a behaviour of this run is one of theirs.                     *)
(* Ledger: two management channels, two drafts, one of them a repost, and a  *)
(* pass over the announcement channel, any two of the three actors at the    *)
(* same time. Post: one of the announcer and one draft in a channel with     *)
(* others. Pass: the timer's over two sessions, or the timer's and the       *)
(* console's over one; one scheduled event is clearly the first session's,   *)
(* the other, which only the timer alone meets, nearly so. Conversation:     *)
(* three iterations of up to two calls.                                      *)
EXTENDS CalendarMirror, Broadcast, AnnounceSweep, DailyPass, AskLoop, TLC

CONSTANTS news, club, h1, h2, d1, d2, s1, s2, e1, e2
VARIABLE part

MCChannels == {news, club}
MCHomes == {h1, h2}
MCDrafts == {d1, d2}
MCTargets == (d1 :> {news, club}) @@ (d2 :> {news})
Symmetry == Permutations(MCHomes)

MCRows == {s1, s2}
MCEvents == {e1, e2}
MCLikeness == <<s1, e1>> :> 100 @@ <<s1, e2>> :> 95 @@ <<s2, e1>> :> 0 @@ <<s2, e2>> :> 75

\* A chat turn, an explicit search with thinking, and the classifier.
MCInputs ==
  {[think |-> FALSE, search |-> FALSE, retryNoChoices |-> FALSE],
   [think |-> TRUE, search |-> TRUE, retryNoChoices |-> FALSE],
   [think |-> FALSE, search |-> FALSE, retryNoChoices |-> TRUE]}

MCInit ==
  /\ part \in {"mirror", "ledger", "post", "pass", "conversation"}
  /\ MirrorInit /\ BroadcastInit /\ SweepInit /\ DailyInit /\ AskInit
  /\ part = "mirror" \/ entry = CHOOSE k \in Contents : TRUE
  /\ part = "ledger" \/ now = 0
  /\ part = "conversation" \/ input = CHOOSE any \in Inputs : TRUE
  /\ part = "post" \/ feed = <<>>
  /\ taken.forced = 0 \/ \A r \in Rows : row[r].day # 0
  /\ IF part = "pass" THEN taken.forced = Forced \/ \E r \in Rows : row[r].day = 0
                      ELSE taken.forced = 0 /\ \A r \in Rows : row[r].day = 0

\* At most two turns and passes are in flight, and with a forced run there is one
\* scheduled event.
InPairs ==
  Cardinality({h \in Homes : turns[h].pc # "idle"} \cup {p \in Passes : InFlight(p)}) <= 2
OneEventIfForced == taken.forced = 0 \/ ~event[e2].up

announceVars == <<vars, sweepVars, dailyVars>>

MCNext ==
  /\ \/ part = "mirror" /\ MirrorNext /\ UNCHANGED <<announceVars, askVars>>
     \/ part = "ledger" /\ BroadcastNext /\ InPairs'
        /\ UNCHANGED <<mirrorVars, sweepVars, dailyVars, askVars>>
     \/ part = "post" /\ SweepNext /\ UNCHANGED <<mirrorVars, vars, dailyVars, askVars>>
     \/ part = "pass" /\ DailyNext /\ OneEventIfForced'
        /\ UNCHANGED <<mirrorVars, vars, sweepVars, askVars>>
     \/ part = "conversation" /\ AskNext /\ UNCHANGED <<mirrorVars, announceVars>>
  /\ UNCHANGED part

MCSpec == MCInit /\ [][MCNext]_<<mirrorVars, announceVars, askVars, part>>
=============================================================================
