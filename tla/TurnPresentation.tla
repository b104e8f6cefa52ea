--------------------------- MODULE TurnPresentation ---------------------------
(***************************************************************************)
(* How one turn shows itself in its channel (src/discord/presenter.ts):    *)
(* the reaction on the member's message (src/discord/status-reactions.ts), *)
(* the typing indicator and, in a workshop session, one status line that   *)
(* is edited while the turn works and at last becomes the reply itself     *)
(* (src/discord/status-message.ts).                                        *)
(*                                                                         *)
(* Reactions are changed by a chain of operations that nobody awaits, the  *)
(* line's edits by requests that Discord takes in order; any request may   *)
(* be refused, or carried out while its answer is lost.                    *)
(***************************************************************************)
EXTENDS Naturals, Sequences, FiniteSets

CONSTANTS
  MaxNews,    \* bound: progress of the turn worth a new text
  MaxParts,   \* bound: chunks of the reply
  MaxFaults   \* bound: requests that fail

VARIABLES
  style,       \* "reactions" (ReactionTurnPresenter) or "line" (WorkshopTurnPresenter)
  turnStep,    \* where the handler is
  left,        \* chunks still to post
  end,         \* "none", or what the handler ended the turn with
  hasLine,     \* the status line exists for its presenter (message # null)
  ended,       \* finished, of the status line
  news,        \* how far the turn's progress is
  shown,       \* lastShownText
  waitingText, \* pendingText, 0 without one
  timer,       \* pendingTimer
  recent,      \* an edit is less than MIN_EDIT_INTERVAL_MS old
  ticker,      \* the interval of the elapsed time
  typing,      \* the interval of the typing indicator
  wire,        \* edits of the line that Discord has not answered
  reactor,     \* StatusReactor
  line,        \* what the line shows in the channel
  copies,      \* messages that show the first chunk
  sorry,       \* messages that show the error
  reacted,     \* the bot's reactions on the member's message
  faults,      \* requests that end, by what they were for
  lost         \* ... of which were carried out

present == <<style, turnStep, left, end>>
status == <<hasLine, ended, news, shown, waitingText, timer, recent>>
timers == <<ticker, typing>>
channel == <<line, copies, sorry>>
mishaps == <<faults, lost>>
presenterVars ==
  <<present, status, timers, wire, reactor, channel, reacted, mishaps>>

Idle == [current |-> "none", over |-> FALSE, own |-> "none", chain |-> <<>>, bare |-> FALSE]

PresenterInit ==
  /\ style \in {"reactions", "line"} /\ turnStep = "new" /\ left = 0 /\ end = "none"
  /\ hasLine = FALSE /\ ended = FALSE
  /\ news = 0 /\ shown = 0 /\ waitingText = 0
  /\ timer = FALSE /\ recent = FALSE /\ ticker = FALSE /\ typing = FALSE
  /\ wire = <<>> /\ reactor = Idle
  /\ line = "none" /\ copies = 0 /\ sorry = 0 /\ reacted = {}
  /\ faults = <<>> /\ lost = 0

\* What becomes of a request: Discord carries it out or not, and the bot hears it
\* did or not.
Outcomes == [applied : BOOLEAN, ok : BOOLEAN] \ {[applied |-> FALSE, ok |-> TRUE]}
Hears(a, what) ==
  /\ a.ok \/ Len(faults) < MaxFaults
  /\ faults' = IF a.ok THEN faults ELSE Append(faults, what)
  /\ lost' = IF a.applied /\ ~a.ok THEN lost + 1 ELSE lost
Failed(what) == \E n \in DOMAIN faults : faults[n] = what

-----------------------------------------------------------------------------
(* The reaction.                                                           *)

Enqueue(r, op) == [r EXCEPT !.chain = Append(@, op)]

Set(r, phase) ==
  IF r.over \/ phase = r.current THEN r
  ELSE Enqueue([r EXCEPT !.current = phase], phase)

\* Altered: nothing of the chain is waited for.
ResolveNow(r) == [r EXCEPT !.over = TRUE, !.current = "none", !.own = "none"]
Resolve(r) ==
  IF r.over THEN r ELSE Enqueue([r EXCEPT !.over = TRUE, !.current = "none"], "none")

FailReactor(r) ==
  IF r.over THEN r ELSE Enqueue([r EXCEPT !.over = TRUE, !.current = "error"], "error")

\* removeOwn: whatever Discord answers, the handle is forgotten.
RemoveOwn ==
  /\ reactor.chain # <<>> /\ ~reactor.bare
  /\ IF reactor.own = "none"
     THEN UNCHANGED <<reacted, mishaps>>
     ELSE \E a \in Outcomes :
            /\ Hears(a, "unreact")
            /\ reacted' = IF a.applied THEN reacted \ {reactor.own} ELSE reacted
  /\ reactor' =
       IF Head(reactor.chain) = "none"
       THEN [reactor EXCEPT !.own = "none", !.chain = Tail(@)]
       ELSE [reactor EXCEPT !.own = "none", !.bare = TRUE]
  /\ UNCHANGED <<present, status, timers, wire, channel>>

\* The mark of a failure stays, so nobody keeps its handle.
React ==
  LET op == Head(reactor.chain)
  IN  /\ reactor.bare
      /\ \E a \in Outcomes :
           /\ Hears(a, "react")
           /\ reacted' = IF a.applied THEN reacted \cup {op} ELSE reacted
           /\ reactor' = [reactor EXCEPT
                !.bare = FALSE, !.chain = Tail(@),
                !.own = IF a.ok /\ op # "error" THEN op ELSE "none"]
      /\ UNCHANGED <<present, status, timers, wire, channel>>

-----------------------------------------------------------------------------
(* The status line while the turn works.                                   *)

Active == hasLine /\ ~ended

\* flush: the newest text, if the line is still the turn's.
Flush(text) ==
  IF Active /\ text # 0
  THEN /\ shown' = text /\ waitingText' = 0 /\ recent' = TRUE
       /\ wire' = Append(wire, "status")
  ELSE UNCHANGED <<shown, waitingText, recent, wire>>

\* update: at once, or when the last edit is old enough.
Update(text) ==
  IF ~Active \/ text = shown
  THEN UNCHANGED <<shown, waitingText, recent, wire, timer>>
  ELSE IF ~recent
  THEN timer' = FALSE /\ Flush(text)
  ELSE waitingText' = text /\ timer' = TRUE /\ UNCHANGED <<shown, recent, wire>>

TimerFires ==
  /\ timer /\ ~recent /\ timer' = FALSE /\ Flush(waitingText)
  /\ UNCHANGED <<present, hasLine, ended, news, timers, reactor, channel, reacted, mishaps>>

IntervalPasses ==
  /\ recent /\ recent' = FALSE
  /\ UNCHANGED <<present, hasLine, ended, news, shown, waitingText, timer, timers, wire,
                 reactor, channel, reacted, mishaps>>

OnPhase(phase) ==
  /\ turnStep = "working" /\ news < MaxNews /\ news' = news + 1
  /\ IF style = "reactions"
     THEN reactor' = Set(reactor, phase) /\ UNCHANGED <<shown, waitingText, recent, wire, timer>>
     ELSE Update(news') /\ UNCHANGED reactor
  /\ UNCHANGED <<present, hasLine, ended, timers, channel, reacted, mishaps>>

Tick ==
  /\ ticker /\ news < MaxNews /\ news' = news + 1 /\ Update(news')
  /\ UNCHANGED <<present, hasLine, ended, timers, reactor, channel, reacted, mishaps>>

\* Discord takes the edits of one message in the order in which they were sent.
\* A text that came too late is dropped with its answer; the last edit is awaited.
StatusEdited ==
  /\ wire # <<>> /\ Head(wire) = "status" /\ wire' = Tail(wire)
  /\ \E a \in Outcomes :
       /\ Hears(a, "edit") /\ line' = IF a.applied THEN "status" ELSE line
  /\ UNCHANGED <<present, status, timers, reactor, copies, sorry, reacted>>

-----------------------------------------------------------------------------
(* From the queue to the work.                                             *)

OnQueued ==
  /\ turnStep = "new" /\ turnStep' = "queued" /\ reactor' = Set(reactor, "queued")
  /\ UNCHANGED <<style, left, end, status, timers, wire, channel, reacted, mishaps>>

Begin ==
  /\ turnStep \in {"new", "queued"}
  /\ IF style = "line"
     THEN turnStep' = "posting" /\ shown' = news /\ recent' = TRUE /\ UNCHANGED <<typing, reactor>>
     ELSE /\ turnStep' = "working" /\ typing' = TRUE /\ reactor' = Set(reactor, "thinking")
          /\ UNCHANGED <<shown, recent>>
  /\ UNCHANGED <<style, left, end, hasLine, ended, news, waitingText, timer, ticker, wire,
                 channel, reacted, mishaps>>

\* start: the line takes over from the reaction, whether it could be posted or not.
Started ==
  /\ turnStep = "posting" /\ turnStep' = "working"
  /\ \E a \in Outcomes :
       /\ Hears(a, "start") /\ hasLine' = a.ok
       /\ line' = IF a.applied THEN "status" ELSE line
  /\ typing' = TRUE /\ ticker' = TRUE /\ reactor' = Resolve(reactor)
  /\ UNCHANGED <<style, left, end, ended, news, shown, waitingText, timer, recent, wire,
                 copies, sorry, reacted>>

-----------------------------------------------------------------------------
(* The end of the turn.                                                    *)

\* stopPending, and the line is the turn's no longer.
StopPending == ended' = TRUE /\ timer' = FALSE /\ waitingText' = 0
LineStays == UNCHANGED <<ended, timer, waitingText>>

\* The first chunk replaces the line, or is a reply to the member's message.
DeliverParts(n) ==
  /\ turnStep = "working" /\ left' = n /\ ticker' = FALSE
  /\ end' = IF n = 0 THEN "silence" ELSE "reply"
  /\ IF style = "line"
     THEN /\ StopPending /\ typing' = FALSE
          /\ wire' = IF n > 0 /\ hasLine THEN Append(wire, "reply") ELSE wire
          /\ turnStep' = IF n = 0 THEN (IF hasLine THEN "deleting" ELSE "over")
                     ELSE IF hasLine THEN "morphing" ELSE "first"
     ELSE /\ LineStays /\ typing' = (n > 0) /\ UNCHANGED wire
          /\ turnStep' = IF n = 0 THEN "over" ELSE "first"
  /\ reactor' = IF n = 0 /\ turnStep' = "over" THEN Resolve(reactor) ELSE reactor
  /\ UNCHANGED <<style, hasLine, news, shown, recent, channel, reacted, mishaps>>

\* The reaction goes when the last chunk was sent.
AfterFirst(first) ==
  /\ left' = IF first THEN left - 1 ELSE 0
  /\ typing' = FALSE
  /\ turnStep' = IF left' > 0 THEN "rest" ELSE "over"
  /\ reactor' = IF left' = 0 /\ style = "reactions" THEN Resolve(reactor) ELSE reactor

Morphed ==
  /\ turnStep = "morphing" /\ wire = <<"reply">> /\ wire' = <<>>
  /\ \E a \in Outcomes :
       /\ Hears(a, "edit")
       /\ line' = IF a.applied THEN "reply" ELSE line
       /\ copies' = IF a.applied THEN copies + 1 ELSE copies
       /\ IF a.ok THEN AfterFirst(TRUE)
          ELSE turnStep' = "first" /\ UNCHANGED <<left, typing, reactor>>
  /\ UNCHANGED <<style, end, status, ticker, sorry, reacted>>

\* A reply that fails is tried again as a message of its own, in public channels.
FirstPosted ==
  /\ turnStep \in {"first", "again"}
  /\ \E a \in Outcomes :
       /\ Hears(a, "post")
       /\ copies' = IF a.applied THEN copies + 1 ELSE copies
       /\ IF a.ok THEN AfterFirst(TRUE)
          ELSE IF style = "reactions" /\ turnStep = "first"
          THEN turnStep' = "again" /\ UNCHANGED <<left, typing, reactor>>
          ELSE AfterFirst(FALSE)
  /\ UNCHANGED <<style, end, status, ticker, wire, line, sorry, reacted>>

RestPosted ==
  /\ turnStep = "rest" /\ (\E a \in Outcomes : Hears(a, "chunk")) /\ AfterFirst(TRUE)
  /\ UNCHANGED <<style, end, status, ticker, wire, channel, reacted>>

\* fail: before the work began there is no line; a repeated error has no text.
Fail(text) ==
  /\ \/ turnStep \in {"new", "working"} /\ text
     \/ turnStep = "working" /\ style = "reactions"
  /\ end' = "error" /\ ticker' = FALSE /\ typing' = FALSE
  /\ IF style = "line" /\ turnStep = "working"
     THEN /\ StopPending /\ UNCHANGED reactor
          /\ wire' = IF hasLine THEN Append(wire, "error") ELSE wire
          /\ turnStep' = IF hasLine THEN "failing" ELSE "apology"
     ELSE /\ LineStays /\ reactor' = FailReactor(reactor) /\ UNCHANGED wire
          /\ turnStep' = IF text THEN "apology" ELSE "over"
  /\ UNCHANGED <<style, left, hasLine, news, shown, recent, channel, reacted, mishaps>>

ErrorShown ==
  /\ \/ turnStep = "failing" /\ wire = <<"error">>
     \/ turnStep = "apology"
  /\ turnStep' = "over"
  /\ wire' = IF turnStep = "failing" THEN <<>> ELSE wire
  /\ \E a \in Outcomes :
       /\ Hears(a, IF turnStep = "failing" THEN "edit" ELSE "post")
       /\ sorry' = IF a.applied THEN sorry + 1 ELSE sorry
       /\ line' = IF a.applied /\ turnStep = "failing" THEN "error" ELSE line
  /\ UNCHANGED <<style, left, end, status, timers, reactor, copies, reacted>>

\* A superseded turn, also one that never began, or an empty reply.
Discard ==
  /\ turnStep \in (IF style = "line" THEN {"new", "queued", "working"} ELSE {"working"})
  /\ end' = "silence" /\ ticker' = FALSE /\ typing' = FALSE
  /\ IF style = "line" THEN StopPending ELSE LineStays
  /\ turnStep' = IF hasLine THEN "deleting" ELSE "over"
  /\ reactor' = IF hasLine THEN reactor ELSE Resolve(reactor)
  /\ UNCHANGED <<style, left, hasLine, news, shown, recent, wire, channel, reacted,
                 mishaps>>

\* A message that is gone can no longer be edited.
Deleted ==
  /\ turnStep = "deleting" /\ turnStep' = "over" /\ reactor' = Resolve(reactor)
  /\ \E a \in Outcomes :
       /\ Hears(a, "delete")
       /\ line' = IF a.applied THEN "none" ELSE line
       /\ wire' = IF a.applied THEN <<>> ELSE wire
  /\ hasLine' = FALSE
  /\ UNCHANGED <<style, left, end, ended, news, shown, waitingText, timer, recent, timers,
                 copies, sorry, reacted>>

PresenterNext ==
  \/ RemoveOwn \/ React \/ TimerFires \/ IntervalPasses \/ Tick \/ StatusEdited
  \/ \E phase \in {"thinking", "tool"} : OnPhase(phase)
  \/ OnQueued \/ Begin \/ Started
  \/ \E n \in 0..MaxParts : DeliverParts(n)
  \/ Morphed \/ FirstPosted \/ RestPosted
  \/ \E text \in BOOLEAN : Fail(text)
  \/ ErrorShown \/ Discard \/ Deleted

PresenterSpec == PresenterInit /\ [][PresenterNext]_presenterVars

-----------------------------------------------------------------------------
(* Properties.                                                             *)

Quiet == turnStep = "over" /\ reactor.chain = <<>> /\ wire = <<>>
Signs == copies + sorry + Cardinality(reacted)

\* When a turn is over and Discord has answered everything, nothing runs on; no
\* line and no reaction of the work stays but for a request about it that failed;
\* the reply shows once, or once more for each answer that was lost, and is missing
\* only after two failures; an error shows unless a request failed; a turn that was
\* discarded shows nothing (finishAsReply, fail, discard, StatusReactor).
NothingLeftBehind ==
  /\ turnStep = "over" => ~typing /\ ~ticker /\ ~timer
  /\ Quiet =>
       /\ line = "status" => Failed("start") \/ Failed("edit") \/ Failed("delete")
       /\ reacted \subseteq {"error"} \/ Failed("react") \/ Failed("unreact")
       /\ "error" \in reacted => end = "error"
       /\ copies + sorry <= 1 + lost
       /\ end = "reply" /\ copies = 0 => Len(faults) >= 2
       /\ end = "error" /\ Signs = 0 => faults # <<>>
       /\ end = "silence" => copies + sorry = 0
=============================================================================
