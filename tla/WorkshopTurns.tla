---------------------------- MODULE WorkshopTurns ----------------------------
(***************************************************************************)
(* The chat turns of the workshop sessions: handleMessage and runTurn of   *)
(* src/capabilities/workshop/watcher.ts on top of the turn queue.          *)
(*                                                                         *)
(* Tasks are the members' messages and Channels the session channels.  A   *)
(* new message raises the abort flag of the message registered before it   *)
(* in turnAborts and registers its own flag, and only then asks for a turn *)
(* in the queue.  The turn reads its flag when it starts, between the      *)
(* steps of the agent loop and once after the loop; from there on it       *)
(* answers whatever happens.                                               *)
(***************************************************************************)
EXTENDS TurnQueue

VARIABLES
  sessionOpen,  \* channels whose session row is active
  turnAborts,   \* this.turnAborts: the message whose flag is registered
  aborted,      \* messages whose flag is raised
  step,         \* how far the handler of each message got
  outcome,      \* what the member saw of it
  posted,       \* the answered messages, in the order of their answers
  newest        \* history: the last message received in each channel

turnVars == <<sessionOpen, turnAborts, aborted, step, outcome, posted, newest>>
workshopVars == <<queueVars, turnVars>>

\* queued: awaits turnQueue.run.  asking: runTurn up to the end of ask().
\* posting: the answer is being delivered.  effects: the files, the purge and
\* the close that follow it.  threwAbort, threwError: the task rejected.
\* telling: the catch block talks to Discord.  leaving: only the finally block
\* is left.
Step == {"none", "queued", "asking", "posting", "effects", "threwAbort",
         "threwError", "telling", "leaving", "over"}

Outcome == {"none", "answered", "discarded", "failed", "busy"}

TurnsTypeOK ==
  /\ QueueTypeOK
  /\ sessionOpen \in SUBSET Channels
  /\ turnAborts \in [Channels -> Tasks \union {None}]
  /\ aborted \in SUBSET Tasks
  /\ step \in [Tasks -> Step]
  /\ outcome \in [Tasks -> Outcome]
  /\ posted \in Seq(Tasks)
  /\ newest \in [Channels -> Tasks \union {None}]

WorkshopInit ==
  /\ QueueInit
  /\ sessionOpen = Channels
  /\ turnAborts = [c \in Channels |-> None]
  /\ aborted = {}
  /\ step = [m \in Tasks |-> "none"]
  /\ outcome = [m \in Tasks |-> "none"]
  /\ posted = <<>>
  /\ newest = [c \in Channels |-> None]

-----------------------------------------------------------------------------
(* handleMessage(message), up to its first await                           *)

Superseded(m) == {turnAborts[ChannelOf[m]]} \ {None}

\* Altered: the map is read again after the own flag was stored.
InterruptOlderSelf(m) ==
  /\ aborted' = aborted \union {m}
  /\ turnAborts' = [turnAborts EXCEPT ![ChannelOf[m]] = m]

InterruptOlder(m) ==
  /\ aborted' = aborted \union Superseded(m)
  /\ turnAborts' = [turnAborts EXCEPT ![ChannelOf[m]] = m]

ReceiveAccepted(m) ==
  /\ ChannelOf[m] \in sessionOpen
  /\ step[m] = "none"
  /\ InterruptOlder(m)
  /\ Admit(m)
  /\ step' = [step EXCEPT ![m] = "queued"]
  /\ newest' = [newest EXCEPT ![ChannelOf[m]] = m]
  /\ UNCHANGED <<sessionOpen, outcome, posted>>

\* turnQueue.run throws QueueBusyError: the busy reply is on its way.
ReceiveBusy(m) ==
  /\ ChannelOf[m] \in sessionOpen
  /\ step[m] = "none"
  /\ InterruptOlder(m)
  /\ Reject(m)
  /\ step' = [step EXCEPT ![m] = "telling"]
  /\ outcome' = [outcome EXCEPT ![m] = "busy"]
  /\ newest' = [newest EXCEPT ![ChannelOf[m]] = m]
  /\ UNCHANGED <<sessionOpen, posted>>

-----------------------------------------------------------------------------
(* runTurn(...), the task of the turn queue                                *)

\* The turn got its slot and looks at its flag before anything else.
StartTurn(m) ==
  /\ step[m] = "queued"
  /\ m \in holders
  /\ m \notin aborted
  /\ step' = [step EXCEPT ![m] = "asking"]
  /\ UNCHANGED <<queueVars, sessionOpen, turnAborts, aborted, outcome, posted, newest>>

StartAborted(m) ==
  /\ step[m] = "queued"
  /\ m \in holders
  /\ m \in aborted
  /\ EndTask(m)
  /\ step' = [step EXCEPT ![m] = "threwAbort"]
  /\ UNCHANGED <<sessionOpen, turnAborts, aborted, outcome, posted, newest>>

\* The loop ended with a reply and the turn was not interrupted.
AskReturns(m) ==
  /\ step[m] = "asking"
  /\ m \notin aborted
  /\ step' = [step EXCEPT ![m] = "posting"]
  /\ UNCHANGED <<queueVars, sessionOpen, turnAborts, aborted, outcome, posted, newest>>

\* shouldAbort in the loop, or the look at the flag after it.
AskAborted(m) ==
  /\ step[m] = "asking"
  /\ m \in aborted
  /\ EndTask(m)
  /\ step' = [step EXCEPT ![m] = "threwAbort"]
  /\ UNCHANGED <<sessionOpen, turnAborts, aborted, outcome, posted, newest>>

\* An error before ask() rejects the task; one inside it becomes the error
\* reply and the task returns.
AskFails(m) ==
  /\ step[m] = "asking"
  /\ EndTask(m)
  /\ \/ /\ step' = [step EXCEPT ![m] = "threwError"]
        /\ outcome' = outcome
     \/ /\ step' = [step EXCEPT ![m] = "leaving"]
        /\ outcome' = [outcome EXCEPT ![m] = "failed"]
  /\ UNCHANGED <<sessionOpen, turnAborts, aborted, posted, newest>>

\* Altered: the answer is delivered once the slot was given back.
DeliverAfterTurn(m) ==
  /\ step[m] = "posting"
  /\ IF m \in holders
     THEN /\ EndTask(m)
          /\ UNCHANGED <<step, outcome, posted>>
     ELSE /\ step' = [step EXCEPT ![m] = "leaving"]
          /\ outcome' = [outcome EXCEPT ![m] = "answered"]
          /\ posted' = Append(posted, m)
          /\ UNCHANGED queueVars
  /\ UNCHANGED <<sessionOpen, turnAborts, aborted, newest>>

Deliver(m) ==
  /\ step[m] = "posting"
  /\ step' = [step EXCEPT ![m] = "effects"]
  /\ outcome' = [outcome EXCEPT ![m] = "answered"]
  /\ posted' = Append(posted, m)
  /\ UNCHANGED <<queueVars, sessionOpen, turnAborts, aborted, newest>>

\* Files, purge and possibly the close of the session, then the task returns.
FinishTurn(m) ==
  /\ step[m] = "effects"
  /\ EndTask(m)
  /\ step' = [step EXCEPT ![m] = "leaving"]
  /\ sessionOpen' \in {sessionOpen, sessionOpen \ {ChannelOf[m]}}
  /\ UNCHANGED <<turnAborts, aborted, outcome, posted, newest>>

\* One of these throws after the answer was posted: the task rejects.
FinishFails(m) ==
  /\ step[m] = "effects"
  /\ EndTask(m)
  /\ step' = [step EXCEPT ![m] = "threwError"]
  /\ UNCHANGED <<sessionOpen, turnAborts, aborted, outcome, posted, newest>>

-----------------------------------------------------------------------------
(* The rest of handleMessage                                               *)

\* The catch block: a superseded turn goes silently, an error is reported.
CatchAbort(m) ==
  /\ step[m] = "threwAbort"
  /\ step' = [step EXCEPT ![m] = "telling"]
  /\ outcome' = [outcome EXCEPT ![m] = "discarded"]
  /\ UNCHANGED <<queueVars, sessionOpen, turnAborts, aborted, posted, newest>>

CatchError(m) ==
  /\ step[m] = "threwError"
  /\ step' = [step EXCEPT ![m] = "telling"]
  /\ outcome' = [outcome EXCEPT ![m] = "failed"]
  /\ UNCHANGED <<queueVars, sessionOpen, turnAborts, aborted, posted, newest>>

\* The finally block.
Unregister(m) ==
  /\ step[m] \in {"telling", "leaving"}
  /\ step' = [step EXCEPT ![m] = "over"]
  /\ turnAborts' =
       [turnAborts EXCEPT ![ChannelOf[m]] = IF @ = m THEN None ELSE @]
  /\ UNCHANGED <<queueVars, sessionOpen, aborted, outcome, posted, newest>>

\* The session is closed from the panel, by an administrator, or because its
\* channel was deleted.
CloseSession(c) ==
  /\ c \in sessionOpen
  /\ sessionOpen' = sessionOpen \ {c}
  /\ UNCHANGED <<queueVars, turnAborts, aborted, step, outcome, posted, newest>>

\* The queue's own continuations.
QueueStep(m) ==
  /\ EnterGate(m) \/ CleanUp(m)
  /\ UNCHANGED turnVars

\* What the bot does for a message on its own, once it was received.
Proceed(m) ==
  \/ StartTurn(m)
  \/ StartAborted(m)
  \/ AskReturns(m)
  \/ AskAborted(m)
  \/ AskFails(m)
  \/ Deliver(m)
  \/ FinishTurn(m)
  \/ FinishFails(m)
  \/ CatchAbort(m)
  \/ CatchError(m)
  \/ Unregister(m)
  \/ QueueStep(m)

WorkshopNext ==
  \/ \E m \in Tasks : ReceiveAccepted(m) \/ ReceiveBusy(m) \/ Proceed(m)
  \/ \E c \in Channels : CloseSession(c)

\* Each await of a handler ends: the model, Discord and the sandbox are called
\* with timeouts.
WorkshopFairness == \A m \in Tasks : WF_workshopVars(Proceed(m))

WorkshopSpec == WorkshopInit /\ [][WorkshopNext]_workshopVars
FairWorkshopSpec == WorkshopSpec /\ WorkshopFairness

-----------------------------------------------------------------------------
(* Correctness.                                                            *)

Live(m) == step[m] \notin {"none", "over"}

\* One conversation per channel: among the messages being handled, the only
\* one whose flag is not raised is the one turnAborts names.  A finally block
\* that ran late must not unregister a newer message.
OneLiveTurn ==
  \A m \in Tasks :
    Live(m) /\ m \notin aborted => turnAborts[ChannelOf[m]] = m

\* Superseding never silences a whole channel: when a message was dropped without a
\* word, the newest message of its channel was not. It is still being handled, and
\* ends with an answer, an error or the busy reply (handleMessage).
NewestNeverDropped ==
  \A m \in Tasks :
    outcome[m] = "discarded" =>
      LET n == newest[ChannelOf[m]] IN
        /\ n \in Tasks \ (aborted \union {m})
        /\ step[n] = "over" => outcome[n] \in {"answered", "failed", "busy"}

\* "... it stops at its next step and this turn (behind it in the FIFO queue)
\* answers with the full history": whoever is dropped has a newer message in the
\* queue, whose turn takes over (the comment in handleMessage).
NewerTurnTakesOver ==
  \A m \in Tasks :
    outcome[m] = "discarded" =>
      \E n \in Tasks : ChannelOf[n] = ChannelOf[m] /\ at[n] > at[m]

\* A turn that goes on to post its answer is the newest one of its channel at
\* that very moment.
OnlyNewestPosts ==
  [][\A m \in Tasks :
       step[m] = "asking" /\ step'[m] = "posting"
       => turnAborts[ChannelOf[m]] = m]_workshopVars

\* The answers of a channel are posted in the order of its messages.
AnswersInOrder ==
  \A i, j \in DOMAIN posted :
    i < j /\ ChannelOf[posted[i]] = ChannelOf[posted[j]]
    => at[posted[i]] < at[posted[j]]

\* When nothing is being handled the map of flags is empty, so an abandoned
\* flag can never interrupt a later conversation.
NoFlagLeftBehind ==
  (\A m \in Tasks : ~Live(m)) => \A c \in Channels : turnAborts[c] = None

\* Every message that was received ends with an outcome and its handler ends.
EveryMessageSettles ==
  \A m \in Tasks : Live(m) ~> step[m] = "over" /\ outcome[m] # "none"

\* The turns still implement the queue they run on.
QueueBehaviour == QueueSpec

=============================================================================
