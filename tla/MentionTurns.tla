---------------------------- MODULE MentionTurns ----------------------------
(***************************************************************************)
(* The turns of the public channels: the MessageCreate handler of          *)
(* src/discord/handlers.ts on top of the turn queue, with the guard of     *)
(* src/discord/error-replies.ts against floods of error replies.           *)
(*                                                                         *)
(* Tasks are the messages that mention the bot in a channel of Channels.   *)
(* The queued task reads the channel and computes the reply; the handler   *)
(* delivers the reply once the task has returned.                          *)
(***************************************************************************)
EXTENDS TurnQueue

CONSTANT MaxWindows   \* bound on how often the guard forgets a channel
ASSUME WindowsAssumption == MaxWindows \in Nat

VARIABLES
  step,       \* how far the handler of each message got
  outcome,    \* what the member saw of it
  seen,       \* the replies that were in the channel when the turn read it
  muted,      \* channels with an error reply of the last five minutes
  windows     \* how often the guard forgot each channel

handlerVars == <<step, outcome, seen, muted, windows>>
mentionVars == <<queueVars, handlerVars>>

\* queued: awaits turnQueue.run.  running: the task read the channel and asks
\* the model.  replied, silent, threw: the task returned a reply, returned ""
\* or rejected, and the handler has not gone on yet.
Step == {"none", "queued", "running", "replied", "silent", "threw", "over"}
\* quiet: a fixed notice, a mark on the message or nothing at all.
Outcome == {"none", "answered", "failed", "quiet"}

MentionsTypeOK ==
  /\ QueueTypeOK
  /\ step \in [Tasks -> Step]
  /\ outcome \in [Tasks -> Outcome]
  /\ seen \in [Tasks -> SUBSET Tasks]
  /\ muted \in SUBSET Channels
  /\ windows \in [Channels -> 0..MaxWindows]

MentionInit ==
  /\ QueueInit
  /\ step = [m \in Tasks |-> "none"]
  /\ outcome = [m \in Tasks |-> "none"]
  /\ seen = [m \in Tasks |-> {}]
  /\ muted = {}
  /\ windows = [c \in Channels |-> 0]

\* The replies the channel shows.
Posted(c) == {m \in Tasks : ChannelOf[m] = c /\ outcome[m] = "answered"}

Settle(m, what) ==
  /\ step' = [step EXCEPT ![m] = "over"]
  /\ outcome' = [outcome EXCEPT ![m] = what]

-----------------------------------------------------------------------------
(* The handler up to its first await                                       *)

ReceiveAccepted(m) ==
  /\ step[m] = "none"
  /\ Admit(m)
  /\ step' = [step EXCEPT ![m] = "queued"]
  /\ UNCHANGED <<outcome, seen, muted, windows>>

ReceiveBusy(m) ==
  /\ step[m] = "none"
  /\ Reject(m)
  /\ Settle(m, "quiet")
  /\ UNCHANGED <<seen, muted, windows>>

-----------------------------------------------------------------------------
(* The queued task                                                         *)

\* Altered: the channel is read while the message still waits for its turn.
ReadAtOnce(m) ==
  /\ step[m] = "queued"
  /\ step' = [step EXCEPT ![m] = "running"]
  /\ seen' = [seen EXCEPT ![m] = Posted(ChannelOf[m])]
  /\ UNCHANGED <<queueVars, outcome, muted, windows>>

\* buildHistory and gatherTurnContext: at most what is in the channel by then.
ReadChannel(m) ==
  /\ step[m] = "queued"
  /\ m \in holders
  /\ step' = [step EXCEPT ![m] = "running"]
  /\ seen' = [seen EXCEPT ![m] = Posted(ChannelOf[m])]
  /\ UNCHANGED <<queueVars, outcome, muted, windows>>

\* ask() returned, no capability could be resolved, or something threw.
TaskEnds(m) ==
  /\ step[m] = "running"
  /\ EndTask(m)
  /\ step' \in {[step EXCEPT ![m] = s] : s \in {"replied", "silent", "threw"}}
  /\ UNCHANGED <<outcome, seen, muted, windows>>

-----------------------------------------------------------------------------
(* The handler after its task                                              *)

\* presenter.deliver, after verifyDelivery where the capability asks for it.
Deliver(m) ==
  /\ step[m] = "replied"
  /\ Settle(m, "answered")
  /\ UNCHANGED <<queueVars, seen, muted, windows>>

\* verifyDelivery says no, and a fixed notice takes the place of the reply, or
\* Discord takes no reply of the bot.
Deny(m) ==
  /\ step[m] = "replied"
  /\ Settle(m, "quiet")
  /\ UNCHANGED <<queueVars, seen, muted, windows>>

Discard(m) ==
  /\ step[m] = "silent"
  /\ Settle(m, "quiet")
  /\ UNCHANGED <<queueVars, seen, muted, windows>>

\* An error reply, unless the channel had one.
Report(m) ==
  /\ LET c == ChannelOf[m]
     IN  /\ Settle(m, IF c \in muted THEN "quiet" ELSE "failed")
         /\ muted' = muted \union {c}
  /\ UNCHANGED <<queueVars, seen, windows>>

ReportError(m) == step[m] = "threw" /\ Report(m)

\* verifyDelivery or the preparation of the reply threw: the outer catch.
ReportUndelivered(m) == step[m] = "replied" /\ Report(m)

\* The entry is five minutes old, or 512 newer ones pushed it out.
GuardForgets(c) ==
  /\ c \in muted
  /\ windows[c] < MaxWindows
  /\ muted' = muted \ {c}
  /\ windows' = [windows EXCEPT ![c] = @ + 1]
  /\ UNCHANGED <<queueVars, step, outcome, seen>>

QueueStep(m) ==
  /\ EnterGate(m) \/ CleanUp(m)
  /\ UNCHANGED handlerVars

\* What the bot does for a message on its own, once it was received.
Proceed(m) ==
  \/ ReadChannel(m)
  \/ TaskEnds(m)
  \/ Deliver(m)
  \/ Deny(m)
  \/ Discard(m)
  \/ ReportError(m)
  \/ ReportUndelivered(m)
  \/ QueueStep(m)

MentionNext ==
  \/ \E m \in Tasks : ReceiveAccepted(m) \/ ReceiveBusy(m) \/ Proceed(m)
  \/ \E c \in Channels : GuardForgets(c)

MentionSpec == MentionInit /\ [][MentionNext]_mentionVars

-----------------------------------------------------------------------------
(* Correctness.                                                            *)

SameChannel(m, n) == ChannelOf[m] = ChannelOf[n]
HasRead(m) == step[m] \notin {"none", "queued"} /\ stage[m] # "rejected"

\* Whatever order the replies are delivered in, a later message of a channel never
\* reads an older state of it than an earlier one did: history is built inside
\* the queued task.
ReadsInOrder ==
  \A m, n \in Tasks :
    SameChannel(m, n) /\ HasRead(m) /\ HasRead(n) /\ at[m] < at[n]
    => seen[m] \subseteq seen[n]

=============================================================================
