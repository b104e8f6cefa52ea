----------------------------- MODULE TurnsProofs ------------------------------
(***************************************************************************)
(* The turns: those of a workshop channel behind the queue, the conversation *)
(* of one turn with the language model, how it shows in its channel, and what *)
(* the operators hear of the process.                                      *)
(***************************************************************************)
EXTENDS WorkshopTurns, AskLoop, ProcessWatch, TurnPresentation,
        TurnQueueProofs

-----------------------------------------------------------------------------
(* A workshop channel behind the queue (WorkshopTurns).                    *)

\* A message is known to the queue exactly when its handler began.
HandlersMatchStages ==
  \A m \in Tasks : step[m] = "none" <=> stage[m] = "absent"

\* turnAborts names messages of the channel that are still being handled.
RegisteredIsLive ==
  \A c \in Channels :
    turnAborts[c] # None =>
      /\ turnAborts[c] \in Tasks
      /\ ChannelOf[turnAborts[c]] = c
      /\ Live(turnAborts[c])

\* The newest message of a channel is known, and its flag is not raised; whoever
\* is registered is the newest.
NewestIsHeard ==
  \A c \in Channels :
    /\ newest[c] # None =>
         /\ newest[c] \in Tasks \ aborted /\ ChannelOf[newest[c]] = c
         /\ step[newest[c]] # "none"
    /\ turnAborts[c] # None => turnAborts[c] = newest[c]

\* A message that began has a newest one in its channel.
AbortedBegan == \A m \in Tasks :
  /\ m \in aborted => step[m] # "none"
  /\ step[m] # "none" => newest[ChannelOf[m]] # None

\* Whoever has nothing left to say has said something.
EndsAreTold == \A m \in Tasks :
  step[m] \in {"effects", "telling", "leaving", "over"} => outcome[m] # "none"

\* Only a raised flag makes a turn go silently.
DroppedWereAborted ==
  \A m \in Tasks :
    step[m] = "threwAbort" \/ outcome[m] = "discarded" => m \in aborted

TurnsTypes ==
  /\ sessionOpen \in SUBSET Channels
  /\ turnAborts \in [Channels -> Tasks \union {None}]
  /\ aborted \in SUBSET Tasks
  /\ step \in [Tasks -> Step]
  /\ outcome \in [Tasks -> Outcome]
  /\ posted \in Seq(Tasks)
  /\ newest \in [Channels -> Tasks \union {None}]

\* The inductive invariant: the one message that is live and not interrupted
\* is the one registered, because whoever registers interrupts whoever was.
TurnsIndInv ==
  /\ TurnsTypes
  /\ HandlersMatchStages
  /\ RegisteredIsLive
  /\ OneLiveTurn
  /\ NewestIsHeard
  /\ AbortedBegan
  /\ EndsAreTold
  /\ DroppedWereAborted

-----------------------------------------------------------------------------
(* The queue underneath.                                                   *)

\* Every step of the handlers is a step of the queue or leaves it alone.
LEMMA HandlersRunTheQueue ==
  ASSUME [WorkshopNext]_workshopVars
  PROVE  [QueueNext]_queueVars
<1>1. ASSUME NEW m \in Tasks, ReceiveAccepted(m) \/ ReceiveBusy(m) \/ Proceed(m)
      PROVE  [QueueNext]_queueVars
  <2>1. \/ Reject(m) \/ Admit(m) \/ EnterGate(m) \/ EndTask(m) \/ CleanUp(m)
        \/ UNCHANGED queueVars
    BY <1>1
    DEF ReceiveAccepted, ReceiveBusy, Proceed, StartTurn, StartAborted,
        AskReturns, AskAborted, AskFails, Deliver, FinishTurn, FinishFails, CatchAbort,
        CatchError, Unregister, QueueStep
  <2>2. QED
    BY <2>1 DEF QueueNext
<1>2. ASSUME NEW c \in Channels, CloseSession(c)
      PROVE  UNCHANGED queueVars
  BY <1>2 DEF CloseSession
<1>3. CASE UNCHANGED workshopVars
  BY <1>3 DEF workshopVars
<1>4. QED
  BY <1>1, <1>2, <1>3 DEF WorkshopNext

\* The workshop sessions are a client that keeps the queue's contract.
THEOREM WorkshopRunsTheQueue == WorkshopSpec => QueueBehaviour
<1>1. WorkshopInit => QueueInit
  BY DEF WorkshopInit
<1>2. [WorkshopNext]_workshopVars => [QueueNext]_queueVars
  BY HandlersRunTheQueue
<1>3. QED
  BY <1>1, <1>2, PTL DEF WorkshopSpec, QueueSpec, QueueBehaviour

-----------------------------------------------------------------------------
(* The handlers.                                                           *)

\* A new message interrupts the registered one and takes its place.
LEMMA InterruptKeepsInv ==
  ASSUME NEW m \in Tasks, QueueIndInv, TurnsIndInv,
         ReceiveAccepted(m) \/ ReceiveBusy(m)
  PROVE  TurnsIndInv'
<1> DEFINE c == ChannelOf[m]
<1>1. /\ c \in Channels /\ stage[m] = "absent" /\ step[m] = "none"
      /\ m \notin aborted
  BY ChannelOfAssumption
  DEF ReceiveAccepted, ReceiveBusy, Admit, Reject, TurnsIndInv, AbortedBegan
<1>2. /\ aborted' = aborted \union Superseded(m)
      /\ turnAborts' = [turnAborts EXCEPT ![c] = m]
      /\ step' = [step EXCEPT ![m] = IF ReceiveAccepted(m) THEN "queued"
                                     ELSE "telling"]
      /\ UNCHANGED <<sessionOpen, posted>>
      /\ newest' = [newest EXCEPT ![c] = m]
      /\ outcome' = IF ReceiveAccepted(m) THEN outcome ELSE [outcome EXCEPT ![m] = "busy"]
  BY DEF ReceiveAccepted, ReceiveBusy, InterruptOlder, Admit, Reject
<1>3. [QueueNext]_queueVars
  BY DEF ReceiveAccepted, ReceiveBusy, QueueNext
<1>4. /\ Superseded(m) \subseteq Tasks
      /\ \A n \in Superseded(m) : n = turnAborts[c] /\ ChannelOf[n] = c /\ Live(n)
  BY <1>1 DEF Superseded, TurnsIndInv, RegisteredIsLive
<1>5. TurnsTypes'
  BY <1>1, <1>2, <1>4 DEF TurnsIndInv, TurnsTypes, Step, Outcome
<1>6. HandlersMatchStages'
  <2>1. \A n \in Tasks \ {m} : stage'[n] = stage[n]
    BY DEF ReceiveAccepted, ReceiveBusy, Admit, Reject, QueueIndInv, QueueTypeOK
  <2>2. stage'[m] # "absent"
    BY DEF ReceiveAccepted, ReceiveBusy, Admit, Reject, QueueIndInv, QueueTypeOK
  <2>3. QED
    BY <1>2, <2>1, <2>2 DEF TurnsIndInv, TurnsTypes, HandlersMatchStages
<1>7. RegisteredIsLive'
  BY <1>1, <1>2 DEF TurnsIndInv, TurnsTypes, RegisteredIsLive, Live
<1>8. OneLiveTurn'
  <2>1. SUFFICES ASSUME NEW n \in Tasks, Live(n)', n \notin aborted'
                 PROVE  turnAborts'[ChannelOf[n]] = n
    BY DEF OneLiveTurn
  <2>2. CASE n = m
    BY <1>1, <1>2, <2>2 DEF TurnsIndInv, TurnsTypes
  <2>3. CASE n # m
    <3>1. turnAborts[ChannelOf[n]] = n
      BY <1>2, <2>1, <2>3 DEF TurnsIndInv, TurnsTypes, OneLiveTurn, Live
    <3>2. ChannelOf[n] # c
      BY <1>2, <2>1, <3>1, NoneAssumption DEF Superseded
    <3>3. QED
      BY <1>2, <3>1, <3>2, ChannelOfAssumption DEF TurnsIndInv, TurnsTypes
  <2>4. QED
    BY <2>2, <2>3
<1>9. NewestIsHeard' /\ AbortedBegan'
  <2>1. ASSUME NEW d \in Channels, d # c, newest[d] # None
        PROVE  newest'[d] = newest[d] /\ newest[d] \notin aborted'
    <3>1. newest'[d] = newest[d]
      BY <1>1, <1>2, <2>1 DEF TurnsIndInv, TurnsTypes
    <3>2. newest[d] \notin Superseded(m)
      BY <1>4, <2>1 DEF TurnsIndInv, NewestIsHeard
    <3>3. QED
      BY <1>2, <2>1, <3>1, <3>2 DEF TurnsIndInv, NewestIsHeard
  <2>2. m \notin aborted' /\ newest'[c] = m
    <3>1. m \notin Superseded(m)
      BY <1>1, <1>4 DEF Live
    <3>2. m \notin aborted'
      BY <1>1, <1>2, <3>1
    <3>3. newest'[c] = m
      <4>1. newest' = [newest EXCEPT ![c] = m]
        BY <1>2
      <4>2. newest \in [Channels -> Tasks \union {None}] /\ c \in Channels
        BY <1>1 DEF TurnsIndInv, TurnsTypes
      <4>3. QED
        BY <4>1, <4>2
    <3>4. QED
      BY <3>2, <3>3
  <2>3. /\ \A d \in Channels : d # c => turnAborts'[d] = turnAborts[d]
        /\ turnAborts'[c] = m
        /\ step'[m] # "none" /\ \A n \in Tasks \ {m} : step'[n] = step[n]
    <3>1. turnAborts' = [turnAborts EXCEPT ![c] = m]
      BY <1>2
    <3>2. \E x \in {"queued", "telling"} : step' = [step EXCEPT ![m] = x]
      BY <1>2
    <3>3. /\ turnAborts \in [Channels -> Tasks \union {None}] /\ c \in Channels
          /\ step \in [Tasks -> Step]
      BY <1>1 DEF TurnsIndInv, TurnsTypes
    <3>4. step'[m] # "none" /\ \A n \in Tasks \ {m} : step'[n] = step[n]
      BY <3>2, <3>3
    <3>5. QED
      BY <3>1, <3>3, <3>4
  <2>4. NewestIsHeard'
    <3>1. SUFFICES ASSUME NEW d \in Channels
                   PROVE  /\ newest'[d] # None =>
                               /\ newest'[d] \in Tasks \ aborted' /\ ChannelOf[newest'[d]] = d
                               /\ step'[newest'[d]] # "none"
                          /\ turnAborts'[d] # None => turnAborts'[d] = newest'[d]
      BY DEF NewestIsHeard
    <3>2. CASE d = c
      BY <2>2, <2>3, <3>2
    <3>3. CASE d # c
      <4>1. /\ newest'[d] = newest[d] /\ turnAborts'[d] = turnAborts[d]
            /\ newest[d] # None => newest[d] \in Tasks /\ ChannelOf[newest[d]] = d
                                   /\ step[newest[d]] # "none"
            /\ turnAborts[d] # None => turnAborts[d] = newest[d]
        BY <1>1, <1>2, <2>3, <3>3 DEF TurnsIndInv, TurnsTypes, NewestIsHeard
      <4>2. QED
        BY <2>1, <2>3, <3>3, <4>1
    <3>4. QED
      BY <3>2, <3>3
  <2>5. AbortedBegan'
    <3>1. ASSUME NEW n \in Tasks, n \in aborted' PROVE step'[n] # "none"
      BY <1>1, <1>2, <1>4, <2>3, <3>1 DEF TurnsIndInv, AbortedBegan, Live
    <3>2. ASSUME NEW n \in Tasks, step'[n] # "none" PROVE newest'[ChannelOf[n]] # None
      <4>1. CASE ChannelOf[n] = c
        BY <2>2, <4>1, NoneAssumption
      <4>2. CASE ChannelOf[n] # c
        BY <1>2, <2>3, <3>2, <4>2, ChannelOfAssumption
        DEF TurnsIndInv, TurnsTypes, AbortedBegan
      <4>3. QED
        BY <4>1, <4>2
    <3>3. QED
      BY <3>1, <3>2 DEF AbortedBegan
  <2>6. QED
    BY <2>4, <2>5
<1>12. EndsAreTold'
  BY <1>1, <1>2 DEF TurnsIndInv, TurnsTypes, EndsAreTold
<1>10. DroppedWereAborted'
  BY <1>1, <1>2 DEF TurnsIndInv, TurnsTypes, DroppedWereAborted
<1>11. QED
  BY <1>5, <1>6, <1>7, <1>8, <1>9, <1>10, <1>12 DEF TurnsIndInv

\* The rest of a message's life raises no flag and registers nothing.
LEMMA ProceedKeepsInv ==
  ASSUME NEW m \in Tasks, QueueIndInv, TurnsIndInv, Proceed(m)
  PROVE  TurnsIndInv'
<1>1. [QueueNext]_queueVars /\ aborted' = aborted
  <2>1. [WorkshopNext]_workshopVars
    BY DEF WorkshopNext
  <2>2. aborted' = aborted
    BY DEF Proceed, StartTurn, StartAborted, AskReturns, AskAborted, AskFails,
           Deliver, FinishTurn, FinishFails, CatchAbort, CatchError, Unregister, QueueStep,
           turnVars
  <2>3. QED
    BY <2>1, <2>2, HandlersRunTheQueue
<1>2. TurnsTypes'
  <2>1. CASE Deliver(m)
    BY <2>1 DEF Deliver, TurnsIndInv, TurnsTypes, Step, Outcome
  <2>2. CASE StartTurn(m) \/ StartAborted(m) \/ AskReturns(m) \/ AskAborted(m)
    BY <2>2
    DEF StartTurn, StartAborted, AskReturns, AskAborted, TurnsIndInv,
        TurnsTypes, Step
  <2>3. CASE AskFails(m) \/ CatchAbort(m) \/ CatchError(m)
    BY <2>3
    DEF AskFails, CatchAbort, CatchError, TurnsIndInv, TurnsTypes, Step, Outcome
  <2>4. CASE FinishTurn(m) \/ FinishFails(m)
    BY <2>4 DEF FinishTurn, FinishFails, TurnsIndInv, TurnsTypes, Step
  <2>5. CASE Unregister(m) \/ QueueStep(m)
    BY <2>5 DEF Unregister, QueueStep, turnVars, TurnsIndInv, TurnsTypes, Step
  <2>6. QED
    BY <2>1, <2>2, <2>3, <2>4, <2>5 DEF Proceed
<1>3. \A n \in Tasks : /\ step'[n] = "none" <=> step[n] = "none"
                       /\ Live(n)' => Live(n)
  BY DEF Proceed, StartTurn, StartAborted, AskReturns, AskAborted, AskFails,
         Deliver, FinishTurn, FinishFails, CatchAbort, CatchError, Unregister, QueueStep,
         turnVars, TurnsIndInv, TurnsTypes, Live
<1>4. HandlersMatchStages'
  <2>1. \A n \in Tasks : stage'[n] = "absent" <=> stage[n] = "absent"
    BY DEF Proceed, StartTurn, StartAborted, AskReturns, AskAborted, AskFails,
           Deliver, FinishTurn, FinishFails, CatchAbort, CatchError, Unregister, QueueStep,
           EnterGate, EndTask, CleanUp, queueVars, QueueIndInv, QueueTypeOK
  <2>2. QED
    BY <1>3, <2>1 DEF TurnsIndInv, HandlersMatchStages
<1>5. RegisteredIsLive' /\ OneLiveTurn'
  <2>1. CASE Unregister(m)
    <3>1. /\ turnAborts' = [turnAborts EXCEPT ![ChannelOf[m]] =
                                IF @ = m THEN None ELSE @]
          /\ step' = [step EXCEPT ![m] = "over"]
      BY <2>1 DEF Unregister
    <3>2. ~Live(m)' /\ \A n \in Tasks \ {m} : Live(n)' <=> Live(n)
      BY <3>1 DEF Live, TurnsIndInv, TurnsTypes
    <3>3. RegisteredIsLive'
      BY <3>1, <3>2 DEF TurnsIndInv, TurnsTypes, RegisteredIsLive
    <3>4. OneLiveTurn'
      BY <1>1, <3>1, <3>2, ChannelOfAssumption
      DEF TurnsIndInv, TurnsTypes, OneLiveTurn
    <3>5. QED
      BY <3>3, <3>4
  <2>2. CASE ~Unregister(m)
    <3>1. turnAborts' = turnAborts
      BY <2>2
      DEF Proceed, StartTurn, StartAborted, AskReturns, AskAborted, AskFails,
          Deliver, FinishTurn, FinishFails, CatchAbort, CatchError, QueueStep, turnVars
    <3>2. \A n \in Tasks : Live(n)' <=> Live(n)
      BY <2>2
      DEF Proceed, StartTurn, StartAborted, AskReturns, AskAborted, AskFails,
          Deliver, FinishTurn, FinishFails, CatchAbort, CatchError, QueueStep, turnVars,
          Live, TurnsIndInv, TurnsTypes
    <3>3. QED
      BY <1>1, <3>1, <3>2 DEF TurnsIndInv, RegisteredIsLive, OneLiveTurn
  <2>3. QED
    BY <2>1, <2>2
<1>6. NewestIsHeard' /\ AbortedBegan'
  <2>1. newest' = newest
    BY DEF Proceed, StartTurn, StartAborted, AskReturns, AskAborted, AskFails,
           Deliver, FinishTurn, FinishFails, CatchAbort, CatchError, Unregister,
           QueueStep, turnVars
  <2>2. \A c \in Channels : turnAborts'[c] # None => turnAborts'[c] = turnAborts[c]
    BY DEF Proceed, StartTurn, StartAborted, AskReturns, AskAborted, AskFails,
           Deliver, FinishTurn, FinishFails, CatchAbort, CatchError, Unregister,
           QueueStep, turnVars, TurnsIndInv, TurnsTypes
  <2>3. QED
    BY <1>1, <1>3, <2>1, <2>2 DEF TurnsIndInv, TurnsTypes, NewestIsHeard, AbortedBegan
<1>9. EndsAreTold'
  <2> USE DEF TurnsIndInv, TurnsTypes, EndsAreTold
  <2>1. CASE StartTurn(m) \/ StartAborted(m) \/ AskReturns(m) \/ AskAborted(m)
    BY <2>1 DEF StartTurn, StartAborted, AskReturns, AskAborted
  <2>2. CASE AskFails(m)
    BY <2>2 DEF AskFails
  <2>3. CASE Deliver(m)
    BY <2>3 DEF Deliver
  <2>4. CASE FinishTurn(m) \/ FinishFails(m)
    <3>1. outcome[m] # "none"
      BY <2>4 DEF FinishTurn, FinishFails
    <3>2. QED
      BY <2>4, <3>1 DEF FinishTurn, FinishFails
  <2>5. CASE CatchAbort(m) \/ CatchError(m)
    BY <2>5 DEF CatchAbort, CatchError
  <2>6. CASE Unregister(m) \/ QueueStep(m)
    BY <2>6 DEF Unregister, QueueStep, turnVars
  <2>7. QED
    BY <2>1, <2>2, <2>3, <2>4, <2>5, <2>6 DEF Proceed
<1>7. DroppedWereAborted'
  BY <1>1
  DEF Proceed, StartTurn, StartAborted, AskReturns, AskAborted, AskFails,
      Deliver, FinishTurn, FinishFails, CatchAbort, CatchError, Unregister, QueueStep,
      turnVars, TurnsIndInv, TurnsTypes, DroppedWereAborted
<1>8. QED
  BY <1>2, <1>4, <1>5, <1>6, <1>7, <1>9 DEF TurnsIndInv

\* The handlers agree with the queue and with each other, in every state.
THEOREM TurnsInvariant == WorkshopSpec => [](QueueIndInv /\ TurnsIndInv)
<1>1. WorkshopInit => TurnsIndInv
  BY NoneAssumption
  DEF WorkshopInit, QueueInit, TurnsIndInv, TurnsTypes, Step, Outcome,
      HandlersMatchStages, RegisteredIsLive, OneLiveTurn, NewestIsHeard,
      AbortedBegan, EndsAreTold, DroppedWereAborted, Live
<1>2. QueueIndInv /\ TurnsIndInv /\ [WorkshopNext]_workshopVars => TurnsIndInv'
  <2>1. SUFFICES ASSUME QueueIndInv, TurnsIndInv, [WorkshopNext]_workshopVars
                 PROVE  TurnsIndInv'
    OBVIOUS
  <2>2. ASSUME NEW c \in Channels, CloseSession(c)
        PROVE  TurnsIndInv'
    BY <2>1, <2>2
    DEF CloseSession, queueVars, TurnsIndInv, TurnsTypes, HandlersMatchStages,
        RegisteredIsLive, OneLiveTurn, NewestIsHeard, AbortedBegan,
        EndsAreTold, DroppedWereAborted, Live
  <2>3. CASE UNCHANGED workshopVars
    BY <2>1, <2>3
    DEF workshopVars, turnVars, queueVars, TurnsIndInv, TurnsTypes,
        HandlersMatchStages, RegisteredIsLive, OneLiveTurn, NewestIsHeard,
        AbortedBegan, EndsAreTold, DroppedWereAborted, Live
  <2>4. QED
    BY <2>1, <2>2, <2>3, InterruptKeepsInv, ProceedKeepsInv DEF WorkshopNext
<1>3. WorkshopSpec => []QueueIndInv
  BY WorkshopRunsTheQueue, QueueInvariant DEF QueueBehaviour
<1>4. QED
  BY <1>1, <1>2, <1>3, PTL DEF WorkshopSpec

\* One conversation per session: a late finally block never unregisters a
\* newer message, and two uninterrupted turns never coexist.
THEOREM OneConversation == WorkshopSpec => []OneLiveTurn
<1>1. TurnsIndInv => OneLiveTurn
  BY DEF TurnsIndInv
<1>2. QED
  BY <1>1, TurnsInvariant, PTL

\* The types of the handlers and of the queue under them.
THEOREM TurnsTypesCorrect == WorkshopSpec => []TurnsTypeOK
<1>1. QueueIndInv /\ TurnsIndInv => TurnsTypeOK
  BY DEF QueueIndInv, TurnsIndInv, TurnsTypes, TurnsTypeOK
<1>2. QED
  BY <1>1, TurnsInvariant, PTL

\* When a message was dropped in silence the newest one of its session was not: it
\* is being handled or got an answer, an error or the busy reply.
THEOREM NewestIsNeverDropped == WorkshopSpec => []NewestNeverDropped
<1>1. TurnsIndInv => NewestNeverDropped
  <2>1. SUFFICES ASSUME TurnsIndInv, NEW m \in Tasks, outcome[m] = "discarded"
                 PROVE  LET n == newest[ChannelOf[m]] IN
                        /\ n \in Tasks \ (aborted \union {m})
                        /\ step[n] = "over" => outcome[n] \in {"answered", "failed", "busy"}
    BY DEF NewestNeverDropped
  <2>2. m \in aborted /\ step[m] # "none" /\ ChannelOf[m] \in Channels
    BY <2>1, ChannelOfAssumption DEF TurnsIndInv, DroppedWereAborted, AbortedBegan
  <2>3. PICK n \in Tasks \ aborted : n = newest[ChannelOf[m]]
    BY <2>1, <2>2 DEF TurnsIndInv, AbortedBegan, NewestIsHeard
  <2>4. step[n] = "over" => outcome[n] \in {"answered", "failed", "busy"}
    BY <2>1, <2>3 DEF TurnsIndInv, TurnsTypes, Outcome, DroppedWereAborted, EndsAreTold
  <2>5. QED
    BY <2>2, <2>3, <2>4
<1>2. QED
  BY <1>1, TurnsInvariant, PTL

\* No flag outlives the handlers that could still raise or read it.
THEOREM FlagsAreCleared == WorkshopSpec => []NoFlagLeftBehind
<1>1. TurnsIndInv => NoFlagLeftBehind
  BY DEF TurnsIndInv, RegisteredIsLive, NoFlagLeftBehind
<1>2. QED
  BY <1>1, TurnsInvariant, PTL

\* A turn that goes on to post is the newest of its session at that moment.
THEOREM NewestTurnPosts == WorkshopSpec => OnlyNewestPosts
<1>1. TurnsIndInv /\ [WorkshopNext]_workshopVars =>
        [\A m \in Tasks :
           step[m] = "asking" /\ step'[m] = "posting"
           => turnAborts[ChannelOf[m]] = m]_workshopVars
  <2>1. SUFFICES ASSUME TurnsIndInv, WorkshopNext,
                        NEW m \in Tasks, step[m] = "asking", step'[m] = "posting"
                 PROVE  turnAborts[ChannelOf[m]] = m
    OBVIOUS
  <2>2. m \notin aborted
    BY <2>1
    DEF WorkshopNext, ReceiveAccepted, ReceiveBusy, Proceed, StartTurn,
        StartAborted, AskReturns, AskAborted, AskFails, Deliver, FinishTurn, FinishFails,
        CatchAbort, CatchError, Unregister, QueueStep, turnVars, CloseSession,
        TurnsIndInv, TurnsTypes
  <2>3. QED
    BY <2>1, <2>2 DEF TurnsIndInv, OneLiveTurn, Live
<1>2. QED
  BY <1>1, TurnsInvariant, PTL DEF WorkshopSpec, OnlyNewestPosts

-----------------------------------------------------------------------------
(* The order of the answers.                                               *)

\* A message is handled inside its turn until its answer is out, and an answer
\* came from a turn that was in the gate.
AnswersInv ==
  /\ AnswersInOrder
  /\ \A m \in Tasks : step[m] \in {"asking", "posting", "effects"} => stage[m] = "entered"
  /\ \A a \in DOMAIN posted :
       /\ step[posted[a]] \in {"effects", "threwError", "telling", "leaving", "over"}
       /\ stage[posted[a]] \in {"entered", "settled", "done"}

LEMMA TurnKeepsAnswers ==
  ASSUME QueueIndInv, TurnsIndInv, AnswersInv, [WorkshopNext]_workshopVars
  PROVE  AnswersInv'
<1>1. /\ \A m \in Tasks : stage[m] # "absent" => at'[m] = at[m]
      /\ \A a \in DOMAIN posted : posted[a] \in Tasks /\ stage[posted[a]] # "absent"
      /\ posted \in Seq(Tasks)
  BY HandlersRunTheQueue, QueueRemembers DEF AnswersInv, TurnsIndInv, TurnsTypes
<1>2. \A m \in Tasks :
        stage[m] \in {"entered", "settled", "done"} =>
          stage'[m] \in {"entered", "settled", "done"}
  <2>1. [QueueNext]_queueVars
    BY HandlersRunTheQueue
  <2>2. QED
    BY <2>1 DEF QueueNext, queueVars, Reject, Admit, EnterGate, EndTask, CleanUp,
                QueueIndInv, QueueTypeOK
<1>3. ASSUME NEW m \in Tasks, ReceiveAccepted(m) \/ ReceiveBusy(m) \/ Proceed(m)
      PROVE  /\ \A n \in Tasks \ {m} : step'[n] = step[n] /\ stage'[n] = stage[n]
             /\ step'[m] \in {"asking", "posting", "effects"} => stage'[m] = "entered"
             /\ step[m] \in {"effects", "threwError", "telling", "leaving", "over"} =>
                  step'[m] \in {"effects", "threwError", "telling", "leaving", "over"}
             /\ \/ posted' = posted
                \/ /\ posted' = Append(posted, m) /\ step[m] = "posting" /\ step'[m] = "effects"
                   /\ UNCHANGED queueVars
  <2>1. CASE ReceiveAccepted(m) \/ ReceiveBusy(m)
    BY <2>1 DEF ReceiveAccepted, ReceiveBusy, Admit, Reject, TurnsIndInv, TurnsTypes,
                QueueIndInv, QueueTypeOK
  <2>2. CASE StartTurn(m)
    BY <2>2 DEF StartTurn, queueVars, TurnsIndInv, TurnsTypes, QueueIndInv, GateMatchesStages
  <2>3. CASE AskReturns(m) \/ Deliver(m)
    BY <2>3 DEF AskReturns, Deliver, queueVars, TurnsIndInv, TurnsTypes, AnswersInv
  <2>4. CASE StartAborted(m) \/ AskAborted(m) \/ AskFails(m)
    BY <2>4 DEF StartAborted, AskAborted, AskFails, EndTask, TurnsIndInv,
                TurnsTypes, QueueIndInv, QueueTypeOK
  <2>8. CASE FinishTurn(m)
    BY <2>8 DEF FinishTurn, EndTask, TurnsIndInv, TurnsTypes, QueueIndInv, QueueTypeOK
  <2>9. CASE FinishFails(m)
    <3>1. step[m] = "effects" /\ step' = [step EXCEPT ![m] = "threwError"]
      BY <2>9 DEF FinishFails
    <3>2. stage' = [stage EXCEPT ![m] = "settled"] /\ posted' = posted
      BY <2>9 DEF FinishFails, EndTask
    <3>3. QED
      BY <3>1, <3>2 DEF TurnsIndInv, TurnsTypes, QueueIndInv, QueueTypeOK
  <2>5. CASE CatchAbort(m) \/ CatchError(m) \/ Unregister(m)
    BY <2>5 DEF CatchAbort, CatchError, Unregister, queueVars, TurnsIndInv, TurnsTypes
  <2>6. CASE QueueStep(m)
    BY <2>6 DEF QueueStep, turnVars, EnterGate, CleanUp, AnswersInv, QueueIndInv, QueueTypeOK
  <2>7. QED
    BY <1>3, <2>1, <2>2, <2>3, <2>4, <2>5, <2>6, <2>8, <2>9 DEF Proceed
<1>4. CASE posted' = posted
  <2>1. /\ \A m \in Tasks : step'[m] \in {"asking", "posting", "effects"} => stage'[m] = "entered"
        /\ \A m \in Tasks : step[m] \in {"effects", "threwError", "telling", "leaving", "over"} =>
                             step'[m] \in {"effects", "threwError", "telling", "leaving", "over"}
    <3>1. CASE \E m \in Tasks : ReceiveAccepted(m) \/ ReceiveBusy(m) \/ Proceed(m)
      BY <1>3, <3>1 DEF AnswersInv
    <3>2. CASE (\E c \in Channels : CloseSession(c)) \/ UNCHANGED workshopVars
      BY <3>2 DEF CloseSession, workshopVars, turnVars, queueVars, AnswersInv
    <3>3. QED
      BY <3>1, <3>2 DEF WorkshopNext
  <2>2. AnswersInOrder'
    BY <1>1, <1>4 DEF AnswersInv, AnswersInOrder
  <2>3. QED
    BY <1>1, <1>2, <1>4, <2>1, <2>2 DEF AnswersInv
<1>5. ASSUME NEW m \in Tasks, posted' = Append(posted, m),
             step[m] = "posting", step'[m] = "effects", UNCHANGED queueVars,
             ReceiveAccepted(m) \/ ReceiveBusy(m) \/ Proceed(m)
      PROVE  AnswersInv'
  <2>1. /\ stage[m] = "entered" /\ UNCHANGED <<stage, at>>
    BY <1>5 DEF AnswersInv, queueVars
  <2>2. /\ \A a \in DOMAIN posted' :
             \/ a \in DOMAIN posted /\ posted'[a] = posted[a]
             \/ a = Len(posted) + 1 /\ posted'[a] = m
        /\ \A a \in DOMAIN posted : a \in Nat /\ a <= Len(posted)
        /\ Len(posted) \in Nat
    <3>1. /\ Len(posted) \in Nat /\ Len(posted') = Len(posted) + 1
          /\ posted'[Len(posted) + 1] = m
          /\ \A a \in 1..Len(posted) : posted'[a] = posted[a]
          /\ posted' \in Seq(Tasks)
      BY <1>1, <1>5
    <3>2. DOMAIN posted = 1..Len(posted) /\ DOMAIN posted' = 1..Len(posted')
      BY <1>1, <3>1
    <3>3. ASSUME NEW k \in 1..(Len(posted) + 1)
          PROVE  k \in 1..Len(posted) \/ k = Len(posted) + 1
      BY <3>1
    <3>4. DOMAIN posted' = 1..(Len(posted) + 1)
      BY <3>1, <3>2
    <3>5. \A k \in DOMAIN posted' :
             \/ k \in DOMAIN posted /\ posted'[k] = posted[k]
             \/ k = Len(posted) + 1 /\ posted'[k] = m
      <4>1. TAKE k \in DOMAIN posted'
      <4>2. k \in 1..(Len(posted) + 1)
        BY <3>4
      <4>3. CASE k \in 1..Len(posted)
        BY <3>1, <3>2, <4>3
      <4>4. CASE k = Len(posted) + 1
        BY <3>1, <4>4
      <4>5. QED
        BY <3>3, <4>2, <4>3, <4>4
    <3>6. \A k \in DOMAIN posted : k \in Nat /\ k <= Len(posted)
      BY <3>1, <3>2
    <3>7. QED
      BY <3>1, <3>5, <3>6
  <2>3. ASSUME NEW a \in DOMAIN posted, ChannelOf[posted[a]] = ChannelOf[m]
        PROVE  at[posted[a]] < at[m]
    <3>1. PICK n \in Tasks : n = posted[a] /\ n # m
      BY <1>1, <1>5 DEF AnswersInv
    <3>2. /\ Accepted(n) /\ Accepted(m) /\ stage[n] # "chained" /\ ~Settled(m)
      BY <2>1, <3>1 DEF AnswersInv, Accepted, Settled
    <3>3. ~(at[m] < at[n]) /\ at[m] # at[n] /\ at[m] \in Nat /\ at[n] \in Nat
      BY <2>3, <3>1, <3>2 DEF QueueIndInv, ChannelFIFO, StampsInOrder, QueueTypeOK
    <3>4. QED
      BY <3>1, <3>3
  <2>4. AnswersInOrder'
    <3>1. SUFFICES ASSUME NEW a \in DOMAIN posted', NEW j \in DOMAIN posted', a < j,
                          ChannelOf[posted'[a]] = ChannelOf[posted'[j]]
                   PROVE  at[posted'[a]] < at[posted'[j]]
      BY <2>1 DEF AnswersInOrder
    <3>2. a \in DOMAIN posted /\ posted'[a] = posted[a]
      BY <2>2, <3>1
    <3>3. CASE j \in DOMAIN posted /\ posted'[j] = posted[j]
      BY <3>1, <3>2, <3>3 DEF AnswersInv, AnswersInOrder
    <3>4. CASE posted'[j] = m
      BY <2>3, <3>1, <3>2, <3>4
    <3>5. QED
      BY <2>2, <3>3, <3>4
  <2>5. \A n \in Tasks \ {m} : step'[n] = step[n]
    BY <1>3, <1>5
  <2>6. QED
    BY <1>1, <1>5, <2>1, <2>2, <2>4, <2>5 DEF AnswersInv
<1>6. CASE posted' # posted
  <2>1. PICK m \in Tasks : ReceiveAccepted(m) \/ ReceiveBusy(m) \/ Proceed(m)
    BY <1>6 DEF WorkshopNext, CloseSession, workshopVars, turnVars
  <2>2. QED
    BY <1>3, <1>5, <1>6, <2>1
<1>7. QED
  BY <1>4, <1>6

\* The answers of a session are posted in the order of its messages, for any number
\* of messages, sessions and slots.
THEOREM AnswersComeInOrder == WorkshopSpec => []AnswersInOrder
<1>1. WorkshopInit => AnswersInv
  BY DEF WorkshopInit, QueueInit, AnswersInv, AnswersInOrder
<1>2. QueueIndInv /\ TurnsIndInv /\ AnswersInv /\ [WorkshopNext]_workshopVars => AnswersInv'
  BY TurnKeepsAnswers
<1>3. AnswersInv => AnswersInOrder
  BY DEF AnswersInv
<1>4. QED
  BY <1>1, <1>2, <1>3, TurnsInvariant, PTL DEF WorkshopSpec

-----------------------------------------------------------------------------
(* The conversation of one turn (AskLoop).                                 *)

(* No call runs twice.                                                     *)

Deduplicated == Calls \ Uncached

\* A call that succeeded is in the cache of the running attempt, and it was
\* counted: an attempt that counted nothing ran nothing.
RanOnce ==
  /\ ran \in [Calls -> Nat]
  /\ executed \in Nat
  /\ \A c \in Deduplicated :
       /\ ran[c] <= 1
       /\ ran[c] = 1 => c \in cache /\ executed > 0

LEMMA RanOnceInit == AskInit => RanOnce
  BY DEF AskInit, RanOnce, Deduplicated

\* The handlers run on the calls that the cache does not answer.
LEMMA RanOnceRun ==
  ASSUME RanOnce, RunTool PROVE RanOnce'
<1> DEFINE c == Head(pending)
<1>1. /\ c \in Calls /\ ~Cached(c)
      /\ ran' = [ran EXCEPT ![c] = @ + 1]
      /\ cache' = IF Cacheable(c) THEN cache \cup {c} ELSE cache
      /\ executed' = executed + 1
  BY DEF RunTool
<1>2. /\ ran' \in [Calls -> Nat] /\ executed' \in Nat
  BY <1>1 DEF RanOnce
<1>3. ASSUME NEW d \in Deduplicated
      PROVE  /\ ran'[d] <= 1
             /\ ran'[d] = 1 => d \in cache' /\ executed' > 0
  <2>1. cache \subseteq cache'
    BY <1>1
  <2>2. CASE d # c
    BY <1>1, <2>1, <2>2 DEF RanOnce, Deduplicated
  <2>3. CASE d = c
    <3>1. Cacheable(d) /\ d \notin cache
      BY <1>1, <2>3 DEF Deduplicated, Cacheable, Cached
    <3>2. d \in cache'
      BY <1>1, <2>3, <3>1
    <3>3. ran[d] = 0
      BY <3>1 DEF RanOnce, Deduplicated
    <3> QED BY <1>1, <2>3, <3>2, <3>3 DEF RanOnce, Deduplicated
  <2> QED BY <2>2, <2>3
<1> QED BY <1>2, <1>3 DEF RanOnce

\* A second attempt starts with an empty cache, after one that ran nothing.
LEMMA RanOnceRecover ==
  ASSUME RanOnce, Recover PROVE RanOnce'
<1>1. CASE MayRestart
  BY <1>1 DEF RanOnce, Recover, MayRestart, Deduplicated
<1>2. CASE ~MayRestart
  BY <1>2 DEF RanOnce, Recover, Deduplicated
<1> QED BY <1>1, <1>2

LEMMA RanOnceNext ==
  ASSUME RanOnce, [AskNext]_askVars PROVE RanOnce'
<1> USE DEF RanOnce, Deduplicated, outer
<1>1. CASE RunTool
  BY <1>1, RanOnceRun
<1>2. CASE Recover
  BY <1>2, RanOnceRecover
<1>3. CASE RejectCall
  BY <1>3 DEF RejectCall
<1>4. CASE AnswerFromCache
  BY <1>4 DEF AnswerFromCache
<1>5. CASE ToolFails
  BY <1>5 DEF ToolFails
<1>6. CASE \/ SendRequest \/ Stop \/ RunOut \/ ApiFails \/ RequestRefused
           \/ NoChoices \/ NoMessage \/ CallTools \/ Say \/ SayNothing
  BY <1>6 DEF SendRequest, Stop, RunOut, ApiFails, RequestRefused,
              NoChoices, NoMessage, CallTools, Say, SayNothing
<1>7. CASE \/ ToolThrows \/ StopTools \/ ToolsDone \/ StartForcing \/ GiveUp
           \/ ForcedText \/ ForcedNothing \/ ForcedRefused \/ ForcedFails
  BY <1>7 DEF ToolThrows, StopTools, ToolsDone, StartForcing, GiveUp, ForcedText,
              ForcedNothing, ForcedRefused, ForcedFails
<1>8. CASE Interrupt \/ AskSettled \/ UNCHANGED askVars
  BY <1>8 DEF Interrupt, AskSettled, askVars
<1> QED
  BY <1>1, <1>2, <1>3, <1>4, <1>5, <1>6, <1>7, <1>8 DEF AskNext, AskStep

\* Retries of ask() never repeat an effect: neither an empty answer sent again,
\* nor the forcing pass, nor the second attempt after a refusal.
THEOREM NoEffectTwice == AskSpec => []NoCallRunsTwice
<1>1. RanOnce => NoCallRunsTwice
  BY DEF RanOnce, NoCallRunsTwice, Deduplicated
<1> QED
  BY RanOnceInit, RanOnceNext, <1>1, PTL DEF AskSpec

-----------------------------------------------------------------------------
(* The cost of one ask().                                                  *)

Repeats == IF input.retryNoChoices THEN 1 ELSE 0
Repeated == IF loop.noChoices THEN 1 ELSE 0

LoopType == [empty: Nat, degenerate: BOOLEAN, noChoices: BOOLEAN,
             thinking: BOOLEAN, finish: Finishes, forced: 0..2]

PaidTypes ==
  /\ input \in Input /\ loop \in LoopType
  /\ attempt \in {1, 2} /\ i \in 0..MaxIterations /\ requests \in Nat

\* What the running attempt sent: one request per iteration, the repeated one
\* of the classifier, and the forcing pass, which no attempt outlives.
SentNow == i + Repeated + loop.forced
SentBefore == IF attempt = 1 THEN 0 ELSE MaxIterations + Repeats

Paid ==
  /\ PaidTypes
  /\ loop.noChoices => input.retryNoChoices
  /\ pc \notin {"forcing", "done"} => loop.forced = 0
  /\ requests <= SentBefore + SentNow

LEMMA PaidInit == AskInit => Paid
<1> SUFFICES ASSUME AskInit PROVE Paid
  OBVIOUS
<1>1. input \in Input
  BY AskAssumption DEF AskInit, AskAssumption
<1>2. loop \in LoopType /\ loop.noChoices = FALSE /\ loop.forced = 0
  BY <1>1 DEF AskInit, FreshLoop, LoopType, Finishes, Input
<1> QED
  BY <1>1, <1>2, AskAssumption
  DEF AskInit, AskAssumption, Paid, PaidTypes, SentNow, SentBefore, Repeated

LEMMA SentOne == ASSUME Paid PROVE Sent \in Nat /\ Sent <= requests + 1
  BY DEF Sent, Paid, PaidTypes

\* A step that only changes flags that are not counted, and may stop.
LEMMA PaidSame ==
  ASSUME Paid, loop' \in LoopType,
         loop'.noChoices = loop.noChoices, loop'.forced = loop.forced,
         UNCHANGED <<input, attempt, i, requests>>,
         pc' \in {"forcing", "done"} \/ pc \notin {"forcing", "done"}
  PROVE  Paid'
  BY AskAssumption DEF AskAssumption, Paid, PaidTypes, SentNow, SentBefore,
                       Repeated, Repeats

LEMMA PaidSend ==
  ASSUME Paid, SendRequest PROVE Paid'
  BY SentOne, AskAssumption
  DEF AskAssumption, SendRequest, outer, Paid, PaidTypes, SentNow, SentBefore,
      Repeated, Repeats

\* The repeated request sets the flag that counts it.
LEMMA PaidNoChoices ==
  ASSUME Paid, NoChoices PROVE Paid'
<1>1. CASE MayRetryNoChoices
  <2>1. /\ loop' = [loop EXCEPT !.noChoices = TRUE]
        /\ UNCHANGED <<input, attempt, i>>
        /\ requests' = Sent \/ requests' = requests
        /\ pc' \in {"asked", "done"} /\ pc = "asked"
    BY <1>1 DEF NoChoices, Returns
  <2>2. loop.noChoices = FALSE /\ input.retryNoChoices = TRUE
    BY <1>1 DEF MayRetryNoChoices, Paid, PaidTypes, LoopType, Input
  <2>3. /\ loop' \in LoopType
        /\ loop'.noChoices = TRUE /\ loop'.forced = loop.forced
    BY <2>1 DEF Paid, PaidTypes, LoopType
  <2>4. Repeated = 0 /\ Repeated' = 1 /\ loop.forced \in 0..2
    BY <2>2, <2>3 DEF Repeated, Paid, PaidTypes, LoopType
  <2>5. requests' <= SentBefore' + SentNow'
    BY <2>1, <2>3, <2>4, SentOne, AskAssumption
    DEF AskAssumption, Paid, PaidTypes, SentNow, SentBefore, Repeats
  <2> QED
    BY <2>1, <2>2, <2>3, <2>5, SentOne DEF Paid, PaidTypes
<1>2. CASE ~MayRetryNoChoices
  BY <1>2, PaidSame DEF NoChoices, Paid, PaidTypes
<1> QED BY <1>1, <1>2

\* The first attempt cost at most its iterations and the repeated request.
LEMMA PaidRecover ==
  ASSUME Paid, Recover PROVE Paid'
<1>1. CASE MayRestart
  <2>1. /\ attempt = 1 /\ attempt' = 2 /\ i' = 0 /\ pc = "refused"
        /\ pc' = "top" /\ loop' = FreshLoop /\ UNCHANGED <<input, requests>>
    BY <1>1 DEF Recover, MayRestart
  <2>2. /\ loop' \in LoopType
        /\ loop'.noChoices = FALSE /\ loop'.forced = 0
    BY <2>1 DEF FreshLoop, LoopType, Finishes, Input, Paid, PaidTypes
  <2>3. loop.forced = 0 /\ Repeated \in 0..Repeats /\ Repeats \in {0, 1}
    BY <2>1 DEF Paid, PaidTypes, Repeated, Repeats, LoopType, Input
  <2>4. requests <= MaxIterations + Repeats
    BY <2>1, <2>3, AskAssumption
    DEF AskAssumption, Paid, PaidTypes, SentNow, SentBefore
  <2>5. SentBefore' = MaxIterations + Repeats /\ SentNow' = 0
    BY <2>1, <2>2 DEF SentBefore, SentNow, Repeats, Repeated
  <2>6. requests' <= SentBefore' + SentNow'
    BY <2>1, <2>3, <2>4, <2>5, AskAssumption
    DEF AskAssumption, Paid, PaidTypes
  <2> QED
    BY <2>1, <2>2, <2>6, AskAssumption DEF AskAssumption, Paid, PaidTypes
<1>2. CASE ~MayRestart
  BY <1>2, PaidSame DEF Recover, Returns, Paid, PaidTypes
<1> QED BY <1>1, <1>2

\* Each request of the forcing pass counts itself.
LEMMA PaidForced ==
  ASSUME Paid, loop' \in LoopType,
         loop'.noChoices = loop.noChoices, loop'.forced = loop.forced + 1,
         pc' = "forcing", requests' = Sent,
         UNCHANGED <<input, attempt, i>>
  PROVE  Paid'
<1>1. Repeated' = Repeated /\ Repeated \in {0, 1} /\ loop.forced \in 0..2
  BY DEF Repeated, Paid, PaidTypes, LoopType
<1>2. SentBefore' = SentBefore /\ SentBefore \in Nat
  BY AskAssumption DEF AskAssumption, SentBefore, Repeats
<1>3. requests' <= SentBefore' + SentNow'
  BY <1>1, <1>2, SentOne DEF SentNow, Paid, PaidTypes
<1> QED
  BY <1>3, SentOne, AskAssumption DEF AskAssumption, Paid, PaidTypes

LEMMA PaidForce ==
  ASSUME Paid, StartForcing PROVE Paid'
<1>1. loop.forced = 0 /\ loop \in LoopType
  BY DEF StartForcing, Paid, PaidTypes
<1> DEFINE t == loop.thinking /\ loop.finish # "length"
<1>2. loop' = [loop EXCEPT !.forced = 1, !.thinking = t]
  BY DEF StartForcing
<1>3. t \in BOOLEAN
  OBVIOUS
<1> HIDE DEF t
<1> DEFINE l == [loop EXCEPT !.forced = 1]
<1>4. loop' \in LoopType
  <2>1. l \in LoopType
    BY <1>1 DEF LoopType
  <2>2. loop' = [l EXCEPT !.thinking = t]
    BY <1>2
  <2> HIDE DEF l
  <2> QED BY <1>3, <2>1, <2>2 DEF LoopType
<1>5. loop'.noChoices = loop.noChoices /\ loop'.forced = loop.forced + 1
  BY <1>1, <1>2 DEF LoopType
<1> QED
  BY <1>4, <1>5, PaidForced DEF StartForcing, outer

LEMMA PaidForcedNothing ==
  ASSUME Paid, ForcedNothing PROVE Paid'
<1>1. CASE loop.forced < 2
  <2>1. loop' = [loop EXCEPT !.forced = @ + 1] /\ pc' = "forcing"
    BY <1>1 DEF ForcedNothing
  <2>2. /\ loop' \in LoopType /\ loop'.noChoices = loop.noChoices
        /\ loop'.forced = loop.forced + 1
    BY <1>1, <2>1 DEF Paid, PaidTypes, LoopType
  <2> QED
    BY <1>1, <2>1, <2>2, PaidForced DEF ForcedNothing
<1>2. CASE ~(loop.forced < 2)
  BY <1>2, PaidSame DEF ForcedNothing, Returns, Paid, PaidTypes
<1> QED BY <1>1, <1>2

LEMMA PaidSayNothing ==
  ASSUME Paid, SayNothing PROVE Paid'
<1>1. PICK f \in Finishes, d \in BOOLEAN :
        LET more == loop.empty + 1 <= MaxEmpty
        IN  loop' = [loop EXCEPT
               !.finish = f, !.empty = @ + 1, !.degenerate = @ \/ d,
               !.thinking = IF more /\ f = "length" THEN FALSE ELSE @]
  BY DEF SayNothing
<1>2. loop \in LoopType
  BY DEF Paid, PaidTypes
<1>3. /\ loop.empty + 1 \in Nat
      /\ loop.degenerate \/ d \in BOOLEAN
  BY <1>2 DEF LoopType
<1>4. /\ loop' \in LoopType /\ loop'.noChoices = loop.noChoices
      /\ loop'.forced = loop.forced
  BY <1>1, <1>2, <1>3 DEF LoopType
<1> QED
  BY <1>4, PaidSame DEF SayNothing, outer

LEMMA PaidSaid ==
  ASSUME Paid, NoMessage \/ CallTools \/ Say PROVE Paid'
<1>1. loop \in LoopType
  BY DEF Paid, PaidTypes
<1>2. PICK f \in Finishes : loop' = [loop EXCEPT !.finish = f]
  BY DEF NoMessage, CallTools, Say, Finishes
<1>3. /\ loop' \in LoopType /\ loop'.noChoices = loop.noChoices
      /\ loop'.forced = loop.forced
  BY <1>1, <1>2 DEF LoopType
<1>4. UNCHANGED <<input, attempt, i, requests>> /\ pc = "asked"
  BY DEF NoMessage, CallTools, Say, outer
<1> QED
  BY <1>3, <1>4, PaidSame

LEMMA PaidOther ==
  ASSUME Paid,
         \/ Stop \/ RunOut \/ ApiFails \/ RequestRefused
         \/ ToolThrows \/ StopTools \/ ToolsDone \/ GiveUp
         \/ ForcedText \/ ForcedRefused \/ ForcedFails
         \/ RejectCall \/ AnswerFromCache \/ RunTool \/ ToolFails
         \/ Interrupt \/ AskSettled \/ UNCHANGED askVars
  PROVE  Paid'
<1>1. UNCHANGED <<input, attempt, i, requests, loop>>
  BY DEF Stop, RunOut, ApiFails, RequestRefused, ToolThrows, StopTools,
         ToolsDone, GiveUp, ForcedText, ForcedRefused, ForcedFails, RejectCall,
         AnswerFromCache, RunTool, ToolFails, Interrupt, AskSettled, askVars, outer
<1>2. pc' = pc \/ pc' = "done" \/ pc \notin {"forcing", "done"}
  BY DEF Stop, RunOut, ApiFails, RequestRefused, ToolThrows, StopTools,
         ToolsDone, GiveUp, ForcedText, ForcedRefused, ForcedFails, RejectCall,
         AnswerFromCache, RunTool, ToolFails, Interrupt, AskSettled, askVars, Returns
<1>3. loop' \in LoopType
  BY <1>1 DEF Paid, PaidTypes
<1> QED
  BY <1>1, <1>2, <1>3, PaidSame

LEMMA PaidNext ==
  ASSUME Paid, [AskNext]_askVars PROVE Paid'
  BY PaidSend, PaidNoChoices, PaidRecover, PaidForce, PaidForcedNothing,
     PaidSayNothing, PaidSaid, PaidOther
  DEF AskNext, AskStep

\* One ask() sends at most RequestBound requests, whatever the provider
\* answers.
THEOREM AskIsBounded == AskSpec => []RequestsBounded
<1>1. ASSUME Paid PROVE RequestsBounded
  <2>1. /\ Repeats \in {0, 1} /\ Repeated \in 0..Repeats
        /\ loop.forced \in 0..2
    BY <1>1 DEF Paid, PaidTypes, Repeated, Repeats, LoopType, Input
  <2>2. SentBefore <= MaxIterations + Repeats
    BY <2>1, AskAssumption DEF AskAssumption, SentBefore
  <2>3. RequestBound = 2 * (MaxIterations + Repeats) + 2
    BY DEF RequestBound, Repeats
  <2> QED
    BY <1>1, <2>1, <2>2, <2>3, AskAssumption
    DEF AskAssumption, RequestsBounded, Paid, PaidTypes, SentNow, SentBefore
<1> QED
  BY PaidInit, PaidNext, <1>1, PTL DEF AskSpec

-----------------------------------------------------------------------------
(* The conversation that is sent.                                          *)

Message == [role : {"user", "assistant", "tool"}, calls : Nat, reasoned : BOOLEAN]

\* The answers of the last message of the model that are still to come.
Owed == IF pc = "tools" THEN Len(pending) ELSE 0

\* Each call of a message is answered in its place, but for the owed ones.
InPlace(c, owed) ==
  \A k \in 1..Len(c) :
    /\ c[k].role = "assistant" =>
         /\ c[k].calls > 0
         /\ k + c[k].calls <= Len(c) + owed
         /\ \A t \in (k + 1)..(k + c[k].calls) : t <= Len(c) => c[t].role = "tool"
    /\ c[k].role = "tool" =>
         \E j \in 1..(k - 1) : c[j].role = "assistant" /\ k <= j + c[j].calls

\* The message whose calls are being run is owed all the answers that miss.
Owes(c, owed) ==
  \E j \in 1..Len(c) : c[j].role = "assistant" /\ j + c[j].calls = Len(c) + owed

Reasons(c) == \A k \in 1..Len(c) : c[k].role = "assistant" => c[k].reasoned

ConvoInv ==
  /\ convo \in Seq(Message) /\ pending \in Seq(Calls \cup BadCalls)
  /\ pc # "done" => InPlace(convo, Owed)
  /\ pc = "tools" => Owes(convo, Len(pending))
  /\ loop.thinking => input.think /\ Reasons(convo)

LEMMA Appended ==
  ASSUME NEW S, NEW s \in Seq(S), NEW e \in S
  PROVE  /\ Append(s, e) \in Seq(S) /\ Len(s) \in Nat
         /\ Len(Append(s, e)) = Len(s) + 1 /\ Append(s, e)[Len(s) + 1] = e
         /\ \A k \in 1..Len(s) : Append(s, e)[k] = s[k] /\ s[k] \in S
  OBVIOUS

\* A message that is no answer goes to the end of a complete conversation.
LEMMA PlaceMessage ==
  ASSUME NEW c \in Seq(Message), InPlace(c, 0),
         NEW m \in Message, m.role # "tool", m.role = "assistant" => m.calls > 0
  PROVE  /\ InPlace(Append(c, m), m.calls)
         /\ m.role = "assistant" => Owes(Append(c, m), m.calls)
<1> DEFINE d == Append(c, m)
<1>1. /\ Len(c) \in Nat /\ Len(d) = Len(c) + 1 /\ d[Len(c) + 1] = m
      /\ \A k \in 1..Len(c) : d[k] = c[k] /\ c[k].calls \in Nat
      /\ m.calls \in Nat
  <2>1. /\ Len(c) \in Nat /\ Len(d) = Len(c) + 1 /\ d[Len(c) + 1] = m
        /\ \A k \in 1..Len(c) : d[k] = c[k] /\ c[k] \in Message
    BY Appended
  <2>2. \A n \in Message : n.calls \in Nat
    BY DEF Message
  <2>3. QED
    BY <2>1, <2>2
<1> HIDE DEF d
<1>2. ASSUME NEW k \in 1..Len(d)
      PROVE  /\ d[k].role = "assistant" =>
                  /\ d[k].calls > 0
                  /\ k + d[k].calls <= Len(d) + m.calls
                  /\ \A t \in (k + 1)..(k + d[k].calls) : t <= Len(d) => d[t].role = "tool"
             /\ d[k].role = "tool" =>
                  \E j \in 1..(k - 1) : d[j].role = "assistant" /\ k <= j + d[j].calls
  <2>1. CASE k = Len(c) + 1
    BY <1>1, <2>1
  <2>2. CASE k \in 1..Len(c)
    <3>1. d[k] = c[k] /\ c[k].calls \in Nat
      BY <1>1, <2>2
    <3>2. ASSUME c[k].role = "assistant"
          PROVE  /\ c[k].calls > 0 /\ k + c[k].calls <= Len(c)
                 /\ \A t \in (k + 1)..(k + c[k].calls) : t \in 1..Len(c) /\ c[t].role = "tool"
      BY <1>1, <2>2, <3>1, <3>2 DEF InPlace
    <3>3. ASSUME c[k].role = "tool"
          PROVE  \E j \in 1..(k - 1) : /\ j \in 1..Len(c)
                                       /\ c[j].role = "assistant" /\ k <= j + c[j].calls
      <4>1. PICK j \in 1..(k - 1) : c[j].role = "assistant" /\ k <= j + c[j].calls
        BY <2>2, <3>3 DEF InPlace
      <4>2. j \in 1..Len(c)
        BY <1>1, <2>2
      <4>3. QED
        BY <4>1, <4>2
    <3>4. ASSUME d[k].role = "assistant"
          PROVE  /\ d[k].calls > 0
                 /\ k + d[k].calls <= Len(d) + m.calls
                 /\ \A t \in (k + 1)..(k + d[k].calls) : t <= Len(d) => d[t].role = "tool"
      BY <1>1, <2>2, <3>1, <3>2, <3>4
    <3>5. ASSUME d[k].role = "tool"
          PROVE  \E j \in 1..(k - 1) : d[j].role = "assistant" /\ k <= j + d[j].calls
      BY <1>1, <3>1, <3>3, <3>5
    <3>6. QED
      BY <3>4, <3>5
  <2>3. QED
    BY <1>1, <2>1, <2>2
<1>3. InPlace(d, m.calls)
  BY <1>2 DEF InPlace
<1>4. m.role = "assistant" => Owes(d, m.calls)
  BY <1>1 DEF Owes
<1>5. QED
  BY <1>3, <1>4 DEF d

\* An answer takes the first place that is owed.
LEMMA PlaceAnswer ==
  ASSUME NEW c \in Seq(Message), NEW owed \in Nat, owed > 0,
         InPlace(c, owed), Owes(c, owed)
  PROVE  InPlace(Append(c, Tool), owed - 1) /\ Owes(Append(c, Tool), owed - 1)
<1> DEFINE d == Append(c, Tool)
<1>1. /\ Len(c) \in Nat /\ Len(d) = Len(c) + 1 /\ d[Len(c) + 1] = Tool
      /\ \A k \in 1..Len(c) : d[k] = c[k] /\ c[k].calls \in Nat
  <2>1. Tool \in Message
    BY DEF Message, Tool
  <2>2. /\ Len(c) \in Nat /\ Len(d) = Len(c) + 1 /\ d[Len(c) + 1] = Tool
        /\ \A k \in 1..Len(c) : d[k] = c[k] /\ c[k] \in Message
    BY <2>1, Appended
  <2>3. \A n \in Message : n.calls \in Nat
    BY DEF Message
  <2>4. QED
    BY <2>2, <2>3
<1> HIDE DEF d
<1>2. PICK o \in 1..Len(c) : c[o].role = "assistant" /\ o + c[o].calls = Len(c) + owed
  BY DEF Owes
<1>3. ASSUME NEW k \in 1..Len(d)
      PROVE  /\ d[k].role = "assistant" =>
                  /\ d[k].calls > 0
                  /\ k + d[k].calls <= Len(d) + (owed - 1)
                  /\ \A t \in (k + 1)..(k + d[k].calls) : t <= Len(d) => d[t].role = "tool"
             /\ d[k].role = "tool" =>
                  \E j \in 1..(k - 1) : d[j].role = "assistant" /\ k <= j + d[j].calls
  <2>1. CASE k = Len(c) + 1
    BY <1>1, <1>2, <2>1 DEF Tool
  <2>2. CASE k \in 1..Len(c)
    <3>1. d[k] = c[k] /\ c[k].calls \in Nat
      BY <1>1, <2>2
    <3>2. ASSUME c[k].role = "assistant"
          PROVE  /\ c[k].calls > 0 /\ k + c[k].calls <= Len(c) + owed
                 /\ \A t \in (k + 1)..(k + c[k].calls) : t <= Len(d) => d[t].role = "tool"
      <4>1. /\ c[k].calls > 0 /\ k + c[k].calls <= Len(c) + owed
            /\ \A t \in (k + 1)..(k + c[k].calls) : t <= Len(c) => c[t].role = "tool"
        BY <2>2, <3>2 DEF InPlace
      <4>2. ASSUME NEW t \in (k + 1)..(k + c[k].calls), t <= Len(d)
            PROVE  d[t].role = "tool"
        <5>1. t \in 1..Len(c) \/ t = Len(c) + 1
          <6>1. k \in Nat /\ c[k].calls \in Nat /\ k >= 1
            BY <1>1, <2>2
          <6>2. t \in Int /\ t >= k + 1
            BY <6>1
          <6>3. t <= Len(c) + 1
            BY <1>1, <4>2
          <6>4. Len(c) \in Nat /\ t >= 1
            BY <1>1, <6>1, <6>2
          <6>5. QED
            BY <6>2, <6>3, <6>4
        <5>2. QED
          BY <1>1, <4>1, <4>2, <5>1 DEF Tool
      <4>3. QED
        BY <4>1, <4>2
    <3>3. ASSUME c[k].role = "tool"
          PROVE  \E j \in 1..(k - 1) : /\ j \in 1..Len(c)
                                       /\ c[j].role = "assistant" /\ k <= j + c[j].calls
      <4>1. PICK j \in 1..(k - 1) : c[j].role = "assistant" /\ k <= j + c[j].calls
        BY <2>2, <3>3 DEF InPlace
      <4>2. j \in 1..Len(c)
        BY <1>1, <2>2
      <4>3. QED
        BY <4>1, <4>2
    <3>4. QED
      BY <1>1, <2>2, <3>1, <3>2, <3>3
  <2>3. k = Len(c) + 1 \/ k \in 1..Len(c)
    BY <1>1
  <2>4. QED
    BY <2>1, <2>2, <2>3
<1>4. InPlace(d, owed - 1)
  BY <1>3 DEF InPlace
<1>5. Owes(d, owed - 1)
  BY <1>1, <1>2 DEF Owes
<1>6. QED
  BY <1>4, <1>5 DEF d

\* Within an attempt thinking is only ever switched off.
LEMMA ThinkingFalls ==
  ASSUME Paid, [AskNext]_askVars, ~Recover
  PROVE  loop'.thinking => loop.thinking
<1>1. loop \in LoopType
  BY DEF Paid, PaidTypes
<1>2. CASE SayNothing
  <2>1. PICK f \in Finishes, d \in BOOLEAN :
          LET more == loop.empty + 1 <= MaxEmpty
          IN  loop' = [loop EXCEPT
                 !.finish = f, !.empty = @ + 1, !.degenerate = @ \/ d,
                 !.thinking = IF more /\ f = "length" THEN FALSE ELSE @]
    BY <1>2 DEF SayNothing
  <2>2. QED
    BY <1>1, <2>1 DEF LoopType
<1>3. CASE StartForcing
  BY <1>1, <1>3 DEF StartForcing, LoopType
<1>4. CASE NoChoices \/ NoMessage \/ CallTools \/ Say \/ ForcedNothing
  BY <1>1, <1>4 DEF NoChoices, NoMessage, CallTools, Say, ForcedNothing, LoopType
<1>5. CASE UNCHANGED loop
  BY <1>5
<1>6. QED
  BY <1>2, <1>3, <1>4, <1>5
  DEF AskNext, AskStep, askVars, SendRequest, Stop, RunOut, ApiFails, RequestRefused,
      RejectCall, AnswerFromCache, RunTool, ToolFails, ToolThrows, StopTools, ToolsDone,
      GiveUp, ForcedText, ForcedRefused, ForcedFails, Interrupt, AskSettled

\* What the model said keeps its reasoning while the loop thinks.
LEMMA EchoReasons ==
  ASSUME Paid, ConvoInv, loop.thinking, NEW n \in Nat
  PROVE  Echo(n) \in Message /\ Echo(n).reasoned = TRUE /\ Echo(n).role = "assistant"
         /\ Echo(n).calls = n
  BY DEF Echo, Assistant, Message, ConvoInv

LEMMA EchoIsMessage ==
  ASSUME NEW n \in Nat
  PROVE  Echo(n) \in Message /\ Echo(n).role = "assistant" /\ Echo(n).calls = n
  BY DEF Echo, Assistant, Message

LEMMA ReasonsAppend ==
  ASSUME NEW c \in Seq(Message), Reasons(c), NEW m \in Message,
         m.role = "assistant" => m.reasoned
  PROVE  Reasons(Append(c, m))
<1> DEFINE d == Append(c, m)
<1>1. /\ Len(c) \in Nat /\ Len(d) = Len(c) + 1 /\ d[Len(c) + 1] = m
      /\ \A k \in 1..Len(c) : d[k] = c[k]
  BY Appended
<1> HIDE DEF d
<1>2. ASSUME NEW k \in 1..Len(d), d[k].role = "assistant" PROVE d[k].reasoned
  <2>1. k \in 1..Len(c) \/ k = Len(c) + 1
    BY <1>1
  <2>2. QED
    BY <1>1, <1>2, <2>1 DEF Reasons
<1>3. QED
  BY <1>2 DEF Reasons, d

LEMMA ConvoInit == AskInit => ConvoInv
  BY DEF AskInit, ConvoInv, FreshLoop, InPlace, Reasons, Message

LEMMA ConvoSays ==
  ASSUME Paid, ConvoInv, CallTools \/ Say PROVE ConvoInv'
<1>1. pc = "asked" /\ InPlace(convo, 0) /\ UNCHANGED input
  BY DEF CallTools, Say, ConvoInv, Owed
<1>2. loop'.thinking => loop.thinking
  BY ThinkingFalls DEF AskNext, AskStep, CallTools, Say, Recover
<1>3. CASE CallTools
  <2>1. PICK cs \in BoundedSeq(Calls \cup BadCalls, MaxCalls) \ {<<>>} :
          pending' = cs /\ convo' = Append(convo, Echo(Len(cs)))
    BY <1>3 DEF CallTools
  <2>2. cs \in Seq(Calls \cup BadCalls) /\ Len(cs) \in Nat /\ Len(cs) > 0
    <3>1. PICK n \in 0..MaxCalls : cs \in [1..n -> Calls \cup BadCalls]
      BY <2>1 DEF BoundedSeq, SeqOf
    <3>2. n # 0
      BY <2>1, <3>1
    <3>3. QED
      BY <3>1, <3>2, AskAssumption DEF AskAssumption
  <2>3. /\ Echo(Len(cs)) \in Message /\ Echo(Len(cs)).role = "assistant"
        /\ Echo(Len(cs)).calls = Len(cs)
    BY <2>2, EchoIsMessage
  <2>4. InPlace(convo', Len(cs)) /\ Owes(convo', Len(cs)) /\ convo' \in Seq(Message)
    BY <1>1, <2>1, <2>2, <2>3, PlaceMessage DEF ConvoInv
  <2>5. loop.thinking => input.think /\ Reasons(convo')
    BY <2>1, <2>2, <2>3, EchoReasons, ReasonsAppend DEF ConvoInv
  <2>6. pc' = "tools"
    BY <1>3 DEF CallTools
  <2>7. QED
    BY <1>1, <1>2, <2>1, <2>2, <2>4, <2>5, <2>6 DEF ConvoInv, Owed
<1>4. CASE Say
  <2>1. convo' = Append(convo, Echo(0)) /\ pc' = "done" /\ UNCHANGED pending
    BY <1>4 DEF Say, Returns
  <2>2. Echo(0) \in Message /\ convo' \in Seq(Message)
    BY <2>1, EchoIsMessage DEF ConvoInv
  <2>3. loop.thinking => input.think /\ Reasons(convo')
    BY <2>1, <2>2, EchoReasons, ReasonsAppend DEF ConvoInv
  <2>4. QED
    BY <1>1, <1>2, <2>1, <2>2, <2>3 DEF ConvoInv, Owed
<1>5. QED
  BY <1>3, <1>4

LEMMA ConvoAnswers ==
  ASSUME Paid, ConvoInv, RejectCall \/ AnswerFromCache \/ RunTool \/ ToolFails
  PROVE  ConvoInv'
<1>1. /\ pc = "tools" /\ pc' = pc /\ pending # <<>> /\ UNCHANGED <<loop, input>>
      /\ pending' = Tail(pending) /\ convo' = Append(convo, Tool)
  BY DEF RejectCall, AnswerFromCache, RunTool, ToolFails, Running, CallAnswered
<1>2. /\ pending' \in Seq(Calls \cup BadCalls) /\ Len(pending) \in Nat /\ Len(pending) > 0
      /\ Len(pending') = Len(pending) - 1
  BY <1>1 DEF ConvoInv
<1>3. Tool \in Message /\ Tool.role = "tool"
  BY DEF Tool, Message
<1>4. InPlace(convo', Len(pending')) /\ Owes(convo', Len(pending')) /\ convo' \in Seq(Message)
  BY <1>1, <1>2, <1>3, PlaceAnswer DEF ConvoInv, Owed
<1>5. loop.thinking => input.think /\ Reasons(convo')
  BY <1>1, <1>3, ReasonsAppend DEF ConvoInv
<1>6. QED
  BY <1>1, <1>2, <1>4, <1>5 DEF ConvoInv, Owed

LEMMA ConvoForces ==
  ASSUME Paid, ConvoInv, StartForcing \/ ForcedNothing PROVE ConvoInv'
<1>1. /\ pc \in {"after", "forcing"} /\ pc' \in {"forcing", "done"}
      /\ UNCHANGED <<input, pending>> /\ (convo' = Append(convo, User) \/ convo' = convo)
  BY DEF StartForcing, ForcedNothing, Returns
<1>2. loop'.thinking => loop.thinking
  BY ThinkingFalls DEF AskNext, AskStep, StartForcing, ForcedNothing, Recover
<1>3. User \in Message /\ User.role = "user" /\ User.calls = 0
  BY DEF User, Message
<1>4. convo' \in Seq(Message) /\ InPlace(convo', 0)
  <2>1. InPlace(convo, 0) /\ convo \in Seq(Message)
    BY <1>1 DEF ConvoInv, Owed
  <2>2. InPlace(Append(convo, User), User.calls)
    BY <2>1, <1>3, PlaceMessage
  <2>3. Append(convo, User) \in Seq(Message) /\ InPlace(Append(convo, User), 0)
    BY <1>3, <2>1, <2>2
  <2>4. CASE convo' = Append(convo, User)
    BY <2>3, <2>4
  <2>5. CASE convo' = convo
    BY <2>1, <2>5
  <2>6. QED
    BY <1>1, <2>4, <2>5
<1>5. loop.thinking => input.think /\ Reasons(convo')
  BY <1>1, <1>3, ReasonsAppend DEF ConvoInv
<1>6. QED
  BY <1>1, <1>2, <1>4, <1>5 DEF ConvoInv, Owed

LEMMA ConvoRecovers ==
  ASSUME Paid, ConvoInv, Recover PROVE ConvoInv'
<1>1. CASE MayRestart
  <2>1. /\ convo' = <<>> /\ pending' = <<>> /\ pc' = "top"
        /\ loop' = FreshLoop /\ UNCHANGED input
    BY <1>1 DEF Recover
  <2>2. Len(convo') = 0 /\ convo' \in Seq(Message) /\ pending' \in Seq(Calls \cup BadCalls)
    BY <2>1
  <2>3. loop'.thinking = input.think
    BY <2>1 DEF FreshLoop
  <2>4. QED
    BY <2>1, <2>2, <2>3 DEF ConvoInv, InPlace, Reasons
<1>2. CASE ~MayRestart
  BY <1>2 DEF Recover, Returns, ConvoInv
<1>3. QED
  BY <1>1, <1>2

\* Every other step leaves the conversation as it is, and complete.
LEMMA ConvoKept ==
  ASSUME Paid, ConvoInv, [AskNext]_askVars, ~Recover,
         UNCHANGED <<input, convo, pending>>,
         pc' = "tools" => pc = "tools",
         pc = "tools" => pc' \in {"tools", "done"} \/ pending = <<>>,
         pc = "done" => pc' = "done"
  PROVE  ConvoInv'
<1>1. loop'.thinking => loop.thinking
  BY ThinkingFalls
<1>2. Owed' = Owed \/ pc' = "done"
  BY DEF Owed
<1>3. QED
  BY <1>1, <1>2 DEF ConvoInv

LEMMA ConvoNext ==
  ASSUME Paid, ConvoInv, [AskNext]_askVars PROVE ConvoInv'
<1>1. CASE CallTools \/ Say
  BY <1>1, ConvoSays
<1>2. CASE RejectCall \/ AnswerFromCache \/ RunTool \/ ToolFails
  BY <1>2, ConvoAnswers
<1>3. CASE StartForcing \/ ForcedNothing
  BY <1>3, ConvoForces
<1>4. CASE Recover
  BY <1>4, ConvoRecovers
<1>5. CASE /\ ~Recover
           /\ \/ SendRequest \/ Stop \/ RunOut \/ ApiFails \/ RequestRefused
              \/ NoChoices \/ NoMessage \/ SayNothing \/ ToolThrows \/ StopTools
              \/ ToolsDone \/ GiveUp \/ ForcedText \/ ForcedRefused \/ ForcedFails
              \/ Interrupt \/ AskSettled \/ UNCHANGED askVars
  <2>1. UNCHANGED <<input, convo, pending>>
    BY <1>5 DEF SendRequest, Stop, RunOut, ApiFails, RequestRefused, NoChoices,
                NoMessage, SayNothing, ToolThrows, StopTools, ToolsDone, GiveUp, ForcedText,
                ForcedRefused, ForcedFails, Interrupt, AskSettled, askVars, outer
  <2>2. /\ pc' = "tools" => pc = "tools"
        /\ pc = "tools" => pc' \in {"tools", "done"} \/ pending = <<>>
        /\ pc = "done" => pc' = "done"
    BY <1>5 DEF SendRequest, Stop, RunOut, ApiFails, RequestRefused, NoChoices,
                NoMessage, SayNothing, ToolThrows, StopTools, ToolsDone, GiveUp, ForcedText,
                ForcedRefused, ForcedFails, Interrupt, AskSettled, askVars, Returns
  <2>3. QED
    BY <1>5, <2>1, <2>2, ConvoKept
<1>6. QED
  BY <1>1, <1>2, <1>3, <1>4, <1>5 DEF AskNext, AskStep

\* Whatever the provider answers and the loop retries, the conversation it sends is
\* one the provider takes: every call has its answer in its place, and a thinking
\* request carries the reasoning of every message of the model.
THEOREM EveryConversationAccepted == AskSpec => []ConversationAccepted
<1>1. ASSUME ConvoInv PROVE ConversationAccepted
  <2>1. /\ DOMAIN convo = 1..Len(convo) /\ Len(convo) \in Nat
        /\ \A k \in 1..Len(convo) : convo[k].calls \in Nat
    <3>1. convo \in Seq(Message) /\ \A m \in Message : m.calls \in Nat
      BY <1>1 DEF ConvoInv, Message
    <3>2. /\ DOMAIN convo = 1..Len(convo) /\ Len(convo) \in Nat
          /\ \A k \in 1..Len(convo) : convo[k] \in Message
      BY <3>1
    <3>3. QED
      BY <3>1, <3>2
  <2>2. ASSUME pc \in {"asked", "forcing"}, NEW k \in 1..Len(convo)
        PROVE  /\ convo[k].role = "assistant" => convo[k].calls > 0 /\ Follows(k)
               /\ convo[k].role = "tool" =>
                    \E j \in 1..(k - 1) : convo[j].role = "assistant"
                                         /\ k <= j + convo[j].calls
    <3>1. InPlace(convo, 0)
      BY <1>1, <2>2 DEF ConvoInv, Owed
    <3>2. ASSUME convo[k].role = "assistant"
          PROVE  convo[k].calls > 0 /\ Follows(k)
      <4>1. /\ convo[k].calls > 0 /\ k + convo[k].calls <= Len(convo) + 0
            /\ \A t \in (k + 1)..(k + convo[k].calls) :
                 t <= Len(convo) => convo[t].role = "tool"
        BY <2>2, <3>1, <3>2 DEF InPlace
      <4>2. QED
        BY <2>1, <4>1 DEF Follows
    <3>3. QED
      BY <3>1, <3>2 DEF InPlace
  <2>3. ConversationWellFormed
    BY <2>1, <2>2 DEF ConversationWellFormed
  <2>4. ReasoningEchoed
    BY <1>1, <2>1 DEF ReasoningEchoed, ConvoInv, Reasons
  <2>5. QED
    BY <2>3, <2>4 DEF ConversationAccepted
<1>2. QED
  BY PaidInit, PaidNext, ConvoInit, ConvoNext, <1>1, PTL DEF AskSpec

-----------------------------------------------------------------------------
(* Boots, crashes and alerts (ProcessWatch).                               *)

(* What the operators hear.                                                *)

Flags ==
  /\ phase \in {"off", "booting", "setup", "login", "up", "stopping"}
  /\ clean \in BOOLEAN /\ asked \in BOOLEAN /\ lapse \in BOOLEAN
  /\ wrong \in BOOLEAN /\ alerted \in BOOLEAN
  /\ check \in [crashed : BOOLEAN, suppress : BOOLEAN]

Clock ==
  /\ time \in Nat /\ ends \in Nat
  /\ stamp \in Nat \cup {Never} /\ (stamp # Never => stamp <= time)
  /\ alertAt \in Nat \cup {Never} /\ (alertAt # Never => alertAt <= time)

WatchTypes == Flags /\ Clock

\* The files tell how the last process ended, and the boot has read them right.
FilesTell ==
  /\ phase = "off" => (asked /\ ~lapse <=> clean \/ stamp = Never)
  /\ phase \in {"booting", "setup", "login"} => (check.crashed <=> ~(asked /\ ~lapse))
  /\ phase \in {"booting", "setup", "login", "up"} => ~clean
  /\ phase = "stopping" => (clean <=> ~lapse)
  /\ phase \in {"setup", "login", "up", "stopping"} => stamp # Never
  /\ phase = "booting" /\ check.crashed => stamp # Never
  /\ ~wrong

\* A notice that is not suppressed comes a window after the boots already told.
NoticesApart ==
  /\ told \subseteq Nat
  /\ \A t \in told : stamp # Never /\ t <= stamp
  /\ phase = "booting" /\ check.crashed /\ ~check.suppress => time - stamp >= Window
  /\ phase \in {"setup", "login"} /\ check.crashed /\ ~check.suppress =>
       \A t \in told : stamp - t >= Window
  /\ Apart(told, Window)

\* The last alert is the newest one, and each announced end had its own.
AlertsApart ==
  /\ outages \subseteq Nat /\ IsFiniteSet(outages)
  /\ \A t \in outages : alertAt # Never /\ t <= alertAt
  /\ Apart(outages, Cooldown)
  /\ ends + (IF alerted THEN 1 ELSE 0) <= Cardinality(outages)

WatchInv == WatchTypes /\ FilesTell /\ NoticesApart /\ AlertsApart

LEMMA WatchStarts == WatchInit => WatchInv
<1> SUFFICES ASSUME WatchInit PROVE WatchInv
  OBVIOUS
<1>1. WatchTypes
  BY DEF WatchInit, WatchTypes, Flags, Clock, NoCheck
<1>2. FilesTell
  BY DEF WatchInit, FilesTell
<1>3. NoticesApart
  BY DEF WatchInit, NoticesApart, Apart
<1>4. AlertsApart
  BY FS_EmptySet DEF WatchInit, AlertsApart, Apart
<1>5. QED
  BY <1>1, <1>2, <1>3, <1>4 DEF WatchInv

LEMMA TypesKept == ASSUME WatchInv, [WatchNext]_watchVars PROVE WatchTypes'
<1> USE DEF health, files, seen
<1>1. Flags'
  <2> USE DEF Flags
  <2>1. CASE Boot
    <3>1. /\ Crashed(clean) \in BOOLEAN
          /\ (Crashed(clean) /\ time - stamp < Window) \in BOOLEAN
      BY DEF Crashed
    <3>2. check' \in [crashed : BOOLEAN, suppress : BOOLEAN]
      BY <2>1, <3>1 DEF Boot
    <3>3. /\ UNCHANGED <<asked, lapse, wrong>>
          /\ phase' = "booting" /\ clean' = FALSE /\ alerted' = FALSE
      BY <2>1 DEF Boot
    <3>4. QED
      BY <3>2, <3>3 DEF WatchInv, WatchTypes
  <2>2. CASE LoggedIn
    <3>1. wrong' \in BOOLEAN
      BY <2>2 DEF LoggedIn
    <3>2. QED
      BY <2>2, <3>1 DEF LoggedIn, WatchInv, WatchTypes
  <2>3. CASE Install \/ LoginAgain \/ Shutdown \/ ShutdownUnmarked \/ ReportSuccess \/ Pass \/ Stamp \/ Die
    BY <2>3 DEF Install, LoginAgain, Shutdown, ShutdownUnmarked, ReportSuccess, Pass, Stamp, Die, WatchInv, WatchTypes
  <2>4. ASSUME NEW kind \in Kinds, ReportFailure(kind) PROVE Flags'
    BY <2>4 DEF ReportFailure, WatchInv, WatchTypes
  <2>5. CASE UNCHANGED watchVars
    BY <2>5 DEF watchVars, WatchInv, WatchTypes
  <2>6. QED
    BY <2>1, <2>2, <2>3, <2>4, <2>5 DEF WatchNext
<1>2. Clock'
  <2> USE DEF Clock
  <2>1. CASE Boot \/ Stamp \/ Install \/ LoginAgain \/ LoggedIn \/ Die \/ Shutdown \/ ShutdownUnmarked \/ ReportSuccess
    BY <2>1 DEF Boot, Stamp, Install, LoginAgain, LoggedIn, Die, Shutdown, ShutdownUnmarked, ReportSuccess,
                WatchInv, WatchTypes
  <2>2. CASE Pass
    <3>1. time' \in Nat /\ time <= time'
      BY <2>2 DEF Pass, WatchInv, WatchTypes
    <3>2. /\ stamp # Never => stamp <= time'
          /\ alertAt # Never => alertAt <= time'
      BY <3>1 DEF WatchInv, WatchTypes
    <3>3. QED
      BY <2>2, <3>1, <3>2 DEF Pass, WatchInv, WatchTypes
  <2>3. ASSUME NEW kind \in Kinds, ReportFailure(kind) PROVE Clock'
    BY <2>3 DEF ReportFailure, WatchInv, WatchTypes
  <2>4. CASE UNCHANGED watchVars
    BY <2>4 DEF watchVars, WatchInv, WatchTypes
  <2>5. QED
    BY <2>1, <2>2, <2>3, <2>4 DEF WatchNext
<1>3. QED
  BY <1>1, <1>2 DEF WatchTypes

LEMMA FilesKeepTelling == ASSUME WatchInv, [WatchNext]_watchVars PROVE FilesTell'
<1> USE DEF FilesTell, health, files, seen
<1>1. CASE Boot
  <2>1. check'.crashed = Crashed(clean)
    BY <1>1 DEF Boot
  <2>2. QED
    BY <1>1, <2>1 DEF Boot, WatchInv, Crashed, WatchTypes, Flags, Clock
<1>2. CASE Stamp
  BY <1>2, WatchAssumption DEF Stamp, WatchInv, WatchTypes, Flags, Clock, WatchAssumption
<1>3. CASE Install \/ LoginAgain \/ ReportSuccess \/ Pass
  BY <1>3 DEF Install, LoginAgain, ReportSuccess, Pass, WatchInv
<1>8. CASE Die
  <2>1. /\ phase' = "off" /\ clean' = clean /\ stamp' = stamp /\ wrong' = wrong
        /\ asked' <=> (phase = "stopping" \/ stamp = Never)
        /\ lapse' <=> (lapse /\ phase = "stopping")
    BY <1>8 DEF Die
  <2>2. CASE phase = "stopping"
    <3>1. (clean <=> ~lapse) /\ stamp # Never
      BY <2>2 DEF WatchInv
    <3>2. QED
      BY <2>1, <2>2, <3>1 DEF WatchInv
  <2>3. CASE phase # "stopping"
    <3>1. ~clean
      BY <1>8, <2>3 DEF Die, WatchInv, WatchTypes, Flags
    <3>2. QED
      BY <2>1, <2>3, <3>1 DEF WatchInv
  <2>4. QED
    BY <2>2, <2>3
<1>9. CASE Shutdown
  BY <1>9 DEF Shutdown, WatchInv
<1>10. CASE ShutdownUnmarked
  <2>1. /\ phase' = "stopping" /\ stamp' = stamp /\ wrong' = wrong
        /\ clean' = clean /\ (lapse' <=> ~clean)
    BY <1>10 DEF ShutdownUnmarked
  <2>2. stamp # Never
    BY <1>10 DEF ShutdownUnmarked, WatchInv
  <2>3. QED
    BY <2>1, <2>2 DEF WatchInv
<1>4. CASE LoggedIn
  <2>1. check.crashed # (asked /\ ~lapse)
    BY <1>4 DEF LoggedIn, WatchInv, WatchTypes, Flags, Clock
  <2>2. QED
    BY <1>4, <2>1 DEF LoggedIn, WatchInv, WatchTypes, Flags, Clock
<1>5. ASSUME NEW kind \in Kinds, ReportFailure(kind) PROVE FilesTell'
  BY <1>5 DEF ReportFailure, WatchInv
<1>6. CASE UNCHANGED watchVars
  BY <1>6 DEF watchVars, WatchInv
<1>7. QED
  BY <1>1, <1>2, <1>3, <1>4, <1>5, <1>6, <1>8, <1>9, <1>10 DEF WatchNext

LEMMA NoticesKept == ASSUME WatchInv, [WatchNext]_watchVars PROVE NoticesApart'
<1> USE DEF NoticesApart, health, files, seen
<1>1. CASE Boot
  <2>1. check'.crashed = Crashed(clean)
        /\ check'.suppress = (Crashed(clean) /\ time - stamp < Window)
    BY <1>1 DEF Boot
  <2>2. check'.crashed /\ ~check'.suppress => time - stamp >= Window
    BY <2>1, WatchAssumption DEF Crashed, WatchInv, WatchTypes, Flags, Clock, WatchAssumption
  <2>3. QED
    BY <1>1, <2>2 DEF Boot, WatchInv
<1>2. CASE Stamp
  BY <1>2, WatchAssumption DEF Stamp, WatchInv, WatchTypes, Flags, Clock, FilesTell, WatchAssumption
<1>3. CASE LoggedIn
  <2>1. CASE check.crashed /\ ~check.suppress
    <3>1. told' = told \cup {stamp} /\ UNCHANGED stamp /\ phase = "login" /\ phase' = "up"
      BY <1>3, <2>1 DEF LoggedIn
    <3>2. stamp \in Nat /\ \A t \in told : t \in Nat /\ stamp - t >= Window /\ t <= stamp
      BY <2>1, <3>1 DEF WatchInv, WatchTypes, Flags, Clock, FilesTell
    <3>3. Apart(told', Window)
      BY <3>1, <3>2, WatchAssumption DEF Apart, WatchInv, WatchAssumption
    <3>4. QED
      BY <3>1, <3>2, <3>3, WatchAssumption DEF WatchInv, WatchAssumption
  <2>2. CASE ~(check.crashed /\ ~check.suppress)
    BY <1>3, <2>2 DEF LoggedIn, WatchInv
  <2>3. QED
    BY <2>1, <2>2
<1>4. CASE Pass
  BY <1>4, WatchAssumption DEF Pass, WatchInv, WatchTypes, Flags, Clock, FilesTell, WatchAssumption
<1>5. CASE Install \/ LoginAgain \/ Die \/ Shutdown \/ ShutdownUnmarked \/ ReportSuccess
  BY <1>5 DEF Install, LoginAgain, Die, Shutdown, ShutdownUnmarked, ReportSuccess, WatchInv
<1>6. ASSUME NEW kind \in Kinds, ReportFailure(kind) PROVE NoticesApart'
  BY <1>6 DEF ReportFailure, WatchInv
<1>7. CASE UNCHANGED watchVars
  BY <1>7 DEF watchVars, WatchInv
<1>8. QED
  BY <1>1, <1>2, <1>3, <1>4, <1>5, <1>6, <1>7 DEF WatchNext

LEMMA AlertsKept == ASSUME WatchInv, [WatchNext]_watchVars PROVE AlertsApart'
<1> USE DEF AlertsApart, health, files, seen
<1>1. CASE Boot
  BY <1>1, FS_EmptySet DEF Boot, Apart
<1>2. CASE ReportSuccess
  BY <1>2, FS_CardinalityType DEF ReportSuccess, WatchInv, WatchTypes, Flags, Clock
<1>3. ASSUME NEW kind \in Kinds, ReportFailure(kind) PROVE AlertsApart'
  <2>1. CASE ShouldAlert(kind, failures + 1) /\ ~Cooling
    <3>1. outages' = outages \cup {time} /\ alertAt' = time /\ alerted' = TRUE
          /\ UNCHANGED ends
      BY <1>3, <2>1 DEF ReportFailure
    <3>2. time \in Nat /\ \A t \in outages : t \in Nat /\ time - t >= Cooldown /\ t < time
      <4>1. ASSUME NEW t \in outages
            PROVE  t \in Nat /\ time - t >= Cooldown /\ t < time
        <5>1. alertAt \in Nat /\ t <= alertAt /\ t \in Nat /\ time \in Nat
          BY DEF WatchInv, WatchTypes, Flags, Clock
        <5>2. Cooldown \in Nat /\ Cooldown > 0
          BY WatchAssumption DEF WatchAssumption
        <5>3. ~(time - alertAt < Cooldown)
          BY <2>1 DEF Cooling, WatchInv
        <5>4. QED
          BY <5>1, <5>2, <5>3
      <4>2. QED
        BY <4>1 DEF WatchInv, WatchTypes, Flags, Clock
    <3>3. Apart(outages', Cooldown)
      BY <3>1, <3>2, WatchAssumption DEF Apart, WatchInv, WatchAssumption
    <3>4. IsFiniteSet(outages') /\ Cardinality(outages') = Cardinality(outages) + 1
          /\ Cardinality(outages) \in Nat
      <4>1. time \notin outages
        BY <3>2
      <4>2. QED
        BY <3>1, <4>1, FS_AddElement, FS_CardinalityType DEF WatchInv
    <3>5. QED
      BY <3>1, <3>2, <3>3, <3>4, WatchAssumption DEF WatchInv, WatchTypes, Flags, Clock, WatchAssumption
  <2>2. CASE ~(ShouldAlert(kind, failures + 1) /\ ~Cooling)
    BY <1>3, <2>2 DEF ReportFailure, WatchInv, WatchTypes, Flags, Clock
  <2>3. QED
    BY <2>1, <2>2
<1>4. CASE Install \/ LoginAgain \/ LoggedIn \/ Die \/ Shutdown \/ ShutdownUnmarked \/ Pass \/ Stamp
  <2>1. UNCHANGED <<outages, alertAt, alerted, ends>>
    BY <1>4 DEF Install, LoginAgain, LoggedIn, Die, Shutdown, ShutdownUnmarked, Pass, Stamp
  <2>2. QED
    BY <2>1 DEF WatchInv, Apart
<1>5. CASE UNCHANGED watchVars
  BY <1>5 DEF watchVars, WatchInv
<1>6. QED
  BY <1>1, <1>2, <1>3, <1>4, <1>5 DEF WatchNext

\* At every instant the files, the check read at boot, the notices and the alerts
\* of a process agree: what WatchTruthful needs to be kept.
THEOREM WatchInvariant == WatchSpec => []WatchInv
<1>1. WatchInv /\ [WatchNext]_watchVars => WatchInv'
  BY TypesKept, FilesKeepTelling, NoticesKept, AlertsKept DEF WatchInv
<1>2. QED
  BY WatchStarts, <1>1, PTL DEF WatchSpec

\* The operators hear of every crash that is not of the same loop, of no shutdown
\* that left its marker, and of each end of an outage they had heard of, wherever
\* the process dies.
THEOREM OperatorsHearTheTruth == WatchSpec => []WatchTruthful
<1>1. WatchInv => WatchTruthful
  BY DEF WatchInv, FilesTell, NoticesApart, AlertsApart, WatchTruthful
<1>2. QED
  BY WatchInvariant, <1>1, PTL

-----------------------------------------------------------------------------
(* How a turn shows itself (TurnPresentation).                             *)

Requests == {"unreact", "react", "edit", "start", "post", "chunk", "delete"}
Marks == {"queued", "thinking", "tool", "error"}
Reactors ==
  [current : Marks \cup {"none"}, over : BOOLEAN, own : {"none", "queued", "thinking", "tool"},
   chain : Seq(Marks \cup {"none"}), bare : BOOLEAN]

PresenterTypes ==
  /\ style \in {"reactions", "line"}
  /\ turnStep \in {"new", "queued", "posting", "working", "morphing", "first", "again",
                   "rest", "failing", "apology", "deleting", "over"}
  /\ left \in Int /\ end \in {"none", "reply", "silence", "error"}
  /\ hasLine \in BOOLEAN /\ ended \in BOOLEAN /\ timer \in BOOLEAN
  /\ ticker \in BOOLEAN /\ typing \in BOOLEAN
  /\ wire \in Seq({"status", "reply", "error"})
  /\ reactor \in Reactors
  /\ line \in {"none", "status", "reply", "error"}
  /\ copies \in Nat /\ sorry \in Nat /\ reacted \subseteq Marks
  /\ faults \in Seq(Requests) /\ lost \in Nat

\* Before the end, and which resource belongs to which step.
Early == {"new", "queued", "posting"}
StepsTell ==
  /\ end = "none" <=> turnStep \in Early \cup {"working"}
  /\ end = "reply" => turnStep \in {"morphing", "first", "again", "rest", "over"}
  /\ end = "silence" => turnStep \in {"deleting", "over"}
  /\ end = "error" => turnStep \in {"failing", "apology", "over"}
  /\ hasLine => style = "line" /\ turnStep \notin Early
  /\ ended => end # "none"
  /\ hasLine /\ ~ended => turnStep = "working"
  /\ timer => hasLine /\ ~ended
  /\ ticker => turnStep = "working"
  /\ typing => turnStep \in {"working", "first", "again"}
  /\ turnStep = "posting" => style = "line"
  /\ turnStep \in {"morphing", "first", "again", "rest"} => left > 0

\* Whose reaction is over.
ReactorTells ==
  /\ turnStep \in {"apology", "failing", "over"} => reactor.over
  /\ style = "line" /\ turnStep \notin Early => reactor.over
  /\ style = "reactions" /\ end = "none" => ~reactor.over

\* A line that shows the status is the turn's, or a request about it failed.
OfTheLine == hasLine /\ turnStep \in {"working", "morphing", "failing", "deleting"}
LineTells ==
  /\ line = "status" => OfTheLine \/ Failed("start") \/ Failed("edit") \/ Failed("delete")
  /\ wire # <<>> => OfTheLine \/ Failed("delete")

\* A reaction of the work has its handle or a request about it failed, and the
\* last operation of a chain that is over leaves none.
ReactionsTell ==
  /\ reactor.bare => /\ reactor.own = "none" /\ reactor.chain # <<>>
                     /\ Head(reactor.chain) # "none"
  /\ \/ \A m \in reacted : m \in {"error", reactor.own}
     \/ Failed("react") \/ Failed("unreact")
  /\ reactor.over =>
       IF reactor.chain = <<>> THEN reactor.own = "none"
       ELSE reactor.chain[Len(reactor.chain)] \in {"none", "error"}
  /\ \A k \in DOMAIN reactor.chain : reactor.chain[k] = "error" => end = "error"
  /\ "error" \in reacted => end = "error"

ErrorPending == \E k \in DOMAIN reactor.chain : reactor.chain[k] = "error"

\* What shows in the channel, step by step.
CountsTell ==
  /\ turnStep \notin {"first", "again", "rest", "over"} => copies = 0
  /\ turnStep # "over" \/ end # "error" => sorry = 0
  /\ end = "error" => copies = 0
  /\ turnStep \in {"first", "again"} => copies <= lost
  /\ turnStep \in {"rest", "over"} => copies + sorry <= 1 + lost
  /\ end = "silence" => copies = 0
  /\ style = "line" /\ ~hasLine /\ turnStep = "working" => Len(faults) >= 1
  /\ style = "line" /\ turnStep = "first" => Len(faults) >= 1
  /\ turnStep = "again" => Len(faults) >= 1
  /\ turnStep \in {"rest", "over"} /\ end = "reply" => copies > 0 \/ Len(faults) >= 2
  /\ turnStep = "over" /\ end = "error" =>
       sorry > 0 \/ Len(faults) > 0 \/ "error" \in reacted \/ ErrorPending

PresenterInv ==
  /\ PresenterTypes /\ StepsTell /\ ReactorTells /\ LineTells /\ ReactionsTell
  /\ CountsTell

LEMMA PresenterStarts == PresenterInit => PresenterInv
<1> SUFFICES ASSUME PresenterInit PROVE PresenterInv
  OBVIOUS
<1>1. /\ Idle \in Reactors /\ ~Idle.over /\ ~Idle.bare /\ Idle.chain = <<>>
      /\ Idle.own = "none"
  BY DEF Idle, Reactors, Marks
<1>2. PresenterTypes
  <2>1. faults \in Seq(Requests) /\ wire \in Seq({"status", "reply", "error"})
    BY DEF PresenterInit
  <2>2. /\ hasLine \in BOOLEAN /\ ended \in BOOLEAN /\ timer \in BOOLEAN
        /\ ticker \in BOOLEAN /\ typing \in BOOLEAN
    BY DEF PresenterInit
  <2>3. reactor \in Reactors
    BY <1>1 DEF PresenterInit
  <2>4. copies \in Nat /\ sorry \in Nat /\ reacted \subseteq Marks /\ lost \in Nat /\ left \in Int
    BY DEF PresenterInit
  <2>5. QED
    BY <2>1, <2>2, <2>3, <2>4 DEF PresenterInit, PresenterTypes
<1>3. StepsTell /\ ReactorTells /\ LineTells
  BY <1>1 DEF PresenterInit, StepsTell, ReactorTells, LineTells, Early
<1>4. ReactionsTell
  BY <1>1 DEF PresenterInit, ReactionsTell
<1>5. CountsTell
  BY <1>1 DEF PresenterInit, CountsTell
<1>6. QED
  BY <1>2, <1>3, <1>4, <1>5 DEF PresenterInv

\* What a request that ends leaves on record.
LEMMA Heard ==
  ASSUME PresenterTypes, NEW a \in Outcomes, NEW what \in Requests, Hears(a, what)
  PROVE  /\ a.applied \in BOOLEAN /\ a.ok \in BOOLEAN /\ (a.ok => a.applied)
         /\ faults' \in Seq(Requests) /\ lost' \in Nat
         /\ Len(faults') = IF a.ok THEN Len(faults) ELSE Len(faults) + 1
         /\ lost' = IF a.applied /\ ~a.ok THEN lost + 1 ELSE lost
         /\ \A x \in Requests : Failed(x) => Failed(x)'
         /\ ~a.ok => Failed(what)'
<1>1. a.applied \in BOOLEAN /\ a.ok \in BOOLEAN /\ (a.ok => a.applied)
  BY DEF Outcomes
<1>2. CASE a.ok
  BY <1>1, <1>2 DEF Hears, PresenterTypes, Failed
<1>3. CASE ~a.ok
  <2>1. faults' = Append(faults, what) /\ faults \in Seq(Requests)
    BY <1>3 DEF Hears, PresenterTypes
  <2>2. /\ faults' \in Seq(Requests) /\ Len(faults') = Len(faults) + 1
        /\ faults'[Len(faults) + 1] = what
        /\ \A n \in DOMAIN faults : n \in DOMAIN faults' /\ faults'[n] = faults[n]
    BY <2>1
  <2>3. Len(faults) + 1 \in DOMAIN faults'
    BY <2>1, <2>2
  <2>4. QED
    BY <1>1, <1>3, <2>2, <2>3 DEF Hears, PresenterTypes, Failed
<1>4. QED
  BY <1>2, <1>3

\* The reactor after Set, Resolve or FailReactor: if it was over, it is left alone.
Appends(q, r, op) ==
  /\ q.chain # <<>> /\ q.chain[Len(q.chain)] = op
  /\ \A k \in DOMAIN q.chain :
       q.chain[k] = op \/ (k \in DOMAIN r.chain /\ q.chain[k] = r.chain[k])
  /\ \A k \in DOMAIN r.chain : k \in DOMAIN q.chain /\ q.chain[k] = r.chain[k]
  /\ r.chain # <<>> => Head(q.chain) = Head(r.chain)
Succeeds(q, r, op) ==
  /\ q \in Reactors /\ q.own = r.own /\ q.bare = r.bare
  /\ q = r \/ (~r.over /\ Appends(q, r, op))

LEMMA Enqueued ==
  ASSUME NEW r \in Reactors, ~r.over, NEW op \in Marks \cup {"none"}, NEW o \in BOOLEAN,
         NEW c \in Marks \cup {"none"}
  PROVE  /\ Succeeds(Enqueue([r EXCEPT !.over = o, !.current = c], op), r, op)
         /\ Enqueue([r EXCEPT !.over = o, !.current = c], op).over = o
<1> PICK ch : ch = Append(r.chain, op)
  OBVIOUS
<1>1. r.chain \in Seq(Marks \cup {"none"})
  BY DEF Reactors
<1>2. /\ ch \in Seq(Marks \cup {"none"}) /\ Len(ch) = Len(r.chain) + 1 /\ ch[Len(ch)] = op
      /\ ch # <<>>
      /\ \A k \in DOMAIN ch :
           ch[k] = op \/ (k \in DOMAIN r.chain /\ ch[k] = r.chain[k])
      /\ \A k \in DOMAIN r.chain : k \in DOMAIN ch /\ ch[k] = r.chain[k]
      /\ r.chain # <<>> => Head(ch) = Head(r.chain)
  BY <1>1
<1> PICK q : q = Enqueue([r EXCEPT !.over = o, !.current = c], op)
  OBVIOUS
<1>3. q \in Reactors /\ q.over = o /\ q.own = r.own /\ q.bare = r.bare /\ q.chain = ch
  BY <1>2 DEF Enqueue, Reactors
<1>4. Succeeds(q, r, op)
  BY <1>2, <1>3 DEF Succeeds, Appends
<1>5. QED
  BY <1>3, <1>4

LEMMA ReactorOps ==
  ASSUME NEW r \in Reactors
  PROVE  /\ \A mark \in {"queued", "thinking", "tool"} :
              Succeeds(Set(r, mark), r, mark) /\ (Set(r, mark).over <=> r.over)
         /\ Succeeds(Resolve(r), r, "none") /\ Resolve(r).over
         /\ Succeeds(FailReactor(r), r, "error") /\ FailReactor(r).over
         /\ ~r.over => Appends(FailReactor(r), r, "error")
<1>1. ASSUME NEW mark \in {"queued", "thinking", "tool"}
      PROVE  Succeeds(Set(r, mark), r, mark) /\ (Set(r, mark).over <=> r.over)
  <2>1. CASE r.over \/ mark = r.current
    BY <2>1 DEF Set, Succeeds
  <2>2. CASE ~r.over /\ mark # r.current
    <3>1. [r EXCEPT !.current = mark] = [r EXCEPT !.over = FALSE, !.current = mark]
      BY <2>2 DEF Reactors
    <3>2. mark \in Marks \cup {"none"}
      BY DEF Marks
    <3>3. /\ Succeeds(Enqueue([r EXCEPT !.over = FALSE, !.current = mark], mark), r, mark)
          /\ Enqueue([r EXCEPT !.over = FALSE, !.current = mark], mark).over = FALSE
      BY <2>2, <3>2, Enqueued
    <3>4. QED
      BY <2>2, <3>1, <3>3 DEF Set
  <2>3. QED
    BY <2>1, <2>2
<1>2. Succeeds(Resolve(r), r, "none") /\ Resolve(r).over
  <2>1. CASE r.over
    BY <2>1 DEF Resolve, Succeeds
  <2>2. CASE ~r.over
    <3>1. "none" \in Marks \cup {"none"}
      OBVIOUS
    <3>2. /\ Succeeds(Enqueue([r EXCEPT !.over = TRUE, !.current = "none"], "none"), r, "none")
          /\ Enqueue([r EXCEPT !.over = TRUE, !.current = "none"], "none").over = TRUE
      BY <2>2, <3>1, Enqueued
    <3>3. QED
      BY <2>2, <3>2 DEF Resolve
  <2>3. QED
    BY <2>1, <2>2
<1>3. /\ Succeeds(FailReactor(r), r, "error") /\ FailReactor(r).over
      /\ ~r.over => Appends(FailReactor(r), r, "error")
  <2>1. CASE r.over
    BY <2>1 DEF FailReactor, Succeeds
  <2>2. CASE ~r.over
    <3>1. "error" \in Marks \cup {"none"}
      BY DEF Marks
    <3>2. /\ Succeeds(Enqueue([r EXCEPT !.over = TRUE, !.current = "error"], "error"), r, "error")
          /\ Enqueue([r EXCEPT !.over = TRUE, !.current = "error"], "error").over = TRUE
      BY <2>2, <3>1, Enqueued
    <3>3. Succeeds(FailReactor(r), r, "error") /\ FailReactor(r).over = TRUE
      BY <2>2, <3>2 DEF FailReactor
    <3>4. FailReactor(r) # r
      BY <2>2, <3>3
    <3>5. QED
      BY <3>3, <3>4 DEF Succeeds
  <2>3. QED
    BY <2>1, <2>2
<1>4. QED
  BY <1>1, <1>2, <1>3

\* A step of the turn keeps what is known of its reactions.
LEMMA ReactionsFollow ==
  ASSUME PresenterInv, NEW op \in Marks \cup {"none"},
         Succeeds(reactor', reactor, op),
         reactor' # reactor /\ reactor'.over => op \in {"none", "error"},
         reactor' # reactor /\ op = "error" => end' = "error",
         end = "error" => end' = "error",
         reacted' = reacted, \A x \in Requests : Failed(x) => Failed(x)'
  PROVE  ReactionsTell'
<1>1. ReactionsTell /\ reactor \in Reactors
  BY DEF PresenterInv, PresenterTypes
<1>2. CASE reactor' = reactor
  BY <1>1, <1>2 DEF ReactionsTell, Requests
<1>3. CASE reactor' # reactor
  <2>1. /\ ~reactor.over /\ reactor'.chain # <<>> /\ reactor'.own = reactor.own
        /\ reactor'.bare = reactor.bare
        /\ reactor'.chain[Len(reactor'.chain)] = op
        /\ \A k \in DOMAIN reactor'.chain :
             \/ reactor'.chain[k] = op
             \/ k \in DOMAIN reactor.chain /\ reactor'.chain[k] = reactor.chain[k]
        /\ reactor.chain # <<>> => Head(reactor'.chain) = Head(reactor.chain)
    BY <1>3 DEF Succeeds, Appends
  <2>2. (reactor.bare => /\ reactor.own = "none" /\ reactor.chain # <<>>
                         /\ Head(reactor.chain) # "none")'
    BY <1>1, <2>1 DEF ReactionsTell
  <2>3. (\/ \A m \in reacted : m \in {"error", reactor.own}
         \/ Failed("react") \/ Failed("unreact"))'
    BY <1>1, <2>1 DEF ReactionsTell, Requests
  <2>4. (reactor.over =>
           IF reactor.chain = <<>> THEN reactor.own = "none"
           ELSE reactor.chain[Len(reactor.chain)] \in {"none", "error"})'
    BY <1>3, <2>1
  <2>5. (\A k \in DOMAIN reactor.chain : reactor.chain[k] = "error" => end = "error")'
    BY <1>1, <1>3, <2>1 DEF ReactionsTell
  <2>6. ("error" \in reacted => end = "error")'
    BY <1>1 DEF ReactionsTell
  <2>7. QED
    BY <2>2, <2>3, <2>4, <2>5, <2>6 DEF ReactionsTell
<1>4. QED
  BY <1>2, <1>3

\* What a change of the reactor keeps.
LEMMA PendingKept ==
  ASSUME PresenterTypes, NEW op, Succeeds(reactor', reactor, op)
  PROVE  ErrorPending => ErrorPending'
BY DEF Succeeds, Appends, ErrorPending

\* Progress of the turn, its timer and the clock.
LEMMA WorkKeeps ==
  ASSUME PresenterInv, UNCHANGED <<present, hasLine, ended, timers, channel, reacted, mishaps>>,
         wire' = wire \/ (hasLine /\ ~ended /\ wire' = Append(wire, "status")),
         timer' \in BOOLEAN, timer' => hasLine /\ ~ended,
         \/ reactor' = reactor
         \/ \E mark \in {"queued", "thinking", "tool"} : reactor' = Set(reactor, mark)
  PROVE  PresenterInv'
<1>1. /\ PresenterTypes /\ StepsTell /\ ReactorTells /\ LineTells /\ ReactionsTell
      /\ CountsTell
  BY DEF PresenterInv
<1>2. UNCHANGED <<style, turnStep, left, end, hasLine, ended, ticker, typing, line, copies,
                  sorry, reacted, faults, lost>>
  BY DEF present, timers, channel, mishaps
<1>3. PICK op \in {"queued", "thinking", "tool"} :
        Succeeds(reactor', reactor, op) /\ (reactor'.over <=> reactor.over)
  BY <1>1, ReactorOps DEF Succeeds, PresenterTypes
<1>4. op \in Marks \cup {"none"} /\ op # "error" /\ op # "none"
  BY DEF Marks
<1>5. \A x \in Requests : Failed(x) => Failed(x)'
  BY <1>2 DEF Failed
<1>6. PresenterTypes'
  <2>1. wire' \in Seq({"status", "reply", "error"})
    BY <1>1 DEF PresenterTypes
  <2>2. QED
    BY <1>1, <1>2, <1>3, <2>1 DEF PresenterTypes, Succeeds
<1>7. StepsTell' /\ ReactorTells'
  BY <1>1, <1>2, <1>3 DEF StepsTell, ReactorTells
<1>8. LineTells'
  BY <1>1, <1>2, <1>5 DEF LineTells, OfTheLine, StepsTell, Requests
<1>9. ReactionsTell'
  <2>1. reactor' # reactor => ~reactor.over
    BY <1>3 DEF Succeeds
  <2>2. QED
    BY <1>2, <1>3, <1>4, <1>5, <2>1, ReactionsFollow
<1>10. CountsTell'
  <2>1. ErrorPending => ErrorPending'
    BY <1>1, <1>3, PendingKept
  <2>2. QED
    BY <1>1, <1>2, <2>1 DEF CountsTell
<1>11. QED
  BY <1>6, <1>7, <1>8, <1>9, <1>10 DEF PresenterInv

LEMMA ProgressKeeps ==
  ASSUME PresenterInv,
         TimerFires \/ IntervalPasses \/ Tick
         \/ (\E mark \in {"thinking", "tool"} : OnPhase(mark))
  PROVE  PresenterInv'
<1>1. /\ timer \in BOOLEAN /\ (timer => hasLine /\ ~ended)
  BY DEF PresenterInv, PresenterTypes, StepsTell
<1>2. CASE TimerFires
  BY <1>1, <1>2, WorkKeeps DEF TimerFires, Flush, Active
<1>3. CASE IntervalPasses
  BY <1>1, <1>3, WorkKeeps DEF IntervalPasses
<1>4. CASE Tick
  BY <1>1, <1>4, WorkKeeps DEF Tick, Update, Flush, Active
<1>5. ASSUME NEW mark \in {"thinking", "tool"}, OnPhase(mark) PROVE PresenterInv'
  <2>1. CASE style = "reactions"
    <3>1. /\ UNCHANGED <<present, hasLine, ended, timers, channel, reacted, mishaps, wire, timer>>
          /\ reactor' = Set(reactor, mark)
      BY <1>5, <2>1 DEF OnPhase, present
    <3>2. QED
      BY <1>1, <3>1, WorkKeeps
  <2>2. CASE style # "reactions"
    <3>1. /\ UNCHANGED <<present, hasLine, ended, timers, channel, reacted, mishaps, reactor>>
          /\ Update(news')
      BY <1>5, <2>2 DEF OnPhase, present
    <3>2. QED
      BY <1>1, <3>1, WorkKeeps DEF Update, Flush, Active
  <2>3. QED
    BY <2>1, <2>2
<1>6. QED
  BY <1>2, <1>3, <1>4, <1>5

LEMMA StatusEditedKeeps == ASSUME PresenterInv, StatusEdited PROVE PresenterInv'
<1>1. /\ PresenterTypes /\ StepsTell /\ ReactorTells /\ LineTells /\ ReactionsTell
      /\ CountsTell
  BY DEF PresenterInv
<1>2. PICK a \in Outcomes :
        Hears(a, "edit") /\ line' = IF a.applied THEN "status" ELSE line
  BY DEF StatusEdited
<1>3. /\ wire # <<>> /\ wire' = Tail(wire)
      /\ UNCHANGED <<style, turnStep, left, end, hasLine, ended, timer, ticker, typing,
                     reactor, copies, sorry, reacted>>
  BY DEF StatusEdited, present, status, timers
<1>4. /\ faults' \in Seq(Requests) /\ lost' \in Nat /\ Len(faults') >= Len(faults)
      /\ Len(faults) \in Nat /\ Len(faults') \in Nat /\ lost' >= lost
      /\ \A x \in Requests : Failed(x) => Failed(x)'
  <2>1. "edit" \in Requests
    BY DEF Requests
  <2>2. QED
    BY <1>1, <1>2, <2>1, Heard DEF PresenterTypes
<1>5. PresenterTypes'
  <2>1. wire' \in Seq({"status", "reply", "error"})
    BY <1>1, <1>3 DEF PresenterTypes
  <2>2. QED
    BY <1>1, <1>2, <1>3, <1>4, <2>1 DEF PresenterTypes
<1>6. StepsTell' /\ ReactorTells'
  BY <1>1, <1>3 DEF StepsTell, ReactorTells
<1>7. LineTells'
  BY <1>1, <1>2, <1>3, <1>4 DEF LineTells, OfTheLine, Requests
<1>8. ReactionsTell'
  BY <1>1, <1>3, <1>4 DEF ReactionsTell, Requests
<1>9. CountsTell'
  <2>1. copies \in Nat /\ sorry \in Nat /\ lost \in Nat
    BY <1>1 DEF PresenterTypes
  <2>2. ErrorPending' <=> ErrorPending
    BY <1>3 DEF ErrorPending
  <2>3. /\ Len(faults) >= 1 => Len(faults') >= 1
        /\ Len(faults) > 0 => Len(faults') > 0
        /\ Len(faults) >= 2 => Len(faults') >= 2
        /\ copies <= lost => copies <= lost'
        /\ copies + sorry <= 1 + lost => copies + sorry <= 1 + lost'
    <3>0. PICK n, m, l : n = Len(faults) /\ m = Len(faults') /\ l = lost'
      OBVIOUS
    <3>1. n \in Nat /\ m \in Nat /\ l \in Nat /\ m >= n /\ l >= lost
      BY <1>4, <3>0
    <3>2. /\ n >= 1 => m >= 1
          /\ n > 0 => m > 0
          /\ n >= 2 => m >= 2
          /\ copies <= lost => copies <= l
          /\ copies + sorry <= 1 + lost => copies + sorry <= 1 + l
      BY <2>1, <3>1
    <3>3. QED
      BY <3>0, <3>2
  <2>4. QED
    BY <1>1, <1>3, <2>2, <2>3 DEF CountsTell
<1>10. QED
  BY <1>5, <1>6, <1>7, <1>8, <1>9 DEF PresenterInv

\* A step from one place of the turn to another: the parts that do not depend on
\* what it is about.
LEMMA OnQueuedKeeps == ASSUME PresenterInv, OnQueued PROVE PresenterInv'
<1>1. /\ PresenterTypes /\ StepsTell /\ ReactorTells /\ LineTells /\ ReactionsTell
      /\ CountsTell
  BY DEF PresenterInv
<1>2. /\ turnStep = "new" /\ turnStep' = "queued"
      /\ UNCHANGED <<style, left, end, hasLine, ended, timer, ticker, typing, wire, line,
                     copies, sorry, reacted, faults, lost>>
  BY DEF OnQueued, status, timers, channel, mishaps
<1>3. Succeeds(reactor', reactor, "queued") /\ (reactor'.over <=> reactor.over)
  BY <1>1, ReactorOps DEF OnQueued, PresenterTypes
<1>4. \A x \in Requests : Failed(x) => Failed(x)'
  BY <1>2 DEF Failed
<1>5. PresenterTypes'
  BY <1>1, <1>2, <1>3 DEF PresenterTypes, Succeeds
<1>6. StepsTell' /\ ReactorTells'
  BY <1>1, <1>2, <1>3 DEF StepsTell, ReactorTells, Early
<1>7. LineTells'
  BY <1>1, <1>2, <1>4 DEF LineTells, OfTheLine, Requests
<1>8. ReactionsTell'
  <2>1. "queued" \in Marks \cup {"none"} /\ (reactor' # reactor => ~reactor.over)
    BY <1>3 DEF Marks, Succeeds
  <2>2. QED
    BY <1>2, <1>3, <1>4, <2>1, ReactionsFollow
<1>9. CountsTell'
  BY <1>1, <1>2 DEF CountsTell, StepsTell, Early
<1>10. QED
  BY <1>5, <1>6, <1>7, <1>8, <1>9 DEF PresenterInv

LEMMA TurnBegins == ASSUME PresenterInv, Begin PROVE PresenterInv'
<1>1. /\ PresenterTypes /\ StepsTell /\ ReactorTells /\ LineTells /\ ReactionsTell
      /\ CountsTell
  BY DEF PresenterInv
<1>2. /\ turnStep \in {"new", "queued"}
      /\ turnStep' = (IF style = "line" THEN "posting" ELSE "working")
      /\ typing' = (IF style = "line" THEN typing ELSE TRUE)
      /\ UNCHANGED <<style, left, end, hasLine, ended, timer, ticker, wire, line,
                     copies, sorry, reacted, faults, lost>>
  BY DEF Begin, channel, mishaps
<1>3. PICK op \in {"queued", "thinking", "tool"} :
        Succeeds(reactor', reactor, op) /\ (reactor'.over <=> reactor.over)
  <2>1. reactor' = reactor \/ reactor' = Set(reactor, "thinking")
    BY DEF Begin
  <2>2. QED
    BY <1>1, <2>1, ReactorOps DEF PresenterTypes, Succeeds
<1>4. \A x \in Requests : Failed(x) => Failed(x)'
  BY <1>2 DEF Failed
<1>5. PresenterTypes'
  BY <1>1, <1>2, <1>3 DEF PresenterTypes, Succeeds
<1>6. StepsTell' /\ ReactorTells'
  BY <1>1, <1>2, <1>3 DEF StepsTell, ReactorTells, Early, PresenterTypes
<1>7. LineTells'
  BY <1>1, <1>2, <1>4 DEF LineTells, OfTheLine, Requests
<1>8. ReactionsTell'
  <2>1. op \in Marks \cup {"none"} /\ op # "error" /\ (reactor' # reactor => ~reactor.over)
    BY <1>3 DEF Marks, Succeeds
  <2>2. QED
    BY <1>2, <1>3, <1>4, <2>1, ReactionsFollow
<1>9. CountsTell'
  BY <1>1, <1>2 DEF CountsTell, StepsTell, Early, PresenterTypes
<1>10. QED
  BY <1>5, <1>6, <1>7, <1>8, <1>9 DEF PresenterInv

LEMMA StartedKeeps == ASSUME PresenterInv, Started PROVE PresenterInv'
<1>1. /\ PresenterTypes /\ StepsTell /\ ReactorTells /\ LineTells /\ ReactionsTell
      /\ CountsTell
  BY DEF PresenterInv
<1>2. PICK a \in Outcomes :
        /\ Hears(a, "start") /\ hasLine' = a.ok
        /\ line' = IF a.applied THEN "status" ELSE line
  BY DEF Started
<1>3. /\ turnStep = "posting" /\ turnStep' = "working" /\ typing' = TRUE /\ ticker' = TRUE
      /\ UNCHANGED <<style, left, end, ended, timer, wire, copies, sorry, reacted>>
  BY DEF Started
<1>4. Succeeds(reactor', reactor, "none") /\ reactor'.over
  BY <1>1, ReactorOps DEF Started, PresenterTypes
<1>5. /\ a.applied \in BOOLEAN /\ a.ok \in BOOLEAN /\ (a.ok => a.applied)
      /\ faults' \in Seq(Requests) /\ lost' \in Nat
      /\ \A x \in Requests : Failed(x) => Failed(x)'
      /\ ~a.ok => Failed("start")' /\ Len(faults') >= 1
  <2>1. "start" \in Requests /\ Len(faults) \in Nat
    BY <1>1 DEF Requests, PresenterTypes
  <2>2. QED
    BY <1>1, <1>2, <2>1, Heard
<1>6. PresenterTypes'
  BY <1>1, <1>2, <1>3, <1>4, <1>5 DEF PresenterTypes, Succeeds
<1>7. StepsTell' /\ ReactorTells'
  BY <1>1, <1>2, <1>3, <1>4 DEF StepsTell, ReactorTells, Early
<1>8. LineTells'
  BY <1>1, <1>2, <1>3, <1>5 DEF LineTells, OfTheLine, Requests
<1>9. ReactionsTell'
  <2>1. "none" \in Marks \cup {"none"}
    OBVIOUS
  <2>2. QED
    BY <1>3, <1>4, <1>5, <2>1, ReactionsFollow
<1>10. CountsTell'
  BY <1>1, <1>2, <1>3, <1>5 DEF CountsTell, StepsTell, Early
<1>11. QED
  BY <1>6, <1>7, <1>8, <1>9, <1>10 DEF PresenterInv

\* The end of a turn, from its work or before it: what it does to the line, the
\* reaction and the channel's requests.
LEMMA EndKeeps ==
  ASSUME PresenterInv, end = "none", end' # "none", turnStep # "posting", PresenterTypes',
         UNCHANGED <<style, hasLine, line, copies, sorry, reacted, faults, lost>>,
         ~ticker', typing' => turnStep' \in {"first", "again"},
         hasLine => ended', ended => ended', timer' => timer /\ ~hasLine,
         \/ Succeeds(reactor', reactor, "none")
         \/ end' = "error" /\ Succeeds(reactor', reactor, "error"),
         turnStep' \in {"apology", "failing", "over"} => reactor'.over,
         end' = "reply" => turnStep' = (IF hasLine THEN "morphing" ELSE "first"),
         end' = "silence" => turnStep' = (IF hasLine THEN "deleting" ELSE "over"),
         end' = "error" => \/ turnStep' = "over" /\ ~hasLine /\ ErrorPending'
                           \/ turnStep' \in {"apology", "failing"},
         hasLine => turnStep' # "apology",
         wire' # wire => hasLine, end' \in {"reply", "silence", "error"},
         end' = "reply" => left' > 0,
         style = "line" /\ ~hasLine /\ end' = "reply" => turnStep = "working"
  PROVE  PresenterInv'
<1>1. /\ PresenterTypes /\ StepsTell /\ ReactorTells /\ LineTells /\ ReactionsTell
      /\ CountsTell
  BY DEF PresenterInv
<1>2. \A x \in Requests : Failed(x) => Failed(x)'
  BY DEF Failed
<1>3. turnStep \in {"new", "queued", "working"}
  BY <1>1 DEF StepsTell, Early
<1>4. reactor.over => reactor'.over
  BY DEF Succeeds
<1>5. StepsTell'
  BY <1>1, <1>3 DEF StepsTell, Early
<1>6. ReactorTells'
  BY <1>1, <1>3, <1>4 DEF ReactorTells, StepsTell, Early, PresenterTypes
<1>7. LineTells'
  BY <1>1, <1>2, <1>3 DEF LineTells, OfTheLine, Requests, StepsTell, Early
<1>8. ReactionsTell'
  <2>1. "none" \in Marks \cup {"none"} /\ "error" \in Marks \cup {"none"}
    BY DEF Marks
  <2>2. QED
    BY <1>1, <1>2, <2>1, ReactionsFollow
<1>9. CountsTell'
  BY <1>1, <1>3 DEF CountsTell, StepsTell, Early, PresenterTypes
<1>10. QED
  BY <1>5, <1>6, <1>7, <1>8, <1>9 DEF PresenterInv

LEMMA DeliverKeeps ==
  ASSUME PresenterInv, NEW n \in 0..MaxParts, DeliverParts(n) PROVE PresenterInv'
<1>1. PresenterTypes /\ StepsTell /\ ReactorTells
  BY DEF PresenterInv
<1>2. /\ turnStep = "working" /\ left' = n /\ ~ticker' /\ ticker' \in BOOLEAN
      /\ end' = IF n = 0 THEN "silence" ELSE "reply"
      /\ UNCHANGED <<style, hasLine, line, copies, sorry, reacted, faults, lost>>
  BY DEF DeliverParts, channel, mishaps
<1>3. end = "none"
  BY <1>1, <1>2 DEF StepsTell
<1>4. n \in Int /\ (n > 0 <=> n # 0)
  OBVIOUS
<1>5. /\ typing' \in BOOLEAN /\ ended' \in BOOLEAN /\ timer' \in BOOLEAN
      /\ typing' => turnStep' \in {"first", "again"}
      /\ hasLine => ended'
      /\ ended => ended'
      /\ timer' => timer /\ ~hasLine
      /\ turnStep' = IF n = 0 THEN (IF hasLine THEN "deleting" ELSE "over")
                     ELSE IF hasLine THEN "morphing" ELSE "first"
      /\ wire' = wire \/ (hasLine /\ wire' = Append(wire, "reply"))
  <2>1. CASE style = "line"
    <3>1. ended' = TRUE /\ timer' = FALSE /\ typing' = FALSE
      BY <2>1 DEF DeliverParts, StopPending
    <3>2. turnStep' = IF n = 0 THEN (IF hasLine THEN "deleting" ELSE "over")
                      ELSE IF hasLine THEN "morphing" ELSE "first"
      BY <2>1 DEF DeliverParts
    <3>3. wire' = wire \/ (hasLine /\ wire' = Append(wire, "reply"))
      BY <2>1 DEF DeliverParts
    <3>4. QED
      BY <3>1, <3>2, <3>3
  <2>2. CASE style # "line"
    <3>1. ~hasLine /\ ended \in BOOLEAN /\ timer \in BOOLEAN
      BY <1>1, <2>2 DEF StepsTell, PresenterTypes
    <3>2. ended' = ended /\ timer' = timer /\ wire' = wire
      BY <2>2 DEF DeliverParts, LineStays
    <3>3. turnStep' = IF n = 0 THEN "over" ELSE "first"
      BY <2>2 DEF DeliverParts
    <3>4. typing' = (n > 0)
      BY <2>2 DEF DeliverParts
    <3>5. typing' \in BOOLEAN /\ (typing' => n # 0)
      <4>1. CASE n > 0
        <5>1. typing' = TRUE
          BY <3>4, <4>1
        <5>2. QED
          BY <1>4, <4>1, <5>1
      <4>2. CASE ~(n > 0)
        <5>1. (n > 0) = FALSE
          BY <4>2
        <5>2. typing' = FALSE
          BY <3>4, <5>1, Zenon
        <5>3. QED
          BY <5>2
      <4>3. QED
        BY <4>1, <4>2
    <3>6. QED
      BY <3>1, <3>2, <3>3, <3>5
  <2>3. QED
    BY <2>1, <2>2
<1>6. wire' \in Seq({"status", "reply", "error"})
  <2>1. wire \in Seq({"status", "reply", "error"})
    BY <1>1 DEF PresenterTypes
  <2>2. QED
    BY <1>5, <2>1
<1>7. reactor' = reactor \/ reactor' = Resolve(reactor)
  BY DEF DeliverParts
<1>8. /\ reactor' \in Reactors /\ Succeeds(reactor', reactor, "none")
      /\ turnStep' \in {"apology", "failing", "over"} => reactor'.over
  <2>1. reactor \in Reactors /\ Succeeds(reactor, reactor, "none")
    BY <1>1 DEF PresenterTypes, Succeeds
  <2>2. Succeeds(Resolve(reactor), reactor, "none") /\ Resolve(reactor).over
    BY <2>1, ReactorOps
  <2>3. turnStep' = "over" => reactor' = Resolve(reactor)
    BY <1>2, <1>5 DEF DeliverParts
  <2>4. QED
    BY <1>2, <1>5, <1>7, <2>1, <2>2, <2>3 DEF Succeeds
<1>9. PresenterTypes'
  BY <1>1, <1>2, <1>4, <1>5, <1>6, <1>8 DEF PresenterTypes
<1>10. QED
  BY <1>2, <1>3, <1>5, <1>8, <1>9, EndKeeps

LEMMA FailKeeps ==
  ASSUME PresenterInv, NEW text \in BOOLEAN, Fail(text) PROVE PresenterInv'
<1>1. PresenterTypes /\ StepsTell /\ ReactorTells
  BY DEF PresenterInv
<1>2. /\ turnStep \in {"new", "working"} /\ end' = "error" /\ ~ticker' /\ ~typing'
      /\ ticker' \in BOOLEAN /\ typing' \in BOOLEAN
      /\ UNCHANGED <<style, left, hasLine, line, copies, sorry, reacted, faults, lost>>
  BY DEF Fail, channel, mishaps
<1>3. end = "none" /\ reactor \in Reactors
  BY <1>1, <1>2 DEF StepsTell, Early, PresenterTypes
<1>4. CASE style = "line" /\ turnStep = "working"
  <2>1. /\ ended' = TRUE /\ timer' = FALSE /\ reactor' = reactor /\ reactor.over
        /\ wire' = IF hasLine THEN Append(wire, "error") ELSE wire
        /\ turnStep' = IF hasLine THEN "failing" ELSE "apology"
    BY <1>1, <1>4 DEF Fail, StopPending, ReactorTells, Early
  <2>2. wire' \in Seq({"status", "reply", "error"})
    <3>1. wire \in Seq({"status", "reply", "error"})
      BY <1>1 DEF PresenterTypes
    <3>2. QED
      BY <2>1, <3>1
  <2>3. PresenterTypes'
    BY <1>1, <1>2, <2>1, <2>2 DEF PresenterTypes
  <2>4. Succeeds(reactor', reactor, "none")
    BY <1>3, <2>1 DEF Succeeds
  <2>5. QED
    BY <1>2, <1>3, <2>1, <2>3, <2>4, EndKeeps
<1>5. CASE ~(style = "line" /\ turnStep = "working")
  <2>1. /\ UNCHANGED <<ended, timer, wire>> /\ reactor' = FailReactor(reactor)
        /\ turnStep' = IF text THEN "apology" ELSE "over"
    BY <1>5 DEF Fail, LineStays
  <2>2. ~hasLine /\ ~timer
    BY <1>1, <1>2, <1>5 DEF StepsTell, Early
  <2>3. /\ Succeeds(reactor', reactor, "error") /\ reactor'.over
        /\ ~reactor.over => Appends(reactor', reactor, "error")
    BY <1>3, <2>1, ReactorOps
  <2>4. turnStep' = "over" => ErrorPending'
    <3>1. ASSUME ~text PROVE ~reactor.over
      BY <1>1, <1>3, <3>1 DEF Fail, ReactorTells
    <3>2. ASSUME Appends(reactor', reactor, "error") PROVE ErrorPending'
      <4>1. /\ reactor'.chain \in Seq(Marks \cup {"none"}) /\ reactor'.chain # <<>>
            /\ reactor'.chain[Len(reactor'.chain)] = "error"
        BY <2>3, <3>2 DEF Succeeds, Appends, Reactors
      <4>2. Len(reactor'.chain) \in DOMAIN reactor'.chain
        BY <4>1
      <4>3. QED
        BY <4>1, <4>2 DEF ErrorPending
    <3>3. QED
      BY <2>1, <2>3, <3>1, <3>2
  <2>5. PresenterTypes'
    BY <1>1, <1>2, <2>1, <2>3 DEF PresenterTypes, Succeeds
  <2>6. QED
    BY <1>2, <1>3, <2>1, <2>2, <2>3, <2>4, <2>5, EndKeeps
<1>6. QED
  BY <1>4, <1>5

LEMMA DiscardKeeps == ASSUME PresenterInv, Discard PROVE PresenterInv'
<1>1. PresenterTypes /\ StepsTell /\ ReactorTells
  BY DEF PresenterInv
<1>2. /\ turnStep \in {"new", "queued", "working"} /\ end' = "silence"
      /\ ~ticker' /\ ~typing' /\ ticker' \in BOOLEAN /\ typing' \in BOOLEAN
      /\ turnStep' = (IF hasLine THEN "deleting" ELSE "over")
      /\ UNCHANGED <<style, left, hasLine, wire, line, copies, sorry, reacted, faults, lost>>
  BY DEF Discard, channel, mishaps
<1>3. end = "none" /\ reactor \in Reactors
  BY <1>1, <1>2 DEF StepsTell, Early, PresenterTypes
<1>4. /\ ended' \in BOOLEAN /\ timer' \in BOOLEAN /\ (hasLine => ended')
      /\ ended => ended'
      /\ timer' => timer /\ ~hasLine
  BY <1>1 DEF Discard, StopPending, LineStays, StepsTell, PresenterTypes
<1>5. /\ Succeeds(reactor', reactor, "none")
      /\ turnStep' \in {"apology", "failing", "over"} => reactor'.over
  <2>1. CASE hasLine
    BY <1>2, <1>3, <2>1 DEF Discard, Succeeds
  <2>2. CASE ~hasLine
    BY <1>3, <2>2, ReactorOps DEF Discard
  <2>3. QED
    BY <2>1, <2>2
<1>6. PresenterTypes'
  BY <1>1, <1>2, <1>4, <1>5 DEF PresenterTypes, Succeeds
<1>7. QED
  BY <1>2, <1>3, <1>4, <1>5, <1>6, EndKeeps

LEMMA OnlyCopies ==
  ASSUME NEW c \in Nat, NEW s, NEW l \in Nat, c <= 1 + l, s = 0 PROVE c + s <= 1 + l
OBVIOUS

\* The turn posts a part of its reply.
LEMMA PostsKeep ==
  ASSUME PresenterInv, NEW b \in BOOLEAN,
         turnStep \in {"morphing", "first", "again", "rest"},
         UNCHANGED <<style, end, hasLine, ended, timer, ticker, sorry, reacted>>,
         wire' \in Seq({"status", "reply", "error"}),
         line' \in {"none", "status", "reply", "error"}, copies' \in Nat,
         faults' \in Seq(Requests), lost' \in Nat,
         \A x \in Requests : Failed(x) => Failed(x)', LineTells',
         \/ /\ AfterFirst(b)
            /\ copies' <= 1 + lost' /\ (copies' > 0 \/ Len(faults') >= 2)
         \/ /\ turnStep' \in {"first", "again"} /\ turnStep # "rest"
            /\ UNCHANGED <<left, typing, reactor>>
            /\ copies' <= lost' /\ Len(faults') >= 1
            /\ typing' => turnStep' \in {"first", "again"}
  PROVE  PresenterInv'
<1>1. /\ PresenterTypes /\ StepsTell /\ ReactorTells /\ LineTells /\ ReactionsTell
      /\ CountsTell
  BY DEF PresenterInv
<1>2. end = "reply" /\ left \in Int /\ left > 0 /\ reactor \in Reactors /\ sorry = 0
  BY <1>1 DEF StepsTell, PresenterTypes, Early, CountsTell
<1>3. CASE AfterFirst(b) /\ copies' <= 1 + lost' /\ (copies' > 0 \/ Len(faults') >= 2)
  <2>1. left' = (IF b THEN left - 1 ELSE 0) /\ typing' = FALSE
    BY <1>3 DEF AfterFirst
  <2>2. left' \in Int /\ (left' > 0 \/ left' = 0) /\ ~(left' > 0 /\ left' = 0)
    BY <1>2, <2>1
  <2>3. turnStep' \in {"rest", "over"} /\ (turnStep' = "rest" => left' > 0)
    BY <1>3 DEF AfterFirst
  <2>4. turnStep' = "over" => left' = 0
    BY <1>3, <2>2 DEF AfterFirst
  <2>5. /\ Succeeds(reactor', reactor, "none")
        /\ reactor.over => reactor'.over
        /\ left' = 0 /\ style = "reactions" => reactor'.over
    <3>1. Succeeds(reactor, reactor, "none")
      BY <1>2 DEF Succeeds
    <3>2. Succeeds(Resolve(reactor), reactor, "none") /\ Resolve(reactor).over
      BY <1>2, ReactorOps
    <3>3. reactor' = IF left' = 0 /\ style = "reactions" THEN Resolve(reactor) ELSE reactor
      BY <1>3 DEF AfterFirst
    <3>4. CASE left' = 0 /\ style = "reactions"
      BY <3>2, <3>3, <3>4
    <3>5. CASE ~(left' = 0 /\ style = "reactions")
      BY <3>1, <3>3, <3>5
    <3>6. QED
      BY <3>4, <3>5
  <2>6. PresenterTypes'
    BY <1>1, <2>1, <2>2, <2>3, <2>5 DEF PresenterTypes, Succeeds
  <2>7. StepsTell'
    BY <1>1, <1>2, <2>1, <2>3 DEF StepsTell, Early
  <2>8. ReactorTells'
    BY <1>1, <1>2, <2>3, <2>4, <2>5 DEF ReactorTells, StepsTell, Early, PresenterTypes
  <2>9. ReactionsTell'
    <3>1. "none" \in Marks \cup {"none"}
      OBVIOUS
    <3>2. QED
      BY <1>2, <2>5, <3>1, ReactionsFollow
  <2>10. CountsTell'
    <3>1. copies' + sorry' <= 1 + lost'
      <4>1. copies' <= 1 + lost' /\ sorry' = 0
        BY <1>2, <1>3
      <4>2. QED
        BY <4>1, OnlyCopies
    <3>2. QED
      BY <1>2, <1>3, <2>3, <3>1 DEF CountsTell
  <2>11. QED
    BY <2>6, <2>7, <2>8, <2>9, <2>10 DEF PresenterInv
<1>4. CASE /\ turnStep' \in {"first", "again"} /\ turnStep # "rest"
           /\ UNCHANGED <<left, typing, reactor>>
           /\ copies' <= lost' /\ Len(faults') >= 1
           /\ typing' => turnStep' \in {"first", "again"}
  <2>1. PresenterTypes'
    BY <1>1, <1>4 DEF PresenterTypes
  <2>2. StepsTell'
    BY <1>1, <1>2, <1>4 DEF StepsTell, Early
  <2>3. ReactorTells'
    BY <1>1, <1>2, <1>4 DEF ReactorTells, Early, StepsTell
  <2>4. ReactionsTell'
    BY <1>1, <1>2, <1>4 DEF ReactionsTell, Requests
  <2>5. CountsTell'
    BY <1>2, <1>4 DEF CountsTell
  <2>6. QED
    BY <2>1, <2>2, <2>3, <2>4, <2>5 DEF PresenterInv
<1>5. QED
  BY <1>3, <1>4

LEMMA MorphedKeeps == ASSUME PresenterInv, Morphed PROVE PresenterInv'
<1>1. PresenterTypes /\ StepsTell /\ LineTells /\ CountsTell
  BY DEF PresenterInv
<1>2. PICK a \in Outcomes :
        /\ Hears(a, "edit")
        /\ line' = IF a.applied THEN "reply" ELSE line
        /\ copies' = IF a.applied THEN copies + 1 ELSE copies
        /\ IF a.ok THEN AfterFirst(TRUE)
           ELSE turnStep' = "first" /\ UNCHANGED <<left, typing, reactor>>
  BY DEF Morphed
<1>3. /\ turnStep = "morphing" /\ wire' = <<>>
      /\ UNCHANGED <<style, end, hasLine, ended, timer, ticker, sorry, reacted>>
  BY DEF Morphed, status
<1>4. copies = 0 /\ lost \in Nat /\ Len(faults) \in Nat
  BY <1>1, <1>3 DEF CountsTell, PresenterTypes
<1>5. /\ a.applied \in BOOLEAN /\ a.ok \in BOOLEAN /\ (a.ok => a.applied)
      /\ faults' \in Seq(Requests) /\ lost' \in Nat
      /\ Len(faults') = IF a.ok THEN Len(faults) ELSE Len(faults) + 1
      /\ lost' = IF a.applied /\ ~a.ok THEN lost + 1 ELSE lost
      /\ \A x \in Requests : Failed(x) => Failed(x)'
      /\ ~a.ok => Failed("edit")'
  <2>1. "edit" \in Requests
    BY DEF Requests
  <2>2. QED
    BY <1>1, <1>2, <2>1, Heard
<1>6. copies' \in Nat /\ line' \in {"none", "status", "reply", "error"}
  BY <1>1, <1>2, <1>4 DEF PresenterTypes
<1>7. wire' \in Seq({"status", "reply", "error"})
  BY <1>3
<1>8. LineTells'
  BY <1>2, <1>3, <1>5 DEF LineTells
<1>9. CASE a.ok
  <2>1. copies' = 1 /\ lost' = lost
    BY <1>2, <1>4, <1>5, <1>9
  <2>2. copies' <= 1 + lost' /\ copies' > 0
    BY <1>4, <2>1
  <2>3. AfterFirst(TRUE)
    BY <1>2, <1>9
  <2>4. QED
    BY <1>3, <1>5, <1>6, <1>7, <1>8, <2>2, <2>3, PostsKeep
<1>10. CASE ~a.ok
  <2>1. copies' <= lost'
    BY <1>2, <1>4, <1>5, <1>10
  <2>2. Len(faults') >= 1
    BY <1>4, <1>5, <1>10
  <2>3. turnStep' = "first" /\ UNCHANGED <<left, typing, reactor>>
    BY <1>2, <1>10
  <2>4. QED
    BY <1>3, <1>5, <1>6, <1>7, <1>8, <2>1, <2>2, <2>3, PostsKeep
<1>11. QED
  BY <1>5, <1>9, <1>10

LEMMA FirstPostedKeeps == ASSUME PresenterInv, FirstPosted PROVE PresenterInv'
<1>1. PresenterTypes /\ StepsTell /\ LineTells /\ CountsTell
  BY DEF PresenterInv
<1>2. PICK a \in Outcomes :
        /\ Hears(a, "post")
        /\ copies' = IF a.applied THEN copies + 1 ELSE copies
        /\ IF a.ok THEN AfterFirst(TRUE)
           ELSE IF style = "reactions" /\ turnStep = "first"
           THEN turnStep' = "again" /\ UNCHANGED <<left, typing, reactor>>
           ELSE AfterFirst(FALSE)
  BY DEF FirstPosted
<1>3. /\ turnStep \in {"first", "again"}
      /\ UNCHANGED <<style, end, hasLine, ended, timer, ticker, wire, line, sorry, reacted>>
  BY DEF FirstPosted, status
<1>4. copies \in Nat /\ lost \in Nat /\ copies <= lost /\ Len(faults) \in Nat
  BY <1>1, <1>3 DEF CountsTell, PresenterTypes
<1>5. /\ a.applied \in BOOLEAN /\ a.ok \in BOOLEAN /\ (a.ok => a.applied)
      /\ faults' \in Seq(Requests) /\ lost' \in Nat
      /\ Len(faults') = IF a.ok THEN Len(faults) ELSE Len(faults) + 1
      /\ lost' = IF a.applied /\ ~a.ok THEN lost + 1 ELSE lost
      /\ \A x \in Requests : Failed(x) => Failed(x)'
  <2>1. "post" \in Requests
    BY DEF Requests
  <2>2. QED
    BY <1>1, <1>2, <2>1, Heard
<1>6. /\ copies' \in Nat /\ line' \in {"none", "status", "reply", "error"}
      /\ wire' \in Seq({"status", "reply", "error"})
  BY <1>1, <1>2, <1>3, <1>4 DEF PresenterTypes
<1>7. LineTells'
  BY <1>1, <1>3, <1>5 DEF LineTells, OfTheLine, Requests
<1>8. CASE a.ok
  <2>1. copies' = copies + 1 /\ lost' = lost
    BY <1>2, <1>5, <1>8
  <2>2. copies' <= 1 + lost' /\ copies' > 0
    BY <1>4, <2>1
  <2>3. AfterFirst(TRUE)
    BY <1>2, <1>8
  <2>4. QED
    BY <1>3, <1>5, <1>6, <1>7, <2>2, <2>3, PostsKeep
<1>9. CASE ~a.ok
  <2>1. copies' <= lost'
    BY <1>2, <1>4, <1>5, <1>9
  <2>2. Len(faults') = Len(faults) + 1
    BY <1>5, <1>9
  <2>3. CASE style = "reactions" /\ turnStep = "first"
    <3>1. turnStep' = "again" /\ UNCHANGED <<left, typing, reactor>>
      BY <1>2, <1>9, <2>3
    <3>2. Len(faults') >= 1
      BY <1>4, <2>2
    <3>3. QED
      BY <1>3, <1>5, <1>6, <1>7, <2>1, <3>1, <3>2, PostsKeep
  <2>4. CASE ~(style = "reactions" /\ turnStep = "first")
    <3>1. AfterFirst(FALSE)
      BY <1>2, <1>9, <2>4
    <3>2. Len(faults) >= 1
      BY <1>1, <1>3, <2>4 DEF CountsTell, PresenterTypes
    <3>3. Len(faults') >= 2
      BY <1>4, <2>2, <3>2
    <3>4. copies' <= 1 + lost'
      BY <1>5, <1>6, <2>1
    <3>5. QED
      BY <1>3, <1>5, <1>6, <1>7, <3>1, <3>3, <3>4, PostsKeep
  <2>5. QED
    BY <2>3, <2>4
<1>10. QED
  BY <1>5, <1>8, <1>9

LEMMA RestPostedKeeps == ASSUME PresenterInv, RestPosted PROVE PresenterInv'
<1>1. PresenterTypes /\ StepsTell /\ LineTells /\ CountsTell
  BY DEF PresenterInv
<1>2. PICK a \in Outcomes : Hears(a, "chunk")
  BY DEF RestPosted
<1>3. /\ turnStep = "rest" /\ AfterFirst(TRUE)
      /\ UNCHANGED <<style, end, hasLine, ended, timer, ticker, wire, line, copies, sorry,
                     reacted>>
  BY DEF RestPosted, status, channel
<1>4. /\ copies \in Nat /\ lost \in Nat /\ sorry \in Nat /\ Len(faults) \in Nat
      /\ copies + sorry <= 1 + lost /\ (copies > 0 \/ Len(faults) >= 2)
  BY <1>1, <1>3 DEF CountsTell, PresenterTypes, StepsTell, Early
<1>5. /\ faults' \in Seq(Requests) /\ lost' \in Nat
      /\ Len(faults') = IF a.ok THEN Len(faults) ELSE Len(faults) + 1
      /\ lost' = IF a.applied /\ ~a.ok THEN lost + 1 ELSE lost
      /\ \A x \in Requests : Failed(x) => Failed(x)'
  <2>1. "chunk" \in Requests
    BY DEF Requests
  <2>2. QED
    BY <1>1, <1>2, <2>1, Heard
<1>6. copies' <= 1 + lost'
  BY <1>3, <1>4, <1>5
<1>7. copies' > 0 \/ Len(faults') >= 2
  <2>1. Len(faults) >= 2 => Len(faults') >= 2
    BY <1>4, <1>5
  <2>2. QED
    BY <1>3, <1>4, <2>1
<1>8. /\ copies' \in Nat /\ line' \in {"none", "status", "reply", "error"}
      /\ wire' \in Seq({"status", "reply", "error"})
  BY <1>1, <1>3 DEF PresenterTypes
<1>9. LineTells'
  <2>1. ~OfTheLine
    BY <1>3 DEF OfTheLine
  <2>2. QED
    BY <1>1, <1>3, <1>5, <2>1 DEF LineTells, Requests
<1>10. QED
  BY <1>3, <1>5, <1>6, <1>7, <1>8, <1>9, PostsKeep

LEMMA ErrorShownKeeps == ASSUME PresenterInv, ErrorShown PROVE PresenterInv'
<1>1. /\ PresenterTypes /\ StepsTell /\ ReactorTells /\ LineTells /\ ReactionsTell
      /\ CountsTell
  BY DEF PresenterInv
<1>2. PICK a \in Outcomes :
        /\ Hears(a, IF turnStep = "failing" THEN "edit" ELSE "post")
        /\ sorry' = IF a.applied THEN sorry + 1 ELSE sorry
        /\ line' = IF a.applied /\ turnStep = "failing" THEN "error" ELSE line
  BY DEF ErrorShown
<1>3. /\ turnStep \in {"failing", "apology"} /\ turnStep' = "over"
      /\ wire' = IF turnStep = "failing" THEN <<>> ELSE wire
      /\ UNCHANGED <<style, left, end, hasLine, ended, timer, ticker, typing, reactor, copies,
                     reacted>>
  BY DEF ErrorShown, status, timers
<1>4. /\ end = "error" /\ copies = 0 /\ sorry = 0 /\ lost \in Nat /\ Len(faults) \in Nat
      /\ reactor.over
  BY <1>1, <1>3 DEF CountsTell, PresenterTypes, StepsTell, Early, ReactorTells
<1> PICK what : what = IF turnStep = "failing" THEN "edit" ELSE "post"
  OBVIOUS
<1>5. /\ a.applied \in BOOLEAN /\ a.ok \in BOOLEAN /\ (a.ok => a.applied)
      /\ faults' \in Seq(Requests) /\ lost' \in Nat
      /\ Len(faults') = IF a.ok THEN Len(faults) ELSE Len(faults) + 1
      /\ lost' = IF a.applied /\ ~a.ok THEN lost + 1 ELSE lost
      /\ \A x \in Requests : Failed(x) => Failed(x)'
      /\ ~a.ok => Failed(what)'
  <2>1. what \in Requests /\ Hears(a, what)
    BY <1>2 DEF Requests
  <2>2. QED
    BY <1>1, <2>1, Heard
<1>6. sorry' \in Nat /\ line' \in {"none", "status", "reply", "error"}
  BY <1>1, <1>2, <1>4 DEF PresenterTypes
<1>7. wire' \in Seq({"status", "reply", "error"})
  BY <1>1, <1>3 DEF PresenterTypes
<1>8. PresenterTypes'
  BY <1>1, <1>3, <1>5, <1>6, <1>7 DEF PresenterTypes
<1>9. StepsTell' /\ ReactorTells'
  BY <1>1, <1>3, <1>4 DEF StepsTell, ReactorTells, Early
<1>10. LineTells'
  <2>1. CASE turnStep = "failing"
    BY <1>2, <1>3, <1>5, <2>1 DEF LineTells
  <2>2. CASE turnStep # "failing"
    <3>1. ~OfTheLine /\ line' = line /\ wire' = wire
      BY <1>2, <1>3, <2>2 DEF OfTheLine
    <3>2. QED
      BY <1>1, <1>5, <3>1 DEF LineTells, Requests
  <2>3. QED
    BY <2>1, <2>2
<1>11. ReactionsTell'
  BY <1>1, <1>3, <1>5 DEF ReactionsTell, Requests
<1>12. CountsTell'
  <2>1. copies' + sorry' <= 1 + lost'
    BY <1>2, <1>3, <1>4, <1>5
  <2>2. sorry' > 0 \/ Len(faults') > 0
    <3>1. CASE a.applied
      BY <1>2, <1>4, <3>1
    <3>2. CASE ~a.applied
      BY <1>4, <1>5, <3>2
    <3>3. QED
      BY <3>1, <3>2
  <2>3. QED
    BY <1>3, <1>4, <2>1, <2>2 DEF CountsTell
<1>13. QED
  BY <1>8, <1>9, <1>10, <1>11, <1>12 DEF PresenterInv

LEMMA DeletedKeeps == ASSUME PresenterInv, Deleted PROVE PresenterInv'
<1>1. /\ PresenterTypes /\ StepsTell /\ ReactorTells /\ LineTells /\ ReactionsTell
      /\ CountsTell
  BY DEF PresenterInv
<1>2. PICK a \in Outcomes :
        /\ Hears(a, "delete")
        /\ line' = IF a.applied THEN "none" ELSE line
        /\ wire' = IF a.applied THEN <<>> ELSE wire
  BY DEF Deleted
<1>3. /\ turnStep = "deleting" /\ turnStep' = "over" /\ reactor' = Resolve(reactor)
      /\ hasLine' = FALSE
      /\ UNCHANGED <<style, left, end, ended, timer, ticker, typing, copies, sorry, reacted>>
  BY DEF Deleted, timers
<1>4. /\ end = "silence" /\ copies = 0 /\ sorry = 0 /\ lost \in Nat /\ ~timer
      /\ reactor \in Reactors
  BY <1>1, <1>3 DEF CountsTell, PresenterTypes, StepsTell, Early
<1>5. /\ a.applied \in BOOLEAN /\ a.ok \in BOOLEAN /\ (a.ok => a.applied)
      /\ faults' \in Seq(Requests) /\ lost' \in Nat
      /\ \A x \in Requests : Failed(x) => Failed(x)'
      /\ ~a.ok => Failed("delete")'
  <2>1. "delete" \in Requests
    BY DEF Requests
  <2>2. QED
    BY <1>1, <1>2, <2>1, Heard
<1>6. Succeeds(reactor', reactor, "none") /\ reactor'.over
  BY <1>3, <1>4, ReactorOps
<1>7. wire' \in Seq({"status", "reply", "error"}) /\ line' \in {"none", "status", "reply", "error"}
  BY <1>1, <1>2 DEF PresenterTypes
<1>8. PresenterTypes'
  BY <1>1, <1>3, <1>5, <1>6, <1>7 DEF PresenterTypes, Succeeds
<1>9. StepsTell' /\ ReactorTells'
  BY <1>1, <1>3, <1>4, <1>6 DEF StepsTell, ReactorTells, Early
<1>10. LineTells'
  BY <1>2, <1>5 DEF LineTells
<1>11. ReactionsTell'
  <2>1. "none" \in Marks \cup {"none"}
    OBVIOUS
  <2>2. QED
    BY <1>3, <1>4, <1>5, <1>6, <2>1, ReactionsFollow
<1>12. CountsTell'
  <2>1. copies' = 0 /\ sorry' = 0 /\ copies' + sorry' <= 1 + lost'
    <3>1. copies' = 0 /\ sorry' = 0 /\ lost' \in Nat
      BY <1>3, <1>4, <1>5
    <3>2. copies' \in Nat /\ copies' <= 1 + lost'
      <4>1. \A l \in Nat : 0 <= 1 + l
        OBVIOUS
      <4>2. QED
        BY <3>1, <4>1
    <3>3. QED
      BY <3>1, <3>2, OnlyCopies
  <2>2. QED
    BY <1>3, <1>4, <2>1 DEF CountsTell
<1>13. QED
  BY <1>8, <1>9, <1>10, <1>11, <1>12 DEF PresenterInv

\* A request about a reaction leaves what is posted as it was.
LEMMA CountsKept ==
  ASSUME CountsTell, copies \in Nat, sorry \in Nat, lost \in Nat, lost' \in Nat, lost' >= lost,
         Len(faults) \in Nat, Len(faults') \in Nat, Len(faults') >= Len(faults),
         UNCHANGED <<style, turnStep, end, hasLine, copies, sorry>>,
         "error" \in reacted => "error" \in reacted',
         ErrorPending => ErrorPending' \/ "error" \in reacted' \/ Len(faults') > 0
  PROVE  CountsTell'
<1>1. /\ Len(faults) >= 1 => Len(faults') >= 1
      /\ Len(faults) > 0 => Len(faults') > 0
      /\ Len(faults) >= 2 => Len(faults') >= 2
      /\ copies <= lost => copies <= lost'
      /\ copies + sorry <= 1 + lost => copies + sorry <= 1 + lost'
  <2>0. PICK n, m, l : n = Len(faults) /\ m = Len(faults') /\ l = lost'
    OBVIOUS
  <2>1. n \in Nat /\ m \in Nat /\ l \in Nat /\ m >= n /\ l >= lost
    BY <2>0
  <2>2. /\ n >= 1 => m >= 1
        /\ n > 0 => m > 0
        /\ n >= 2 => m >= 2
        /\ copies <= lost => copies <= l
        /\ copies + sorry <= 1 + lost => copies + sorry <= 1 + l
    BY <2>1
  <2>3. QED
    BY <2>0, <2>2
<1>2. QED
  BY <1>1 DEF CountsTell

LEMMA ReactionRemoved == ASSUME PresenterInv, RemoveOwn PROVE PresenterInv'
<1>1. /\ PresenterTypes /\ StepsTell /\ ReactorTells /\ LineTells /\ ReactionsTell
      /\ CountsTell
  BY DEF PresenterInv
<1>2. /\ reactor.chain # <<>> /\ ~reactor.bare
      /\ reactor' = IF Head(reactor.chain) = "none"
                    THEN [reactor EXCEPT !.own = "none", !.chain = Tail(@)]
                    ELSE [reactor EXCEPT !.own = "none", !.bare = TRUE]
      /\ UNCHANGED <<style, turnStep, left, end, hasLine, ended, timer, ticker, typing, wire,
                     line, copies, sorry>>
  BY DEF RemoveOwn, present, status, timers, channel
<1>3. /\ faults' \in Seq(Requests) /\ lost' \in Nat /\ Len(faults') >= Len(faults)
      /\ Len(faults) \in Nat /\ Len(faults') \in Nat /\ lost' >= lost
      /\ \A x \in Requests : Failed(x) => Failed(x)'
      /\ reacted' \subseteq reacted /\ ("error" \in reacted => "error" \in reacted')
      /\ (\A m \in reacted' : m # reactor.own) \/ Failed("unreact")' \/ reactor.own = "none"
  <2>1. reactor.own # "error" /\ Len(faults) \in Nat /\ lost \in Nat
    BY <1>1 DEF PresenterTypes, Reactors
  <2>2. CASE reactor.own = "none"
    BY <1>1, <2>1, <2>2 DEF RemoveOwn, mishaps, PresenterTypes, Failed
  <2>3. CASE reactor.own # "none"
    <3>1. PICK a \in Outcomes :
            /\ Hears(a, "unreact")
            /\ reacted' = IF a.applied THEN reacted \ {reactor.own} ELSE reacted
      BY <2>3 DEF RemoveOwn
    <3>2. "unreact" \in Requests
      BY DEF Requests
    <3>3. /\ a.applied \in BOOLEAN /\ a.ok \in BOOLEAN /\ (a.ok => a.applied)
          /\ faults' \in Seq(Requests) /\ lost' \in Nat
          /\ Len(faults') = IF a.ok THEN Len(faults) ELSE Len(faults) + 1
          /\ lost' = IF a.applied /\ ~a.ok THEN lost + 1 ELSE lost
          /\ \A x \in Requests : Failed(x) => Failed(x)'
          /\ ~a.ok => Failed("unreact")'
      BY <1>1, <3>1, <3>2, Heard
    <3>4. Len(faults') >= Len(faults) /\ Len(faults') \in Nat /\ lost' >= lost
      BY <2>1, <3>3
    <3>5. QED
      BY <2>1, <3>1, <3>3, <3>4
  <2>4. QED
    BY <2>2, <2>3
<1>4. /\ reactor \in Reactors /\ reactor.chain \in Seq(Marks \cup {"none"})
      /\ Len(reactor.chain) \in Nat /\ Len(reactor.chain) > 0
  BY <1>1, <1>2 DEF PresenterTypes, Reactors
<1> PICK tl : tl = Tail(reactor.chain)
  OBVIOUS
<1>5. /\ tl \in Seq(Marks \cup {"none"}) /\ Len(tl) = Len(reactor.chain) - 1
      /\ \A k \in DOMAIN tl : k + 1 \in DOMAIN reactor.chain /\ tl[k] = reactor.chain[k + 1]
      /\ \A k \in DOMAIN reactor.chain :
           \/ k = 1 /\ reactor.chain[k] = Head(reactor.chain)
           \/ k - 1 \in DOMAIN tl /\ tl[k - 1] = reactor.chain[k]
      /\ tl # <<>> => tl[Len(tl)] = reactor.chain[Len(reactor.chain)]
  BY <1>4
<1>6. /\ reactor' \in Reactors /\ reactor'.own = "none" /\ reactor'.over = reactor.over
      /\ \/ /\ Head(reactor.chain) = "none" /\ reactor'.chain = tl /\ ~reactor'.bare
         \/ /\ Head(reactor.chain) # "none" /\ reactor'.chain = reactor.chain /\ reactor'.bare
  BY <1>2, <1>4, <1>5 DEF Reactors
<1>7. PresenterTypes'
  BY <1>1, <1>2, <1>3, <1>6 DEF PresenterTypes
<1>8. StepsTell' /\ ReactorTells'
  BY <1>1, <1>2, <1>6 DEF StepsTell, ReactorTells
<1>9. LineTells'
  BY <1>1, <1>2, <1>3 DEF LineTells, OfTheLine, Requests
<1>10. ReactionsTell'
  <2>1. (reactor.bare => /\ reactor.own = "none" /\ reactor.chain # <<>>
                         /\ Head(reactor.chain) # "none")'
    BY <1>2, <1>6
  <2>2. (\/ \A m \in reacted : m \in {"error", reactor.own}
         \/ Failed("react") \/ Failed("unreact"))'
    BY <1>1, <1>3, <1>6 DEF ReactionsTell, Requests
  <2>3. (reactor.over =>
           IF reactor.chain = <<>> THEN reactor.own = "none"
           ELSE reactor.chain[Len(reactor.chain)] \in {"none", "error"})'
    BY <1>1, <1>2, <1>5, <1>6 DEF ReactionsTell
  <2>4. (\A k \in DOMAIN reactor.chain : reactor.chain[k] = "error" => end = "error")'
    BY <1>1, <1>2, <1>5, <1>6 DEF ReactionsTell
  <2>5. ("error" \in reacted => end = "error")'
    BY <1>1, <1>2, <1>3 DEF ReactionsTell
  <2>6. QED
    BY <2>1, <2>2, <2>3, <2>4, <2>5 DEF ReactionsTell
<1>11. CountsTell'
  <2>1. copies \in Nat /\ sorry \in Nat /\ lost \in Nat
    BY <1>1 DEF PresenterTypes
  <2>2. ErrorPending => ErrorPending'
    <3>1. SUFFICES ASSUME NEW k \in DOMAIN reactor.chain, reactor.chain[k] = "error"
                   PROVE  ErrorPending'
      BY DEF ErrorPending
    <3>2. CASE reactor'.chain = reactor.chain
      BY <3>1, <3>2 DEF ErrorPending
    <3>3. CASE reactor'.chain = tl /\ Head(reactor.chain) = "none"
      <4>1. k - 1 \in DOMAIN tl /\ tl[k - 1] = "error"
        BY <1>5, <3>1, <3>3
      <4>2. QED
        BY <3>3, <4>1 DEF ErrorPending
    <3>4. QED
      BY <1>6, <3>2, <3>3
  <2>3. QED
    BY <1>1, <1>2, <1>3, <2>1, <2>2, CountsKept
<1>12. QED
  BY <1>7, <1>8, <1>9, <1>10, <1>11 DEF PresenterInv

LEMMA ReactionShown == ASSUME PresenterInv, React PROVE PresenterInv'
<1>1. /\ PresenterTypes /\ StepsTell /\ ReactorTells /\ LineTells /\ ReactionsTell
      /\ CountsTell
  BY DEF PresenterInv
<1> PICK op : op = Head(reactor.chain)
  OBVIOUS
<1>2. PICK a \in Outcomes :
        /\ Hears(a, "react")
        /\ reacted' = IF a.applied THEN reacted \cup {op} ELSE reacted
        /\ reactor' = [reactor EXCEPT
             !.bare = FALSE, !.chain = Tail(@),
             !.own = IF a.ok /\ op # "error" THEN op ELSE "none"]
  BY DEF React
<1>3. /\ reactor.bare
      /\ UNCHANGED <<style, turnStep, left, end, hasLine, ended, timer, ticker, typing, wire,
                     line, copies, sorry>>
  BY DEF React, present, status, timers, channel
<1>4. /\ reactor \in Reactors /\ reactor.chain \in Seq(Marks \cup {"none"})
      /\ Len(reactor.chain) \in Nat /\ Len(reactor.chain) > 0
      /\ op # "none" /\ reactor.own = "none" /\ op \in Marks /\ 1 \in DOMAIN reactor.chain
      /\ reactor.chain[1] = op
  <2>1. reactor \in Reactors /\ reactor.own = "none" /\ reactor.chain # <<>> /\ op # "none"
    BY <1>1, <1>3 DEF PresenterTypes, ReactionsTell
  <2>2. reactor.chain \in Seq(Marks \cup {"none"})
    BY <2>1 DEF Reactors
  <2>3. /\ Len(reactor.chain) \in Nat /\ Len(reactor.chain) > 0 /\ op \in Marks \cup {"none"}
        /\ 1 \in DOMAIN reactor.chain /\ reactor.chain[1] = op
    BY <2>1, <2>2
  <2>4. QED
    BY <2>1, <2>2, <2>3
<1>5. /\ a.applied \in BOOLEAN /\ a.ok \in BOOLEAN /\ (a.ok => a.applied)
      /\ faults' \in Seq(Requests) /\ lost' \in Nat
      /\ Len(faults') = IF a.ok THEN Len(faults) ELSE Len(faults) + 1
      /\ lost' = IF a.applied /\ ~a.ok THEN lost + 1 ELSE lost
      /\ \A x \in Requests : Failed(x) => Failed(x)'
      /\ ~a.ok => Failed("react")'
  <2>1. "react" \in Requests
    BY DEF Requests
  <2>2. QED
    BY <1>1, <1>2, <2>1, Heard
<1>6. /\ Len(faults') >= Len(faults) /\ Len(faults) \in Nat /\ Len(faults') \in Nat
      /\ lost' >= lost /\ (~a.ok => Len(faults') > 0)
  <2>1. Len(faults) \in Nat /\ lost \in Nat
    BY <1>1 DEF PresenterTypes
  <2>2. QED
    BY <1>5, <2>1
<1> PICK tl : tl = Tail(reactor.chain)
  OBVIOUS
<1>7. /\ tl \in Seq(Marks \cup {"none"}) /\ Len(tl) = Len(reactor.chain) - 1
      /\ \A k \in DOMAIN tl : k + 1 \in DOMAIN reactor.chain /\ tl[k] = reactor.chain[k + 1]
      /\ \A k \in DOMAIN reactor.chain :
           \/ k = 1 /\ reactor.chain[k] = op
           \/ k - 1 \in DOMAIN tl /\ tl[k - 1] = reactor.chain[k]
      /\ tl # <<>> => tl[Len(tl)] = reactor.chain[Len(reactor.chain)]
      /\ tl = <<>> => reactor.chain[Len(reactor.chain)] = op
  <2>1. /\ tl \in Seq(Marks \cup {"none"}) /\ Len(tl) = Len(reactor.chain) - 1
        /\ \A k \in DOMAIN tl : tl[k] = reactor.chain[k + 1]
    BY <1>4
  <2>2. /\ \A k \in DOMAIN tl : k + 1 \in DOMAIN reactor.chain
        /\ \A k \in DOMAIN reactor.chain : k = 1 \/ k - 1 \in DOMAIN tl
    BY <1>4, <2>1
  <2>3. \A k \in DOMAIN reactor.chain : k - 1 \in DOMAIN tl => tl[k - 1] = reactor.chain[k]
    BY <1>4, <2>1
  <2>4. tl # <<>> => tl[Len(tl)] = reactor.chain[Len(reactor.chain)]
    <3>1. tl # <<>> => Len(tl) \in DOMAIN tl
      BY <2>1
    <3>2. Len(tl) + 1 = Len(reactor.chain)
      BY <1>4, <2>1
    <3>3. QED
      BY <2>1, <3>1, <3>2
  <2>5. tl = <<>> => Len(reactor.chain) = 1
    <3>1. tl = <<>> => Len(tl) = 0
      OBVIOUS
    <3>2. Len(reactor.chain) = Len(tl) + 1
      BY <1>4, <2>1
    <3>3. QED
      BY <3>1, <3>2
  <2>6. QED
    BY <1>4, <2>1, <2>2, <2>3, <2>4, <2>5
<1> PICK mine : mine = IF a.ok /\ op # "error" THEN op ELSE "none"
  OBVIOUS
<1>8. /\ reactor' \in Reactors /\ reactor'.own = mine /\ reactor'.over = reactor.over
      /\ reactor'.chain = tl /\ ~reactor'.bare
  <2>1. mine \in {"none", "queued", "thinking", "tool"}
    BY <1>4 DEF Marks
  <2>2. reactor' = [reactor EXCEPT !.bare = FALSE, !.chain = tl, !.own = mine]
    BY <1>2
  <2>3. QED
    BY <1>4, <1>7, <2>1, <2>2 DEF Reactors
<1>9. reacted' \subseteq Marks /\ reacted \subseteq reacted'
  BY <1>1, <1>2, <1>4 DEF PresenterTypes
<1>10. PresenterTypes'
  BY <1>1, <1>3, <1>5, <1>8, <1>9 DEF PresenterTypes
<1>11. StepsTell' /\ ReactorTells'
  BY <1>1, <1>3, <1>8 DEF StepsTell, ReactorTells
<1>12. LineTells'
  BY <1>1, <1>3, <1>5 DEF LineTells, OfTheLine, Requests
<1>13. ReactionsTell'
  <2>1. (reactor.bare => /\ reactor.own = "none" /\ reactor.chain # <<>>
                         /\ Head(reactor.chain) # "none")'
    BY <1>8
  <2>2. (\/ \A m \in reacted : m \in {"error", reactor.own}
         \/ Failed("react") \/ Failed("unreact"))'
    <3>1. CASE ~a.ok
      BY <1>5, <3>1
    <3>2. CASE a.ok
      <4>1. /\ reacted' = reacted \cup {op}
            /\ reactor'.own = IF op # "error" THEN op ELSE "none"
        BY <1>2, <1>5, <1>8, <3>2
      <4>2. CASE \A m \in reacted : m \in {"error", "none"}
        <5>1. \A m \in reacted : m = "error"
          BY <1>1, <4>2 DEF PresenterTypes, Marks
        <5>2. QED
          BY <4>1, <5>1
      <4>3. CASE Failed("react") \/ Failed("unreact")
        BY <1>5, <4>3 DEF Requests
      <4>4. QED
        BY <1>1, <1>4, <4>2, <4>3 DEF ReactionsTell
    <3>3. QED
      BY <1>5, <3>1, <3>2
  <2>3. (reactor.over =>
           IF reactor.chain = <<>> THEN reactor.own = "none"
           ELSE reactor.chain[Len(reactor.chain)] \in {"none", "error"})'
    <3>1. ASSUME reactor.over
          PROVE  reactor.chain[Len(reactor.chain)] \in {"none", "error"}
      BY <1>1, <1>4, <3>1 DEF ReactionsTell
    <3>2. CASE tl = <<>>
      BY <1>4, <1>7, <1>8, <3>1, <3>2
    <3>3. CASE tl # <<>>
      BY <1>7, <1>8, <3>1, <3>3
    <3>4. QED
      BY <3>2, <3>3
  <2>4. (\A k \in DOMAIN reactor.chain : reactor.chain[k] = "error" => end = "error")'
    BY <1>1, <1>3, <1>7, <1>8 DEF ReactionsTell
  <2>5. ("error" \in reacted => end = "error")'
    BY <1>1, <1>2, <1>3, <1>4 DEF ReactionsTell
  <2>6. QED
    BY <2>1, <2>2, <2>3, <2>4, <2>5 DEF ReactionsTell
<1>14. CountsTell'
  <2>1. copies \in Nat /\ sorry \in Nat /\ lost \in Nat
    BY <1>1 DEF PresenterTypes
  <2>2. ErrorPending => ErrorPending' \/ "error" \in reacted' \/ Len(faults') > 0
    <3>1. ASSUME ErrorPending, ~ErrorPending' PROVE op = "error"
      BY <1>7, <1>8, <3>1 DEF ErrorPending
    <3>2. op = "error" => "error" \in reacted' \/ Len(faults') > 0
      BY <1>2, <1>5, <1>6
    <3>3. QED
      BY <3>1, <3>2
  <2>3. "error" \in reacted => "error" \in reacted'
    BY <1>9
  <2>4. QED
    BY <1>1, <1>3, <1>5, <1>6, <2>1, <2>2, <2>3, CountsKept
<1>15. QED
  BY <1>10, <1>11, <1>12, <1>13, <1>14 DEF PresenterInv

LEMMA PresenterStutters == ASSUME PresenterInv, UNCHANGED presenterVars PROVE PresenterInv'
<1>1. UNCHANGED <<style, turnStep, left, end, hasLine, ended, news, shown, waitingText, timer,
                  recent, ticker, typing, wire, reactor, line, copies, sorry, reacted, faults,
                  lost>>
  BY DEF presenterVars, present, status, timers, channel, mishaps
<1>2. PresenterTypes'
  BY <1>1 DEF PresenterInv, PresenterTypes
<1>3. StepsTell' /\ ReactorTells' /\ LineTells'
  BY <1>1 DEF PresenterInv, StepsTell, ReactorTells, LineTells, OfTheLine, Failed
<1>4. ReactionsTell' /\ CountsTell'
  BY <1>1 DEF PresenterInv, ReactionsTell, CountsTell, Failed, ErrorPending
<1>5. QED
  BY <1>2, <1>3, <1>4 DEF PresenterInv

LEMMA PresenterSteps ==
  ASSUME PresenterInv, PresenterNext \/ UNCHANGED presenterVars PROVE PresenterInv'
<1>1. CASE RemoveOwn \/ React
  BY <1>1, ReactionRemoved, ReactionShown
<1>2. CASE \/ TimerFires \/ IntervalPasses \/ Tick
           \/ \E mark \in {"thinking", "tool"} : OnPhase(mark)
  BY <1>2, ProgressKeeps
<1>3. CASE StatusEdited \/ OnQueued \/ Begin \/ Started
  BY <1>3, StatusEditedKeeps, OnQueuedKeeps, TurnBegins, StartedKeeps
<1>4. CASE \E n \in 0..MaxParts : DeliverParts(n)
  BY <1>4, DeliverKeeps
<1>5. CASE Morphed \/ FirstPosted \/ RestPosted
  BY <1>5, MorphedKeeps, FirstPostedKeeps, RestPostedKeeps
<1>6. CASE \E text \in BOOLEAN : Fail(text)
  BY <1>6, FailKeeps
<1>7. CASE ErrorShown \/ Discard \/ Deleted
  BY <1>7, ErrorShownKeeps, DiscardKeeps, DeletedKeeps
<1>8. CASE UNCHANGED presenterVars
  BY <1>8, PresenterStutters
<1>9. QED
  BY <1>1, <1>2, <1>3, <1>4, <1>5, <1>6, <1>7, <1>8 DEF PresenterNext

\* What is known of a turn that shows itself, at every moment: which step owns the
\* line, the timers and the reaction's handle, that a sign of the work without an
\* owner has a failed request behind it, and how many messages show the reply
\* (finishAsReply, fail, discard of src/discord/presenter.ts).
THEOREM PresenterInvariant == PresenterSpec => []PresenterInv
BY PresenterStarts, PresenterSteps, PTL DEF PresenterSpec

LEMMA OverLeavesNothing == ASSUME PresenterInv PROVE NothingLeftBehind
<1>1. /\ PresenterTypes /\ StepsTell /\ ReactorTells /\ LineTells /\ ReactionsTell
      /\ CountsTell
  BY DEF PresenterInv
<1>2. turnStep = "over" => ~typing /\ ~ticker /\ ~timer
  BY <1>1 DEF StepsTell
<1>3. ASSUME Quiet
      PROVE  /\ line = "status" => Failed("start") \/ Failed("edit") \/ Failed("delete")
             /\ reacted \subseteq {"error"} \/ Failed("react") \/ Failed("unreact")
             /\ "error" \in reacted => end = "error"
             /\ copies + sorry <= 1 + lost
             /\ end = "reply" /\ copies = 0 => Len(faults) >= 2
             /\ end = "error" /\ Signs = 0 => faults # <<>>
             /\ end = "silence" => copies + sorry = 0
  <2>1. turnStep = "over" /\ reactor.chain = <<>> /\ reactor.over
    BY <1>1, <1>3 DEF Quiet, ReactorTells
  <2>2. line = "status" => Failed("start") \/ Failed("edit") \/ Failed("delete")
    BY <1>1, <2>1 DEF LineTells, OfTheLine
  <2>3. reacted \subseteq {"error"} \/ Failed("react") \/ Failed("unreact")
    <3>1. reactor.own = "none" /\ reacted \subseteq Marks
      BY <1>1, <2>1 DEF ReactionsTell, PresenterTypes
    <3>2. QED
      BY <1>1, <3>1 DEF ReactionsTell, Marks
  <2>4. /\ "error" \in reacted => end = "error"
        /\ copies + sorry <= 1 + lost
    BY <1>1, <2>1 DEF ReactionsTell, CountsTell
  <2>5. end = "reply" /\ copies = 0 => Len(faults) >= 2
    <3>1. copies = 0 => ~(copies > 0)
      OBVIOUS
    <3>2. QED
      BY <1>1, <2>1, <3>1 DEF CountsTell
  <2>6. end = "error" /\ Signs = 0 => faults # <<>>
    <3>1. SUFFICES ASSUME end = "error", Signs = 0 PROVE faults # <<>>
      OBVIOUS
    <3>2. IsFiniteSet(reacted)
      <4>1. IsFiniteSet(Marks)
        <5>1. /\ IsFiniteSet({"error"}) /\ IsFiniteSet({"tool"})
              /\ IsFiniteSet({"thinking"}) /\ IsFiniteSet({"queued"})
          BY FS_Singleton
        <5>2. IsFiniteSet({"queued"} \cup {"thinking"}) /\ IsFiniteSet({"tool"} \cup {"error"})
          BY <5>1, FS_Union
        <5>3. Marks = ({"queued"} \cup {"thinking"}) \cup ({"tool"} \cup {"error"})
          BY DEF Marks
        <5>4. QED
          BY <5>2, <5>3, FS_Union
      <4>2. QED
        BY <1>1, <4>1, FS_Subset DEF PresenterTypes
    <3>3. Cardinality(reacted) \in Nat /\ (Cardinality(reacted) = 0 <=> reacted = {})
      BY <3>2, FS_CardinalityType, FS_EmptySet
    <3>4. copies \in Nat /\ sorry \in Nat
      BY <1>1 DEF PresenterTypes
    <3>5. sorry = 0 /\ Cardinality(reacted) = 0
      BY <3>1, <3>3, <3>4 DEF Signs
    <3>6. ~ErrorPending
      BY <2>1 DEF ErrorPending
    <3>7. Len(faults) > 0
      <4>1. sorry > 0 \/ Len(faults) > 0
        BY <1>1, <2>1, <3>1, <3>3, <3>5, <3>6 DEF CountsTell
      <4>2. QED
        BY <3>5, <4>1
    <3>8. QED
      BY <3>7
  <2>7. end = "silence" => copies + sorry = 0
    <3>1. end = "silence" => copies = 0 /\ sorry = 0
      BY <1>1 DEF CountsTell
    <3>2. QED
      BY <3>1
  <2>8. QED
    BY <2>2, <2>3, <2>4, <2>5, <2>6, <2>7
<1>4. QED
  BY <1>2, <1>3 DEF NothingLeftBehind

\* However the requests of a turn fare, once it is over nothing of its work runs on
\* or stays in the channel but for a request about it that failed, and the reply, the
\* error or the silence shows as it should.
THEOREM TurnLeavesNothing == PresenterSpec => []NothingLeftBehind
BY PresenterInvariant, OverLeavesNothing, PTL
=============================================================================
