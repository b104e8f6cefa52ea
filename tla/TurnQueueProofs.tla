--------------------------- MODULE TurnQueueProofs ----------------------------
(***************************************************************************)
(* The gate of the language model and the queue of a channel, for any limits *)
(* and any number of turns: who is served, and in which order.             *)
(***************************************************************************)
EXTENDS TurnQueue, FiniteSetTheorems, TLAPS

-----------------------------------------------------------------------------
(* The gate of the language model (Semaphore).                             *)

\* A call of run() keeps the invariant and puts exactly its own task in the
\* gate.
LEMMA AcquireKeepsGate ==
  ASSUME NEW t \in Tasks, GateInv, t \notin holders, t \notin Queued, Acquire(t)
  PROVE  /\ GateInv'
         /\ holders' \union Queued' = holders \union Queued \union {t}
<1>1. IsFiniteSet(holders)
  BY TasksAssumption, FS_Subset DEF GateInv, GateTypeOK
<1>2. CASE TakeSlot(t)
  <2>1. Cardinality(holders') = Cardinality(holders) + 1
    BY <1>1, <1>2, FS_AddElement DEF TakeSlot
  <2>2. QED
    BY <1>2, <2>1, LimitAssumption
    DEF TakeSlot, CanTakeSlot, GateInv, GateTypeOK, SlotsExact, NoIdleSlot,
        WaitersDistinct, Queued
<1>3. CASE Wait(t)
  <2>1. /\ Len(waiters') = Len(waiters) + 1
        /\ \A i \in 1..Len(waiters) : waiters'[i] = waiters[i]
        /\ waiters'[Len(waiters) + 1] = t
        /\ waiters' \in Seq(Tasks)
    BY <1>3 DEF Wait, GateInv, GateTypeOK
  <2>2. Queued' = Queued \union {t}
    BY <2>1 DEF Queued, GateInv, GateTypeOK
  <2>3. WaitersDistinct'
    BY <1>3, <2>1 DEF Wait, GateInv, GateTypeOK, WaitersDistinct, Queued
  <2>4. NoIdleSlot'
    BY <1>3, LimitAssumption
    DEF Wait, CanTakeSlot, GateInv, GateTypeOK, NoIdleSlot
  <2>5. QED
    BY <1>3, <2>1, <2>2, <2>3, <2>4
    DEF Wait, GateInv, GateTypeOK, SlotsExact
<1>4. QED
  BY <1>2, <1>3 DEF Acquire

\* The finally block keeps the invariant and takes exactly its own task out of
\* the gate.
LEMMA ReleaseKeepsGate ==
  ASSUME NEW t \in Tasks, GateInv, Release(t)
  PROVE  /\ GateInv'
         /\ holders' \union Queued' = (holders \union Queued) \ {t}
         /\ t \notin holders' /\ t \notin Queued'
<1>1. IsFiniteSet(holders)
  BY TasksAssumption, FS_Subset DEF GateInv, GateTypeOK
<1>2. t \in holders /\ t \notin Queued
  BY DEF Release, GateInv, WaitersDistinct, Queued
<1>3. /\ IsFiniteSet(holders \ {t})
      /\ Cardinality(holders \ {t}) = Cardinality(holders) - 1
  BY <1>1, <1>2, FS_RemoveElement
<1>4. CASE waiters # <<>>
  <2>1. /\ holders' = (holders \ {t}) \union {waiters[1]}
        /\ waiters' = Tail(waiters)
        /\ UNCHANGED active
        /\ waiters \in Seq(Tasks)
        /\ Len(waiters) \in Nat \ {0}
    BY <1>4 DEF Release, GateInv, GateTypeOK
  <2>2. /\ waiters' \in Seq(Tasks)
        /\ Len(waiters') = Len(waiters) - 1
        /\ \A i \in 1..Len(waiters') : waiters'[i] = waiters[i + 1]
    BY <2>1
  <2>3. waiters[1] \in Tasks /\ waiters[1] \notin holders
    BY <2>1 DEF GateInv, WaitersDistinct
  <2>4. Cardinality(holders') = Cardinality(holders)
    <3>1. Cardinality(holders') = Cardinality(holders \ {t}) + 1
      BY <1>3, <2>1, <2>3, FS_AddElement
    <3>2. Cardinality(holders) \in Nat
      BY <1>1, FS_CardinalityType
    <3>3. QED
      BY <1>3, <3>1, <3>2
  <2>5. Queued' = Queued \ {waiters[1]}
    <3>1. ASSUME NEW u \in Queued'
          PROVE  u \in Queued /\ u # waiters[1]
      <4>1. PICK i \in 1..Len(waiters') : u = waiters'[i]
        BY <3>1 DEF Queued
      <4>2. i + 1 \in 1..Len(waiters) /\ u = waiters[i + 1] /\ i + 1 # 1
        BY <2>1, <2>2, <4>1
      <4>3. QED
        BY <2>1, <4>2 DEF Queued, GateInv, WaitersDistinct
    <3>2. ASSUME NEW u \in Queued, u # waiters[1]
          PROVE  u \in Queued'
      <4>1. PICK i \in 1..Len(waiters) : u = waiters[i]
        BY <3>2 DEF Queued
      <4>2. i - 1 \in 1..Len(waiters') /\ u = waiters'[i - 1]
        BY <2>1, <2>2, <3>2, <4>1
      <4>3. QED
        BY <4>2 DEF Queued
    <3>3. QED
      BY <3>1, <3>2
  <2>6. WaitersDistinct'
    <3>1. ASSUME NEW i \in 1..Len(waiters'), NEW j \in 1..Len(waiters'),
                 waiters'[i] = waiters'[j]
          PROVE  i = j
      <4>1. /\ i + 1 \in 1..Len(waiters)
            /\ j + 1 \in 1..Len(waiters)
            /\ waiters[i + 1] = waiters[j + 1]
        BY <2>1, <2>2, <3>1
      <4>2. i + 1 = j + 1
        BY <4>1 DEF GateInv, WaitersDistinct
      <4>3. QED
        BY <4>2
    <3>2. ASSUME NEW i \in 1..Len(waiters')
          PROVE  waiters'[i] \notin holders'
      <4>1. waiters'[i] \in Queued \ {waiters[1]}
        BY <2>5 DEF Queued
      <4>2. waiters'[i] \notin holders
        BY <4>1 DEF Queued, GateInv, WaitersDistinct
      <4>3. QED
        BY <2>1, <4>1, <4>2
    <3>3. QED
      BY <3>1, <3>2 DEF WaitersDistinct
  <2>7. GateTypeOK' /\ SlotsExact' /\ NoIdleSlot'
    BY <1>4, <2>1, <2>2, <2>3, <2>4
    DEF GateInv, GateTypeOK, SlotsExact, NoIdleSlot
  <2>8. QED
    BY <1>2, <2>1, <2>3, <2>5, <2>6, <2>7, waiters[1] \in Queued
    DEF GateInv, Queued
<1>5. CASE waiters = <<>>
  <2>1. /\ holders' = holders \ {t}
        /\ waiters' = <<>>
        /\ active' = active - 1
    BY <1>5 DEF Release
  <2>2. Queued = {} /\ Queued' = {}
    BY <1>5, <2>1 DEF Queued
  <2>3. active \in 1..Limit
    <3>1. active # 0
      BY <1>1, <1>2, FS_EmptySet DEF GateInv, SlotsExact
    <3>2. QED
      BY <3>1, LimitAssumption DEF GateInv, GateTypeOK
  <2>4. QED
    BY <1>2, <1>3, <2>1, <2>2, <2>3, LimitAssumption
    DEF GateInv, GateTypeOK, SlotsExact, NoIdleSlot, WaitersDistinct
<1>6. QED
  BY <1>4, <1>5

\* The counter matches the tasks that hold a slot, no slot is idle while a
\* task waits, and nobody waits twice.
THEOREM GateCorrect == GateSpec => []GateInv
<1>1. GateInit => GateInv
  BY LimitAssumption, FS_EmptySet
  DEF GateInit, GateInv, GateTypeOK, SlotsExact, NoIdleSlot, WaitersDistinct
<1>2. GateInv /\ [GateNext]_gateVars => GateInv'
  <2>1. SUFFICES ASSUME GateInv, [GateNext]_gateVars
                 PROVE  GateInv'
    OBVIOUS
  <2>2. CASE GateNext
    <3>1. PICK t \in Tasks : Request(t) \/ Release(t)
      BY <2>2 DEF GateNext
    <3>2. CASE Request(t)
      BY <2>1, <3>2, AcquireKeepsGate DEF Request
    <3>3. CASE Release(t)
      BY <2>1, <3>3, ReleaseKeepsGate
    <3>4. QED
      BY <3>1, <3>2, <3>3
  <2>3. CASE UNCHANGED gateVars
    BY <2>1, <2>3
    DEF gateVars, GateInv, GateTypeOK, SlotsExact, NoIdleSlot, WaitersDistinct
  <2>4. QED
    BY <2>1, <2>2, <2>3
<1>3. QED
  BY <1>1, <1>2, PTL DEF GateSpec

\* A freed slot goes to the oldest waiter: nobody overtakes (gate.ts:50-53).
THEOREM GateIsFair == GateSpec => NoOvertaking
<1>1. [GateNext]_gateVars => [ServesOldestFirst]_gateVars
  <2>1. SUFFICES ASSUME GateNext
                 PROVE  ServesOldestFirst
    BY DEF gateVars, ServesOldestFirst
  <2>2. PICK t \in Tasks : Request(t) \/ Release(t)
    BY <2>1 DEF GateNext
  <2>3. QED
    BY <2>2
    DEF Request, Release, Acquire, TakeSlot, Wait, CanTakeSlot,
        ServesOldestFirst
<1>2. QED
  BY <1>1, PTL DEF GateSpec, NoOvertaking

-----------------------------------------------------------------------------
(* The queue of a channel (TurnQueue).                                     *)

BooksOf(c) == OnBooks \intersect OfChannel(c)

\* The sets the counters count are finite.
LEMMA BooksFinite ==
  /\ IsFiniteSet(OnBooks)
  /\ \A c \in Channels : IsFiniteSet(BooksOf(c))
  BY TasksAssumption, FS_Subset DEF OnBooks, BooksOf

\* A turn that comes onto the books is counted once, in its own channel.
LEMMA BooksGrow ==
  ASSUME NEW m \in Tasks, QueueTypeOK, DepthExact, m \notin OnBooks,
         OnBooks' = OnBooks \union {m},
         channelDepth' = [channelDepth EXCEPT ![ChannelOf[m]] = @ + 1],
         queuedTotal' = queuedTotal + 1
  PROVE  /\ DepthExact'
         /\ channelDepth' \in [Channels -> Nat]
         /\ queuedTotal' \in Nat
<1>1. ChannelOf[m] \in Channels
  BY ChannelOfAssumption
<1>2. queuedTotal' = Cardinality(OnBooks')
  BY BooksFinite, FS_AddElement DEF DepthExact
<1>3. ASSUME NEW c \in Channels
      PROVE  channelDepth'[c] = Cardinality(BooksOf(c)')
  <2>1. CASE c = ChannelOf[m]
    <3>1. BooksOf(c)' = BooksOf(c) \union {m} /\ m \notin BooksOf(c)
      BY <2>1 DEF BooksOf, OfChannel
    <3>2. Cardinality(BooksOf(c)') = Cardinality(BooksOf(c)) + 1
      BY <3>1, BooksFinite, FS_AddElement
    <3>3. QED
      BY <1>1, <2>1, <3>2 DEF DepthExact, BooksOf, QueueTypeOK
  <2>2. CASE c # ChannelOf[m]
    <3>1. BooksOf(c)' = BooksOf(c)
      BY <2>2 DEF BooksOf, OfChannel
    <3>2. QED
      BY <2>2, <3>1 DEF DepthExact, BooksOf, QueueTypeOK
  <2>3. QED
    BY <2>1, <2>2
<1>4. QED
  BY <1>1, <1>2, <1>3 DEF DepthExact, BooksOf, OfChannel, QueueTypeOK

\* A turn that leaves the books is subtracted once, from its own channel.
LEMMA BooksShrink ==
  ASSUME NEW m \in Tasks, QueueTypeOK, DepthExact, m \in OnBooks,
         OnBooks' = OnBooks \ {m},
         channelDepth' = [channelDepth EXCEPT ![ChannelOf[m]] = @ - 1],
         queuedTotal' = queuedTotal - 1
  PROVE  /\ DepthExact'
         /\ channelDepth' \in [Channels -> Nat]
         /\ queuedTotal' \in Nat
<1>1. ChannelOf[m] \in Channels
  BY ChannelOfAssumption
<1>2. queuedTotal' = Cardinality(OnBooks') /\ queuedTotal' \in Nat
  <2>1. /\ IsFiniteSet(OnBooks \ {m})
        /\ Cardinality(OnBooks \ {m}) = Cardinality(OnBooks) - 1
    BY BooksFinite, FS_RemoveElement
  <2>2. QED
    BY <2>1, FS_CardinalityType DEF DepthExact
<1>3. ASSUME NEW c \in Channels
      PROVE  /\ channelDepth'[c] = Cardinality(BooksOf(c)')
             /\ channelDepth'[c] \in Nat
  <2>1. IsFiniteSet(BooksOf(c)') /\ Cardinality(BooksOf(c)') \in Nat
    <3>1. BooksOf(c)' \in SUBSET BooksOf(c)
      BY DEF BooksOf, OfChannel
    <3>2. QED
      BY <3>1, BooksFinite, FS_Subset, FS_CardinalityType
  <2>2. CASE c = ChannelOf[m]
    <3>1. BooksOf(c)' = BooksOf(c) \ {m} /\ m \in BooksOf(c)
      BY <2>2 DEF BooksOf, OfChannel
    <3>2. Cardinality(BooksOf(c)') = Cardinality(BooksOf(c)) - 1
      BY <3>1, BooksFinite, FS_RemoveElement
    <3>3. QED
      BY <1>1, <2>1, <2>2, <3>2 DEF DepthExact, BooksOf, QueueTypeOK
  <2>3. CASE c # ChannelOf[m]
    <3>1. BooksOf(c)' = BooksOf(c)
      BY <2>3 DEF BooksOf, OfChannel
    <3>2. QED
      BY <2>1, <2>3, <3>1 DEF DepthExact, BooksOf, QueueTypeOK
  <2>4. QED
    BY <2>2, <2>3
<1>4. channelDepth' \in [Channels -> Nat]
  BY <1>1, <1>3 DEF QueueTypeOK
<1>5. QED
  BY <1>2, <1>3, <1>4 DEF DepthExact, BooksOf, OfChannel

-----------------------------------------------------------------------------
(* One lemma per action.                                                   *)

LEMMA RejectKeepsInv ==
  ASSUME NEW m \in Tasks, QueueIndInv, Reject(m)
  PROVE  QueueIndInv'
<1>1. \A n \in Tasks : /\ Accepted(n)' <=> Accepted(n)
                       /\ Settled(n)' <=> Settled(n)
                       /\ stage'[n] = "entered" <=> stage[n] = "entered"
                       /\ stage'[n] = "chained" <=> stage[n] = "chained"
                       /\ stage'[n] = "settled" <=> stage[n] = "settled"
  BY DEF Reject, QueueIndInv, QueueTypeOK, Accepted, Settled
<1>2. OnBooks' = OnBooks
  BY <1>1 DEF OnBooks
<1>3. QueueTypeOK' /\ GateInv' /\ DepthExact'
  BY <1>2
  DEF Reject, QueueIndInv, QueueTypeOK, Stage, DepthExact, OfChannel,
      gateVars, bookVars, GateInv, GateTypeOK, SlotsExact, NoIdleSlot,
      WaitersDistinct
<1>4. GateMatchesStages' /\ StampsInOrder'
  BY <1>1
  DEF Reject, QueueIndInv, gateVars, bookVars, GateMatchesStages, Queued,
      StampsInOrder
<1>5. TailIsLatest' /\ ChannelFIFO'
  BY <1>1, ChannelOfAssumption, NoneAssumption
  DEF Reject, QueueIndInv, QueueTypeOK, bookVars, TailIsLatest, ChannelFIFO
<1>6. PriorIsPredecessor'
  BY <1>1
  DEF Reject, QueueIndInv, QueueTypeOK, bookVars, PriorIsPredecessor
<1>7. QED
  BY <1>3, <1>4, <1>5, <1>6 DEF QueueIndInv

\* What both ways of entering the gate have in common.
LEMMA EnteringKeepsGate ==
  ASSUME NEW m \in Tasks, QueueIndInv, stage[m] # "entered", Acquire(m),
         stage' = [stage EXCEPT ![m] = "entered"]
  PROVE  GateInv' /\ GateMatchesStages'
<1>1. m \notin holders /\ m \notin Queued
  BY DEF QueueIndInv, GateMatchesStages
<1>2. /\ GateInv'
      /\ holders' \union Queued' = holders \union Queued \union {m}
  BY <1>1, AcquireKeepsGate DEF QueueIndInv
<1>3. QED
  BY <1>2 DEF QueueIndInv, QueueTypeOK, GateMatchesStages

LEMMA EnterGateKeepsInv ==
  ASSUME NEW m \in Tasks, QueueIndInv, EnterGate(m)
  PROVE  QueueIndInv'
<1>1. GateInv' /\ GateMatchesStages'
  BY EnteringKeepsGate DEF EnterGate
<1>2. /\ stage' = [stage EXCEPT ![m] = "entered"]
      /\ stage[m] = "chained"
      /\ Settled(prior[m])
      /\ UNCHANGED bookVars
  BY DEF EnterGate
<1>3. \A n \in Tasks : /\ Accepted(n)' <=> Accepted(n)
                       /\ Settled(n)' <=> Settled(n)
                       /\ stage'[n] = "settled" <=> stage[n] = "settled"
                       /\ stage'[n] = "chained" <=> stage[n] = "chained" /\ n # m
                       /\ stage'[n] \in {"chained", "entered"}
                            <=> stage[n] \in {"chained", "entered"}
  BY <1>2 DEF QueueIndInv, QueueTypeOK, Accepted, Settled
<1>4. OnBooks' = OnBooks
  BY <1>3 DEF OnBooks
<1>5. QueueTypeOK' /\ DepthExact'
  BY <1>1, <1>2, <1>4
  DEF QueueIndInv, QueueTypeOK, Stage, DepthExact, OfChannel, bookVars, GateInv
<1>6. StampsInOrder'
  BY <1>2, <1>3 DEF QueueIndInv, StampsInOrder, bookVars
<1>7. TailIsLatest'
  BY <1>2, <1>3, ChannelOfAssumption, NoneAssumption
  DEF QueueIndInv, QueueTypeOK, TailIsLatest, bookVars
<1>8. PriorIsPredecessor'
  BY <1>2, <1>3 DEF QueueIndInv, QueueTypeOK, PriorIsPredecessor, bookVars
<1>9. ChannelFIFO'
  <2>1. SUFFICES ASSUME NEW k \in Tasks, NEW n \in Tasks,
                        ChannelOf[k] = ChannelOf[n],
                        Accepted(k), Accepted(n), at[k] < at[n],
                        stage'[n] # "chained"
                 PROVE  Settled(k)
    BY <1>2, <1>3 DEF ChannelFIFO, bookVars
  <2>2. CASE n = m
    <3>1. /\ prior[m] \in Tasks
          /\ at[k] <= at[prior[m]]
          /\ ChannelOf[prior[m]] = ChannelOf[m]
          /\ Accepted(prior[m])
      BY <1>2, <2>1, <2>2 DEF QueueIndInv, PriorIsPredecessor
    <3>2. CASE k = prior[m]
      BY <1>2, <3>2
    <3>3. CASE k # prior[m]
      <4>1. at[k] < at[prior[m]]
        BY <2>1, <3>1, <3>3 DEF QueueIndInv, QueueTypeOK, StampsInOrder
      <4>2. stage[prior[m]] # "chained"
        BY <1>2 DEF Settled
      <4>3. QED
        BY <2>1, <2>2, <3>1, <4>1, <4>2 DEF QueueIndInv, ChannelFIFO
    <3>4. QED
      BY <3>2, <3>3
  <2>3. CASE n # m
    BY <1>3, <2>1, <2>3 DEF QueueIndInv, ChannelFIFO
  <2>4. QED
    BY <2>2, <2>3
<1>10. QED
  BY <1>1, <1>5, <1>6, <1>7, <1>8, <1>9 DEF QueueIndInv

LEMMA EndTaskKeepsInv ==
  ASSUME NEW m \in Tasks, QueueIndInv, EndTask(m)
  PROVE  QueueIndInv'
<1>1. /\ GateInv'
      /\ holders' \union Queued' = (holders \union Queued) \ {m}
  BY ReleaseKeepsGate DEF EndTask, QueueIndInv
<1>2. /\ stage' = [stage EXCEPT ![m] = "settled"]
      /\ stage[m] = "entered"
      /\ UNCHANGED bookVars
  BY DEF EndTask
<1>3. \A n \in Tasks : /\ Accepted(n)' <=> Accepted(n)
                       /\ Settled(n)' <=> Settled(n) \/ n = m
                       /\ stage'[n] = "chained" <=> stage[n] = "chained"
                       /\ stage'[n] \in {"chained", "entered", "settled"}
                            <=> stage[n] \in {"chained", "entered", "settled"}
                       /\ stage'[n] \in {"chained", "entered"}
                            => stage[n] \in {"chained", "entered"}
  BY <1>2 DEF QueueIndInv, QueueTypeOK, Accepted, Settled
<1>4. OnBooks' = OnBooks
  BY <1>3 DEF OnBooks
<1>5. QueueTypeOK' /\ DepthExact'
  BY <1>1, <1>2, <1>4
  DEF QueueIndInv, QueueTypeOK, Stage, DepthExact, OfChannel, bookVars, GateInv
<1>6. GateMatchesStages'
  BY <1>1, <1>2 DEF QueueIndInv, QueueTypeOK, GateMatchesStages
<1>7. StampsInOrder'
  BY <1>2, <1>3 DEF QueueIndInv, StampsInOrder, bookVars
<1>8. TailIsLatest'
  BY <1>2, <1>3, ChannelOfAssumption, NoneAssumption
  DEF QueueIndInv, QueueTypeOK, TailIsLatest, bookVars
<1>9. PriorIsPredecessor'
  BY <1>2, <1>3 DEF QueueIndInv, QueueTypeOK, PriorIsPredecessor, bookVars
<1>10. ChannelFIFO'
  BY <1>2, <1>3 DEF QueueIndInv, ChannelFIFO, bookVars
<1>11. QED
  BY <1>1, <1>5, <1>6, <1>7, <1>8, <1>9, <1>10 DEF QueueIndInv

LEMMA CleanUpKeepsInv ==
  ASSUME NEW m \in Tasks, QueueIndInv, CleanUp(m)
  PROVE  QueueIndInv'
<1>1. /\ stage[m] = "settled"
      /\ stage' = [stage EXCEPT ![m] = "done"]
      /\ UNCHANGED <<gateVars, prior, notified, arrivals, at>>
      /\ ChannelOf[m] \in Channels
      /\ channelTails' = [channelTails EXCEPT ![ChannelOf[m]] =
                            IF @ = m THEN None ELSE @]
  BY ChannelOfAssumption DEF CleanUp
<1>2. \A n \in Tasks : /\ Accepted(n)' <=> Accepted(n)
                       /\ Settled(n)' <=> Settled(n)
                       /\ stage'[n] = "entered" <=> stage[n] = "entered"
                       /\ stage'[n] = "chained" <=> stage[n] = "chained"
                       /\ n # m => stage'[n] = stage[n]
  BY <1>1 DEF QueueIndInv, QueueTypeOK, Accepted, Settled
<1>3. OnBooks' = OnBooks \ {m} /\ m \in OnBooks
  BY <1>1, <1>2 DEF OnBooks, QueueIndInv, QueueTypeOK
<1>4. /\ DepthExact'
      /\ channelDepth' \in [Channels -> Nat]
      /\ queuedTotal' \in Nat
  BY <1>3, BooksShrink DEF CleanUp, QueueIndInv
<1>5. GateInv' /\ GateMatchesStages'
  BY <1>1, <1>2
  DEF QueueIndInv, gateVars, GateInv, GateTypeOK, SlotsExact, NoIdleSlot,
      WaitersDistinct, GateMatchesStages, Queued
<1>6. QueueTypeOK'
  BY <1>1, <1>4, <1>5 DEF QueueIndInv, QueueTypeOK, Stage, GateInv
<1>7. StampsInOrder'
  BY <1>1, <1>2 DEF QueueIndInv, StampsInOrder
<1>8. TailIsLatest'
  <2>1. SUFFICES ASSUME NEW n \in Tasks,
                        NEW tail, tail = channelTails'[ChannelOf[n]]
                 PROVE  /\ tail = None => stage[n] \notin {"chained", "entered"}
                        /\ tail # None =>
                             /\ ChannelOf[tail] = ChannelOf[n]
                             /\ stage'[tail] \in {"chained", "entered", "settled"}
                             /\ Accepted(n) => at[n] <= at[tail]
    BY <1>1, <1>2 DEF TailIsLatest
  <2>2. CASE channelTails[ChannelOf[n]] = m
    <3>1. ChannelOf[m] = ChannelOf[n] /\ tail = None
      BY <1>1, <2>1, <2>2, NoneAssumption, ChannelOfAssumption
      DEF QueueIndInv, QueueTypeOK, TailIsLatest
    <3>2. Accepted(n) => at[n] <= at[m]
      BY <2>2, NoneAssumption DEF QueueIndInv, TailIsLatest
    <3>3. ASSUME stage[n] \in {"chained", "entered"}
          PROVE  FALSE
      <4>1. n # m /\ Accepted(n) /\ Accepted(m)
        BY <1>1, <3>3 DEF Accepted
      <4>2. at[n] < at[m]
        BY <3>2, <4>1 DEF QueueIndInv, QueueTypeOK, StampsInOrder
      <4>3. Settled(n)
        BY <1>1, <3>1, <4>1, <4>2 DEF QueueIndInv, ChannelFIFO
      <4>4. QED
        BY <3>3, <4>3 DEF Settled
    <3>4. QED
      BY <3>1, <3>3
  <2>3. CASE channelTails[ChannelOf[n]] # m
    <3>1. tail = channelTails[ChannelOf[n]]
      BY <1>1, <2>1, <2>3, ChannelOfAssumption DEF QueueIndInv, QueueTypeOK
    <3>2. tail \in Tasks \union {None}
      BY <3>1, ChannelOfAssumption DEF QueueIndInv, QueueTypeOK
    <3>3. QED
      BY <1>2, <2>3, <3>1, <3>2 DEF QueueIndInv, TailIsLatest
  <2>4. QED
    BY <2>2, <2>3
<1>9. PriorIsPredecessor'
  BY <1>1, <1>2 DEF QueueIndInv, QueueTypeOK, PriorIsPredecessor
<1>10. ChannelFIFO'
  BY <1>1, <1>2 DEF QueueIndInv, ChannelFIFO
<1>11. QED
  BY <1>4, <1>5, <1>6, <1>7, <1>8, <1>9, <1>10 DEF QueueIndInv

LEMMA AdmitKeepsInv ==
  ASSUME NEW m \in Tasks, QueueIndInv, Admit(m)
  PROVE  QueueIndInv'
<1> DEFINE c == ChannelOf[m]
           tail == channelTails[c]
<1>1. /\ stage[m] = "absent"
      /\ stage' \in {[stage EXCEPT ![m] = "entered"], [stage EXCEPT ![m] = "chained"]}
      /\ tail = None => stage'[m] = "entered"
      /\ tail # None => stage'[m] = "chained"
      /\ c \in Channels
      /\ tail \in Tasks \union {None}
  BY ChannelOfAssumption DEF Admit, QueueIndInv, QueueTypeOK
<1>2. /\ prior' = [prior EXCEPT ![m] = tail]
      /\ channelTails' = [channelTails EXCEPT ![c] = m]
      /\ arrivals' = arrivals + 1
      /\ at' = [at EXCEPT ![m] = arrivals + 1]
      /\ notified' \in SUBSET Tasks
  BY DEF Admit, Book, QueueIndInv, QueueTypeOK
<1>3. \A n \in Tasks :
        n # m => stage'[n] = stage[n] /\ at'[n] = at[n] /\ prior'[n] = prior[n]
  BY <1>1, <1>2 DEF QueueIndInv, QueueTypeOK
<1>4. at'[m] = arrivals + 1 /\ prior'[m] = tail /\ m # tail
  <2>1. ~Accepted(m) /\ stage[m] # "settled"
    BY <1>1 DEF Accepted
  <2>2. m # tail
    BY <1>1, <2>1, NoneAssumption DEF QueueIndInv, TailIsLatest
  <2>3. QED
    BY <1>2, <2>2 DEF QueueIndInv, QueueTypeOK
<1>5. /\ Accepted(m)' /\ ~Accepted(m) /\ ~Settled(m) /\ ~Settled(m)'
      /\ \A n \in Tasks :
           n # m => /\ Accepted(n)' <=> Accepted(n)
                    /\ Settled(n)' <=> Settled(n)
  BY <1>1, <1>3 DEF Accepted, Settled, QueueIndInv, QueueTypeOK
<1>6. /\ DepthExact'
      /\ channelDepth' \in [Channels -> Nat]
      /\ queuedTotal' \in Nat
  <2>1. OnBooks' = OnBooks \union {m} /\ m \notin OnBooks
    BY <1>1, <1>3 DEF OnBooks, QueueIndInv, QueueTypeOK
  <2>2. QED
    BY <2>1, BooksGrow DEF Admit, Book, QueueIndInv
<1>7. GateInv' /\ GateMatchesStages'
  <2>1. CASE tail = None
    BY <1>1, <2>1, EnteringKeepsGate DEF Admit
  <2>2. CASE tail # None
    <3>1. UNCHANGED gateVars /\ stage' = [stage EXCEPT ![m] = "chained"]
      BY <2>2 DEF Admit
    <3>2. QED
      BY <1>1, <3>1
      DEF gateVars, QueueIndInv, QueueTypeOK, GateMatchesStages, Queued,
          GateInv, GateTypeOK, SlotsExact, NoIdleSlot, WaitersDistinct
  <2>3. QED
    BY <2>1, <2>2
<1>8. QueueTypeOK'
  <2>1. /\ stage' \in [Tasks -> Stage]
        /\ prior' \in [Tasks -> Tasks \union {None}]
        /\ channelTails' \in [Channels -> Tasks \union {None}]
    BY <1>1, <1>2 DEF QueueIndInv, QueueTypeOK, Stage
  <2>2. arrivals' \in Nat /\ at' \in [Tasks -> Nat]
    BY <1>2 DEF QueueIndInv, QueueTypeOK
  <2>3. QED
    BY <1>2, <1>6, <1>7, <2>1, <2>2 DEF QueueTypeOK, GateInv
<1>9. StampsInOrder'
  BY <1>2, <1>3, <1>4, <1>5 DEF QueueIndInv, QueueTypeOK, StampsInOrder
<1>10. TailIsLatest'
  <2>1. SUFFICES ASSUME NEW n \in Tasks,
                        NEW t, t = channelTails'[ChannelOf[n]]
                 PROVE  /\ t = None => stage'[n] \notin {"chained", "entered"}
                        /\ t # None =>
                             /\ ChannelOf[t] = ChannelOf[n]
                             /\ stage'[t] \in {"chained", "entered", "settled"}
                             /\ Accepted(n)' => at'[n] <= at'[t]
    BY DEF TailIsLatest
  <2>2. CASE ChannelOf[n] = c
    <3>1. t = m /\ t # None
      BY <1>1, <1>2, <2>1, <2>2, NoneAssumption DEF QueueIndInv, QueueTypeOK
    <3>2. at'[n] <= at'[m]
      BY <1>3, <1>4 DEF QueueIndInv, QueueTypeOK, StampsInOrder
    <3>3. QED
      BY <1>1, <2>2, <3>1, <3>2
  <2>3. CASE ChannelOf[n] # c
    <3>1. n # m /\ t = channelTails[ChannelOf[n]] /\ t \in Tasks \union {None}
      BY <1>1, <1>2, <2>1, <2>3, ChannelOfAssumption DEF QueueIndInv, QueueTypeOK
    <3>2. t # None => t # m
      BY <2>3, <3>1 DEF QueueIndInv, TailIsLatest
    <3>3. QED
      BY <1>3, <1>5, <3>1, <3>2 DEF QueueIndInv, TailIsLatest
  <2>4. QED
    BY <2>2, <2>3
<1>11. PriorIsPredecessor'
  <2> DEFINE Acc(s) == s \in {"chained", "entered", "settled", "done"}
  <2>1. ASSUME NEW n \in Tasks, stage'[n] = "chained"
        PROVE  /\ prior'[n] \in Tasks
               /\ Acc(stage'[prior'[n]])
               /\ ChannelOf[prior'[n]] = ChannelOf[n]
               /\ at'[prior'[n]] < at'[n]
               /\ \A k \in Tasks :
                    /\ ChannelOf[k] = ChannelOf[n]
                    /\ Accepted(k)'
                    /\ at'[k] < at'[n]
                    => at'[k] <= at'[prior'[n]]
    <3>1. CASE n = m
      <4>1. tail \in Tasks /\ tail # m /\ prior'[n] = tail
        BY <1>1, <1>4, <2>1, <3>1
      <4>2. /\ ChannelOf[tail] = c
            /\ stage[tail] \in {"chained", "entered", "settled"}
            /\ \A k \in Tasks : ChannelOf[k] = c /\ Accepted(k) => at[k] <= at[tail]
        BY <4>1, NoneAssumption DEF QueueIndInv, TailIsLatest
      <4>3. Accepted(tail) /\ at[tail] <= arrivals
        BY <4>1, <4>2 DEF Accepted, QueueIndInv, StampsInOrder
      <4>4. QED
        BY <1>3, <1>4, <1>5, <3>1, <4>1, <4>2, <4>3
        DEF QueueIndInv, QueueTypeOK, Accepted
    <3>2. CASE n # m
      <4>1. /\ stage[n] = "chained" /\ prior'[n] = prior[n] /\ at'[n] = at[n]
            /\ prior[n] \in Tasks /\ prior[n] # m
            /\ Accepted(prior[n]) /\ at'[prior[n]] = at[prior[n]]
            /\ Acc(stage'[prior[n]])
            /\ ChannelOf[prior[n]] = ChannelOf[n]
            /\ at[prior[n]] < at[n]
        BY <1>3, <1>5, <2>1, <3>2 DEF QueueIndInv, PriorIsPredecessor, Accepted
      <4>2. ASSUME NEW k \in Tasks, ChannelOf[k] = ChannelOf[n],
                   Accepted(k)', at'[k] < at'[n]
            PROVE  at'[k] <= at'[prior[n]]
        <5>1. k # m
          BY <1>4, <4>1, <4>2 DEF QueueIndInv, QueueTypeOK, StampsInOrder
        <5>2. QED
          BY <1>3, <1>5, <4>1, <4>2, <5>1 DEF QueueIndInv, PriorIsPredecessor
      <4>3. QED
        BY <4>1, <4>2
    <3>3. QED
      BY <3>1, <3>2
  <2>2. QED
    BY <2>1 DEF PriorIsPredecessor, Accepted
<1>12. ChannelFIFO'
  <2>1. SUFFICES ASSUME NEW k \in Tasks, NEW n \in Tasks,
                        ChannelOf[k] = ChannelOf[n],
                        Accepted(k)', Accepted(n)', at'[k] < at'[n],
                        stage'[n] # "chained"
                 PROVE  Settled(k)'
    BY DEF ChannelFIFO
  <2>2. k # m
    BY <1>3, <1>4, <2>1 DEF QueueIndInv, QueueTypeOK, StampsInOrder
  <2>3. CASE n = m
    <3>1. tail = None
      BY <1>1, <2>1, <2>3
    <3>2. QED
      BY <1>5, <2>1, <2>2, <2>3, <3>1
      DEF QueueIndInv, TailIsLatest, Accepted, Settled
  <2>4. CASE n # m
    BY <1>3, <1>5, <2>1, <2>2, <2>4 DEF QueueIndInv, ChannelFIFO
  <2>5. QED
    BY <2>3, <2>4
<1>13. QED
  BY <1>6, <1>7, <1>8, <1>9, <1>10, <1>11, <1>12 DEF QueueIndInv

-----------------------------------------------------------------------------

LEMMA QueueStarts == QueueInit => QueueIndInv
<1>1. SUFFICES ASSUME QueueInit
               PROVE  QueueIndInv
  OBVIOUS
<1>2. GateInv /\ Queued = {}
  <2>1. active = 0 /\ waiters = <<>> /\ holders = {} /\ Len(waiters) = 0
    BY <1>1 DEF QueueInit, GateInit
  <2>2. QED
    BY <2>1, LimitAssumption, FS_EmptySet
    DEF GateInv, GateTypeOK, SlotsExact, NoIdleSlot, WaitersDistinct, Queued
<1>3. OnBooks = {} /\ \A c \in Channels : OnBooks \intersect OfChannel(c) = {}
  BY <1>1 DEF QueueInit, OnBooks
<1>4. QueueTypeOK /\ DepthExact
  BY <1>1, <1>2, <1>3, FS_EmptySet
  DEF QueueInit, QueueTypeOK, DepthExact, GateInv, Stage
<1>5. \A m \in Tasks : ~Accepted(m) /\ stage[m] = "absent" /\ at[m] = 0
  BY <1>1 DEF QueueInit, Accepted
<1>6. \A c \in Channels : channelTails[c] = None
  BY <1>1 DEF QueueInit
<1>7. QED
  BY <1>1, <1>2, <1>4, <1>5, <1>6, ChannelOfAssumption
  DEF QueueIndInv, GateMatchesStages, StampsInOrder, TailIsLatest,
      PriorIsPredecessor, ChannelFIFO, QueueInit, GateInit

LEMMA QueueStepKeepsInv ==
  ASSUME QueueIndInv, [QueueNext]_queueVars
  PROVE  QueueIndInv'
<1>1. CASE QueueNext
  <2>1. PICK m \in Tasks :
          Reject(m) \/ Admit(m) \/ EnterGate(m) \/ EndTask(m) \/ CleanUp(m)
    BY <1>1 DEF QueueNext
  <2>2. QED
    BY <2>1, RejectKeepsInv, AdmitKeepsInv, EnterGateKeepsInv, EndTaskKeepsInv,
       CleanUpKeepsInv
<1>2. CASE UNCHANGED queueVars
  BY <1>2
  DEF queueVars, QueueIndInv, QueueTypeOK, DepthExact, GateInv, GateTypeOK,
      SlotsExact, NoIdleSlot, WaitersDistinct, GateMatchesStages, Queued,
      StampsInOrder, TailIsLatest, PriorIsPredecessor, ChannelFIFO,
      OnBooks, OfChannel, Accepted, Settled
<1>3. QED
  BY <1>1, <1>2

\* The inductive invariant holds in every reachable state.
THEOREM QueueInvariant == QueueSpec => []QueueIndInv
BY QueueStarts, QueueStepKeepsInv, PTL DEF QueueSpec

\* Strict arrival order per channel, whatever the interleaving of promise
\* reactions (turn-queue.ts:7-8).
THEOREM QueueIsFIFO == QueueSpec => []ChannelFIFO
<1>1. QueueIndInv => ChannelFIFO
  BY DEF QueueIndInv
<1>2. QED
  BY <1>1, QueueInvariant, PTL

\* The types, with counters that never go below zero.
THEOREM QueueTypes == QueueSpec => []QueueTypeOK
<1>1. QueueIndInv => QueueTypeOK
  BY DEF QueueIndInv
<1>2. QED
  BY <1>1, QueueInvariant, PTL

\* The per-channel and total counters count the turns on the books.
THEOREM QueueCountersExact == QueueSpec => []DepthExact
<1>1. QueueIndInv => DepthExact
  BY DEF QueueIndInv
<1>2. QED
  BY <1>1, QueueInvariant, PTL

\* No two turns of a channel are in the gate together.
THEOREM QueueOneTurnPerChannel == QueueSpec => []OneTurnPerChannel
<1>1. QueueIndInv => OneTurnPerChannel
  <2>1. SUFFICES ASSUME QueueIndInv,
                        NEW m \in Tasks, NEW n \in Tasks,
                        stage[m] = "entered", stage[n] = "entered",
                        ChannelOf[m] = ChannelOf[n], m # n
                 PROVE  FALSE
    BY DEF OneTurnPerChannel
  <2>2. Accepted(m) /\ Accepted(n) /\ ~Settled(m) /\ ~Settled(n)
    BY <2>1 DEF Accepted, Settled
  <2>3. at[m] < at[n] \/ at[n] < at[m]
    BY <2>1, <2>2 DEF QueueIndInv, QueueTypeOK, StampsInOrder
  <2>4. QED
    BY <2>1, <2>2, <2>3 DEF QueueIndInv, ChannelFIFO
<1>2. QED
  BY <1>1, QueueInvariant, PTL

\* The queue never forgets a rejected call nor renumbers an accepted one.
LEMMA QueueRemembers ==
  ASSUME QueueIndInv, [QueueNext]_queueVars, NEW n \in Tasks
  PROVE  /\ stage[n] = "rejected" => stage'[n] = "rejected"
         /\ stage[n] # "absent" => stage'[n] # "absent" /\ at'[n] = at[n]
<1>1. ASSUME NEW m \in Tasks,
             Reject(m) \/ Admit(m) \/ EnterGate(m) \/ EndTask(m) \/ CleanUp(m)
      PROVE  /\ stage[n] = "rejected" => stage'[n] = "rejected"
             /\ stage[n] # "absent" => stage'[n] # "absent" /\ at'[n] = at[n]
  BY <1>1
  DEF Reject, Admit, Book, EnterGate, EndTask, CleanUp, bookVars,
      QueueIndInv, QueueTypeOK
<1>2. CASE UNCHANGED queueVars
  BY <1>2 DEF queueVars
<1>3. QED
  BY <1>1, <1>2 DEF QueueNext

-----------------------------------------------------------------------------
(* The turn queue implements TurnOrder.                                    *)

\* TurnOrder's copy of Cardinality is Cardinality.
LEMMA OrderCardinality ==
  ASSUME NEW S
  PROVE  Order!Cardinality(S) = Cardinality(S)
  BY DEF Order!Cardinality, Cardinality

\* A turn that is in the gate may start, as far as TurnOrder goes.
LEMMA GateMayStart ==
  ASSUME NEW m \in Tasks, QueueIndInv,
         \/ stage[m] = "entered"
         \/ stage[m] = "chained" /\ Settled(prior[m])
  PROVE  Order!MayStart(m)
<1>1. SUFFICES ASSUME NEW n \in Unsettled, ChannelOf[n] = ChannelOf[m], n # m
               PROVE  at[n] > at[m]
  BY DEF Order!MayStart
<1>2. n \in Tasks /\ Accepted(n) /\ Accepted(m) /\ ~Settled(n) /\ at[n] # at[m]
  BY <1>1 DEF Unsettled, Accepted, Settled, QueueIndInv, StampsInOrder
<1>3. SUFFICES ASSUME at[n] < at[m]
               PROVE  FALSE
  BY <1>2 DEF QueueIndInv, QueueTypeOK
<1>4. CASE stage[m] = "entered"
  BY <1>1, <1>2, <1>3, <1>4 DEF QueueIndInv, ChannelFIFO
<1>5. CASE stage[m] = "chained" /\ Settled(prior[m])
  <2>1. /\ prior[m] \in Tasks /\ Accepted(prior[m])
        /\ ChannelOf[prior[m]] = ChannelOf[m]
        /\ at[n] <= at[prior[m]]
        /\ stage[prior[m]] # "chained"
        /\ n # prior[m]
    BY <1>1, <1>2, <1>3, <1>5 DEF QueueIndInv, PriorIsPredecessor, Settled
  <2>2. at[n] < at[prior[m]]
    BY <1>2, <2>1 DEF QueueIndInv, QueueTypeOK, StampsInOrder
  <2>3. QED
    BY <1>1, <1>2, <2>1, <2>2 DEF QueueIndInv, ChannelFIFO
<1>6. QED
  BY <1>4, <1>5

\* Every step of the turn queue is a step of TurnOrder or leaves it alone.
LEMMA QueueStepsAreOrderSteps ==
  ASSUME QueueIndInv, [QueueNext]_queueVars
  PROVE  [Order!OrderNext]_(Order!orderVars)
<1> USE DEF Order!orderVars
<1>1. ASSUME NEW m \in Tasks, Reject(m)
      PROVE  UNCHANGED <<arrivals, at, Unsettled, holders>>
  BY <1>1 DEF Reject, gateVars, bookVars, Unsettled, QueueIndInv, QueueTypeOK
<1>2. ASSUME NEW m \in Tasks, CleanUp(m)
      PROVE  UNCHANGED <<arrivals, at, Unsettled, holders>>
  BY <1>2 DEF CleanUp, gateVars, Unsettled, QueueIndInv, QueueTypeOK
<1>3. ASSUME NEW m \in Tasks, Admit(m)
      PROVE  Order!Submit(m)
  <2>1. /\ m \notin Unsettled /\ at[m] = 0
        /\ arrivals' = arrivals + 1
        /\ at' = [at EXCEPT ![m] = arrivals']
    BY <1>3
    DEF Admit, Book, Unsettled, QueueIndInv, StampsInOrder, Accepted
  <2>2. Unsettled' = Unsettled \union {m}
    BY <1>3 DEF Admit, Unsettled, QueueIndInv, QueueTypeOK
  <2>3. \/ UNCHANGED holders
        \/ /\ \A n \in Unsettled : ChannelOf[n] # ChannelOf[m]
           /\ active < Limit
           /\ holders' = holders \union {m}
    BY <1>3
    DEF Admit, Acquire, TakeSlot, Wait, CanTakeSlot, gateVars, Unsettled,
        QueueIndInv, TailIsLatest
  <2>4. active = Order!Cardinality(holders)
    BY OrderCardinality DEF QueueIndInv, GateInv, SlotsExact
  <2>5. QED
    BY <2>1, <2>2, <2>3, <2>4 DEF Order!Submit
<1>4. ASSUME NEW m \in Tasks, EnterGate(m)
      PROVE  Order!Start(m) \/ UNCHANGED <<arrivals, at, Unsettled, holders>>
  <2>1. UNCHANGED <<arrivals, at, Unsettled>> /\ m \in Unsettled \ holders
    BY <1>4
    DEF EnterGate, bookVars, Unsettled, QueueIndInv, QueueTypeOK,
        GateMatchesStages
  <2>2. Order!MayStart(m)
    BY <1>4, GateMayStart DEF EnterGate
  <2>3. active = Order!Cardinality(holders)
    BY OrderCardinality DEF QueueIndInv, GateInv, SlotsExact
  <2>4. \/ UNCHANGED holders
        \/ active < Limit /\ holders' = holders \union {m}
    BY <1>4 DEF EnterGate, Acquire, TakeSlot, Wait, CanTakeSlot
  <2>5. QED
    BY <2>1, <2>2, <2>3, <2>4 DEF Order!Start
<1>5. ASSUME NEW m \in Tasks, EndTask(m)
      PROVE  Order!Finish(m)
  <2>1. UNCHANGED <<arrivals, at>> /\ m \in holders
    BY <1>5 DEF EndTask, bookVars, Release
  <2>2. Unsettled' = Unsettled \ {m}
    BY <1>5 DEF EndTask, Unsettled, QueueIndInv, QueueTypeOK
  <2>3. CASE waiters = <<>>
    BY <1>5, <2>1, <2>2, <2>3 DEF EndTask, Release, Order!Finish
  <2>4. CASE waiters # <<>>
    <3>1. /\ holders' = (holders \ {m}) \union {waiters[1]}
          /\ waiters[1] \in Queued /\ waiters[1] \in Tasks
          /\ waiters[1] \notin holders
      BY <1>5, <2>4
      DEF EndTask, Release, QueueIndInv, GateInv, GateTypeOK, WaitersDistinct,
          Queued
    <3>2. stage[waiters[1]] = "entered"
      BY <3>1 DEF QueueIndInv, GateMatchesStages
    <3>3. Order!MayStart(waiters[1])
      BY <3>1, <3>2, GateMayStart
    <3>4. waiters[1] \in Unsettled \ holders
      BY <3>1, <3>2 DEF Unsettled
    <3>5. QED
      BY <2>1, <2>2, <3>1, <3>3, <3>4 DEF Order!Finish
  <2>5. QED
    BY <2>3, <2>4
<1>6. CASE QueueNext
  <2>1. PICK m \in Tasks :
          Reject(m) \/ Admit(m) \/ EnterGate(m) \/ EndTask(m) \/ CleanUp(m)
    BY <1>6 DEF QueueNext
  <2>2. QED
    BY <1>1, <1>2, <1>3, <1>4, <1>5, <2>1 DEF Order!OrderNext
<1>7. CASE UNCHANGED queueVars
  BY <1>7 DEF queueVars, Unsettled
<1>8. QED
  BY <1>6, <1>7

\* The chained promises, the two maps and the semaphore together implement the
\* abstract order: per channel in arrival order, one at a time, at most Limit
\* over all channels.
THEOREM QueueImplementsOrder == QueueSpec => ImplementsOrder
<1>1. QueueInit => Order!OrderInit
  BY DEF QueueInit, GateInit, Order!OrderInit, Unsettled
<1>2. QueueIndInv /\ [QueueNext]_queueVars => [Order!OrderNext]_(Order!orderVars)
  BY QueueStepsAreOrderSteps
<1>3. QED
  BY <1>1, <1>2, QueueInvariant, PTL
  DEF QueueSpec, ImplementsOrder, Order!OrderSpec
=============================================================================
