------------------------------ MODULE TurnQueue ------------------------------
(***************************************************************************)
(* The turn queue of src/discord/turn-queue.ts, shared by the mention      *)
(* handler and the workshop sessions.  Its field gate is the semaphore it  *)
(* extends: Tasks are the calls of run(), Limit is opts.maxConcurrent.     *)
(*                                                                         *)
(* A turn of a channel awaits the promise of the turn before it (prior),   *)
(* found in channelTails, and then takes a slot of a semaphore.  Promise   *)
(* reactions are steps of their own: entering the gate once prior settled, *)
(* and the finally block that takes the settled turn off the books.  A     *)
(* call of run() may fall between any two of them.                         *)
(***************************************************************************)
EXTENDS Semaphore

CONSTANTS
  Channels,
  ChannelOf,      \* the channelId each call is made with
  MaxQueued,      \* opts.maxQueuedPerChannel
  None            \* an absent map entry, or an undefined prior

ASSUME NoneAssumption == None \notin Tasks
ASSUME ChannelOfAssumption == ChannelOf \in [Tasks -> Channels]
ASSUME MaxQueuedAssumption == MaxQueued \in Nat

VARIABLES
  stage,         \* how far each call got
  prior,         \* the tail each call captured
  channelTails,  \* this.channelTails, by the turn whose promise is the tail
  channelDepth,  \* this.channelDepth, 0 when absent
  queuedTotal,   \* this.queuedTotal
  notified,      \* calls whose onQueued hook fired
  arrivals,      \* accepted calls so far
  at             \* arrival number of each accepted call, 0 before

bookVars == <<prior, channelTails, channelDepth, queuedTotal, notified,
              arrivals, at>>
queueVars == <<active, waiters, holders, stage, prior, channelTails,
               channelDepth, queuedTotal, notified, arrivals, at>>

\* absent: not called.  chained: awaits prior.  entered: inside gate.run, that
\* is waiting for a slot or executing.  settled: its promise settled, its
\* finally block did not run yet.
Stage == {"absent", "rejected", "chained", "entered", "settled", "done"}

QueueTypeOK ==
  /\ GateTypeOK
  /\ stage \in [Tasks -> Stage]
  /\ prior \in [Tasks -> Tasks \union {None}]
  /\ channelTails \in [Channels -> Tasks \union {None}]
  /\ channelDepth \in [Channels -> Nat]
  /\ queuedTotal \in Nat
  /\ notified \in SUBSET Tasks
  /\ arrivals \in Nat
  /\ at \in [Tasks -> Nat]

QueueInit ==
  /\ GateInit
  /\ stage = [m \in Tasks |-> "absent"]
  /\ prior = [m \in Tasks |-> None]
  /\ channelTails = [c \in Channels |-> None]
  /\ channelDepth = [c \in Channels |-> 0]
  /\ queuedTotal = 0
  /\ notified = {}
  /\ arrivals = 0
  /\ at = [m \in Tasks |-> 0]

-----------------------------------------------------------------------------
(* State functions.                                                        *)

Accepted(m) == stage[m] \in {"chained", "entered", "settled", "done"}
Unsettled == {m \in Tasks : stage[m] \in {"chained", "entered"}}
OnBooks == {m \in Tasks : stage[m] \in {"chained", "entered", "settled"}}
OfChannel(c) == {m \in Tasks : ChannelOf[m] = c}
Settled(m) == stage[m] \in {"settled", "done"}

GloballyBusy == active >= Limit \/ Len(waiters) > 0

-----------------------------------------------------------------------------
(* run(channelId, task, hooks)                                             *)

BacklogFull(c) == channelDepth[c] > MaxQueued

\* The throw of QueueBusyError.
Reject(m) ==
  /\ stage[m] = "absent"
  /\ BacklogFull(ChannelOf[m])
  /\ stage' = [stage EXCEPT ![m] = "rejected"]
  /\ UNCHANGED <<gateVars, bookVars>>

\* The bookkeeping of an accepted call, up to the first await.
Book(m) ==
  LET c == ChannelOf[m]
  IN  /\ prior' = [prior EXCEPT ![m] = channelTails[c]]
      /\ channelTails' = [channelTails EXCEPT ![c] = m]
      /\ channelDepth' = [channelDepth EXCEPT ![c] = @ + 1]
      /\ queuedTotal' = queuedTotal + 1
      /\ notified' = IF channelTails[c] # None \/ GloballyBusy
                     THEN notified \union {m} ELSE notified
      /\ arrivals' = arrivals + 1
      /\ at' = [at EXCEPT ![m] = arrivals']

\* The call is accepted: it enters the gate in the same synchronous stretch
\* when the channel has no tail, and otherwise awaits the tail.
Admit(m) ==
  /\ stage[m] = "absent"
  /\ ~BacklogFull(ChannelOf[m])
  /\ Book(m)
  /\ \/ /\ channelTails[ChannelOf[m]] = None
        /\ Acquire(m)
        /\ stage' = [stage EXCEPT ![m] = "entered"]
     \/ /\ channelTails[ChannelOf[m]] # None
        /\ stage' = [stage EXCEPT ![m] = "chained"]
        /\ UNCHANGED gateVars

\* Altered: prior is not awaited.
EnterGateEarly(m) ==
  /\ stage[m] = "chained"
  /\ Acquire(m)
  /\ stage' = [stage EXCEPT ![m] = "entered"]
  /\ UNCHANGED bookVars

\* The continuation of `await prior`, whether prior succeeded or failed.
EnterGate(m) ==
  /\ stage[m] = "chained"
  /\ Settled(prior[m])
  /\ Acquire(m)
  /\ stage' = [stage EXCEPT ![m] = "entered"]
  /\ UNCHANGED bookVars

\* Altered: a task that ends keeps its slot.
EndTaskLeaksSlot(m) ==
  /\ stage[m] = "entered"
  /\ m \in holders
  /\ stage' = [stage EXCEPT ![m] = "settled"]
  /\ UNCHANGED <<gateVars, bookVars>>

\* The task of m ends, by a return or a throw, and its slot moves on.
EndTask(m) ==
  /\ stage[m] = "entered"
  /\ Release(m)
  /\ stage' = [stage EXCEPT ![m] = "settled"]
  /\ UNCHANGED bookVars

\* The finally block on the settled promise.
CleanUp(m) ==
  LET c == ChannelOf[m]
  IN  /\ stage[m] = "settled"
      /\ stage' = [stage EXCEPT ![m] = "done"]
      /\ queuedTotal' = queuedTotal - 1
      /\ channelDepth' = [channelDepth EXCEPT ![c] = @ - 1]
      /\ channelTails' = [channelTails EXCEPT ![c] = IF @ = m THEN None ELSE @]
      /\ UNCHANGED <<gateVars, prior, notified, arrivals, at>>

QueueNext ==
  \E m \in Tasks :
    \/ Reject(m)
    \/ Admit(m)
    \/ EnterGate(m)
    \/ EndTask(m)
    \/ CleanUp(m)

QueueSpec == QueueInit /\ [][QueueNext]_queueVars

-----------------------------------------------------------------------------
(* Correctness.                                                            *)

\* Two turns of one channel are never in the gate together, so never execute
\* together: the chain of tails survives the deletion of old tails.
OneTurnPerChannel ==
  \A m, n \in Tasks :
    /\ stage[m] = "entered" /\ stage[n] = "entered"
    /\ ChannelOf[m] = ChannelOf[n]
    => m = n

\* A turn that reached the gate or beyond has every earlier accepted turn of
\* its channel behind it, settled (turn-queue.ts:7-8, strict arrival order).
ChannelFIFO ==
  \A m, n \in Tasks :
    /\ ChannelOf[m] = ChannelOf[n]
    /\ Accepted(m) /\ Accepted(n)
    /\ at[m] < at[n]
    /\ stage[n] # "chained"
    => Settled(m)

\* channelTails is absent only when the channel has nothing unsettled, and
\* otherwise names the latest turn: a new call can never miss a pending one.
TailIsLatest ==
  \A m \in Tasks :
    LET tail == channelTails[ChannelOf[m]]
    IN  /\ tail = None => stage[m] \notin {"chained", "entered"}
        /\ tail # None => /\ ChannelOf[tail] = ChannelOf[m]
                          /\ stage[tail] \in {"chained", "entered", "settled"}
                          /\ Accepted(m) => at[m] <= at[tail]

\* A chained turn awaits the turn accepted just before it in its channel.
PriorIsPredecessor ==
  \A n \in Tasks :
    stage[n] = "chained" =>
      /\ prior[n] \in Tasks
      /\ Accepted(prior[n])
      /\ ChannelOf[prior[n]] = ChannelOf[n]
      /\ at[prior[n]] < at[n]
      /\ \A m \in Tasks :
           /\ ChannelOf[m] = ChannelOf[n]
           /\ Accepted(m)
           /\ at[m] < at[n]
           => at[m] <= at[prior[n]]

\* The per-channel and total counters never drift from the turns on the books.
DepthExact ==
  /\ \A c \in Channels :
       channelDepth[c] = Cardinality(OnBooks \intersect OfChannel(c))
  /\ queuedTotal = Cardinality(OnBooks)

\* The gate holds exactly the turns that entered it.
GateMatchesStages ==
  \A m \in Tasks : stage[m] = "entered" <=> m \in holders \union Queued

\* The turns are numbered in the order in which they were accepted.
StampsInOrder ==
  /\ \A m \in Tasks : at[m] <= arrivals
  /\ \A m \in Tasks : Accepted(m) <=> at[m] # 0
  /\ \A m, n \in Tasks : Accepted(m) /\ at[m] = at[n] => m = n

\* The inductive invariant: ChannelFIFO holds because the tail a call captures
\* is its predecessor, and that is so because tails are removed only when the
\* channel has nothing unsettled.
QueueIndInv ==
  /\ QueueTypeOK
  /\ DepthExact
  /\ GateInv
  /\ GateMatchesStages
  /\ StampsInOrder
  /\ TailIsLatest
  /\ PriorIsPredecessor
  /\ ChannelFIFO

\* The abstract order of turns: see TurnOrder.
Order == INSTANCE TurnOrder WITH
  Turns <- Tasks, MaxConcurrent <- Limit,
  pending <- Unsettled, executing <- holders

ImplementsOrder == Order!OrderSpec

=============================================================================
