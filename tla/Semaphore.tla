------------------------------ MODULE Semaphore ------------------------------
(***************************************************************************)
(* The counting semaphore of src/llm/gate.ts.  One instance bounds the     *)
(* LLM requests in flight (deepseekGate), another bounds the turns of the  *)
(* turn queue.  run(task) takes a slot at once when one is free and nobody *)
(* waits; otherwise it queues a waiter.  The finally block hands the slot  *)
(* of a finished task directly to the oldest waiter.                       *)
(***************************************************************************)
EXTENDS Naturals, Sequences, FiniteSets

CONSTANTS
  Tasks,   \* the calls of run() that may be made
  Limit    \* the constructor's limit

\* The constructor throws unless the limit is a positive integer.
ASSUME LimitAssumption == Limit \in Nat \ {0}
ASSUME TasksAssumption == IsFiniteSet(Tasks)

VARIABLES
  active,   \* slots counted as taken
  waiters,  \* tasks whose resolve callback is queued, oldest first
  holders   \* tasks between acquiring the slot and the finally block

gateVars == <<active, waiters, holders>>

Queued == {waiters[i] : i \in 1..Len(waiters)}

GateTypeOK ==
  /\ active \in 0..Limit
  /\ waiters \in Seq(Tasks)
  /\ holders \in SUBSET Tasks

GateInit ==
  /\ active = 0
  /\ waiters = <<>>
  /\ holders = {}

-----------------------------------------------------------------------------

CanTakeSlot == active < Limit /\ waiters = <<>>

\* run() called with a free slot and nobody waiting.
TakeSlot(t) ==
  /\ CanTakeSlot
  /\ active' = active + 1
  /\ holders' = holders \union {t}
  /\ UNCHANGED waiters

\* run() called otherwise: the caller awaits a promise kept in waiters.
Wait(t) ==
  /\ ~CanTakeSlot
  /\ waiters' = Append(waiters, t)
  /\ UNCHANGED <<active, holders>>

Acquire(t) == TakeSlot(t) \/ Wait(t)

\* The finally block: hand the slot to the oldest waiter, else free it.
Release(t) ==
  /\ t \in holders
  /\ \/ /\ waiters # <<>>
        /\ holders' = (holders \ {t}) \union {Head(waiters)}
        /\ waiters' = Tail(waiters)
        /\ UNCHANGED active
     \/ /\ waiters = <<>>
        /\ holders' = holders \ {t}
        /\ active' = active - 1
        /\ UNCHANGED waiters

-----------------------------------------------------------------------------
(* The semaphore by itself, as the LLM gate uses it: a task is an agent    *)
(* loop, which asks for a slot for every request it sends and then again.  *)

Request(t) == t \notin holders /\ t \notin Queued /\ Acquire(t)

GateNext == \E t \in Tasks : Request(t) \/ Release(t)

GateSpec == GateInit /\ [][GateNext]_gateVars

-----------------------------------------------------------------------------
(* Correctness.                                                            *)

\* The counter is never out of step with the tasks that hold a slot, however
\* releases, direct hand-offs and arrivals interleave (gate.ts:50-53, "active
\* is never decremented in between").
SlotsExact == active = Cardinality(holders)

\* A task waits only while every slot is taken: no wake-up is ever lost.
NoIdleSlot == waiters # <<>> => active = Limit

\* Nobody waits twice, or waits while holding a slot.
WaitersDistinct ==
  /\ \A i, j \in 1..Len(waiters) : waiters[i] = waiters[j] => i = j
  /\ \A i \in 1..Len(waiters) : waiters[i] \notin holders

GateInv ==
  /\ GateTypeOK
  /\ SlotsExact
  /\ NoIdleSlot
  /\ WaitersDistinct

\* A slot goes to the oldest waiter if there is one, so a task that arrives
\* while others wait never jumps the queue (gate.ts:52-53).
ServesOldestFirst ==
  \A t \in holders' \ holders :
    waiters # <<>> => t = Head(waiters)

NoOvertaking == [][ServesOldestFirst]_gateVars

=============================================================================
