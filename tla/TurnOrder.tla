------------------------------ MODULE TurnOrder ------------------------------
(***************************************************************************)
(* What the turn queue promises (the two guarantees in the header of       *)
(* src/discord/turn-queue.ts), without its promise chains, its maps and    *)
(* its semaphore: turns of one channel execute in arrival order, one at a  *)
(* time, and at most MaxConcurrent turns execute over all channels.        *)
(***************************************************************************)
EXTENDS Naturals, FiniteSets

CONSTANTS Turns, Channels, ChannelOf, MaxConcurrent

VARIABLES
  arrivals,   \* turns accepted so far
  at,         \* arrival number of each accepted turn, 0 before
  pending,    \* accepted turns that have not finished
  executing   \* the pending turns whose task has started

orderVars == <<arrivals, at, pending, executing>>

OrderInit ==
  /\ arrivals = 0
  /\ at = [m \in Turns |-> 0]
  /\ pending = {}
  /\ executing = {}

\* m may execute once no earlier turn of its channel is pending.
MayStart(m) ==
  \A n \in pending :
    ChannelOf[n] = ChannelOf[m] /\ n # m => at[n] > at[m]

\* A turn is accepted, behind every turn accepted before it, and starts at
\* once if it may.
Submit(m) ==
  /\ m \notin pending
  /\ at[m] = 0
  /\ arrivals' = arrivals + 1
  /\ at' = [at EXCEPT ![m] = arrivals']
  /\ pending' = pending \union {m}
  /\ \/ UNCHANGED executing
     \/ /\ \A n \in pending : ChannelOf[n] # ChannelOf[m]
        /\ Cardinality(executing) < MaxConcurrent
        /\ executing' = executing \union {m}

\* A turn that waited starts.
Start(m) ==
  /\ m \in pending \ executing
  /\ MayStart(m)
  /\ Cardinality(executing) < MaxConcurrent
  /\ executing' = executing \union {m}
  /\ UNCHANGED <<arrivals, at, pending>>

\* A turn finishes; its slot may pass at once to a turn that may start.
Finish(m) ==
  /\ m \in executing
  /\ pending' = pending \ {m}
  /\ \/ executing' = executing \ {m}
     \/ \E n \in pending \ executing :
          /\ MayStart(n)
          /\ executing' = (executing \ {m}) \union {n}
  /\ UNCHANGED <<arrivals, at>>

OrderNext == \E m \in Turns : Submit(m) \/ Start(m) \/ Finish(m)

OrderSpec == OrderInit /\ [][OrderNext]_orderVars

=============================================================================
