--------------------------- MODULE WorkshopContext ---------------------------
(***************************************************************************)
(* What a turn of a workshop session remembers: the channel's history,     *)
(* the summary of the turns that no longer fit in it, and "limpiar", which *)
(* forgets both.  src/capabilities/workshop/watcher.ts with history.ts,    *)
(* compact.ts and the session row of store.ts.                             *)
(*                                                                         *)
(* One session.  A message is the time it was posted at, which is also the *)
(* order of its Discord id.  Turns run one at a time, in the order of      *)
(* their messages (TurnQueue: OneTurnPerChannel, ChannelFIFO).  Compaction *)
(* runs behind the turns, and the panel's buttons interleave with both.    *)
(***************************************************************************)
EXTENDS Integers, Sequences, FiniteSets, FiniteSetsExt

CONSTANTS
  LastInstant, \* bound on the clock: messages and clears
  MaxTurns,    \* WORKSHOP_HISTORY_TURNS, the live window
  MinOlder,    \* COMPACT_MIN_OLD_TURNS
  Fetches,     \* how many messages the pages that could be fetched hold
  Transcripts  \* how many messages the compactor's transcript holds

ASSUME ContextAssumption ==
  /\ LastInstant \in Nat /\ MaxTurns \in Nat \ {0} /\ MinOlder \in Nat \ {0}
  /\ Fetches \subseteq Nat /\ Transcripts \subseteq Nat

Time == 1..LastInstant

\* The columns of workshop_sessions; 0 is NULL in the two times.  A summary is
\* the set of messages folded into it, and gap, which no column holds, the set
\* of those its compactions passed over.
Row == [active: BOOLEAN, cleared: 0..LastInstant, summary: SUBSET Time,
        covers: 0..LastInstant, gap: SUBSET Time]

NoJob == [summary |-> {}, older |-> {}, newest |-> 0, gap |-> {}]
Jobs == [summary: SUBSET Time, older: SUBSET Time, newest: 0..LastInstant,
         gap: SUBSET Time]

VARIABLES
  now,      \* the last instant at which something was posted or cleared
  row,      \* the session row
  channel,  \* the messages the Discord channel still shows
  snap,     \* the row handleMessage read for each message
  queue,    \* messages whose turn did not end yet, in order
  read,     \* what the running turn read: nothing yet, or its history
  toolClear,\* pendingClear of the running turn
  job,      \* the compaction in flight, NoJob if the set compacting is empty
  purging   \* a Limpiar press whose purge did not run yet

contextVars == <<now, row, channel, snap, queue, read, toolClear, job, purging>>

NotRead == [ready |-> FALSE, older |-> {}, others |-> {}]
Reads == [ready: BOOLEAN, older: SUBSET Time, others: SUBSET Time]

ContextTypeOK ==
  /\ now \in 0..LastInstant
  /\ row \in Row
  /\ channel \in SUBSET Time
  /\ snap \in [Time -> Row]
  /\ queue \in Seq(Time)
  /\ read \in Reads
  /\ toolClear \in BOOLEAN
  /\ job \in Jobs
  /\ purging \in BOOLEAN

FreshRow ==
  [active |-> TRUE, cleared |-> 0, summary |-> {}, covers |-> 0, gap |-> {}]

ContextInit ==
  /\ now = 0
  /\ row = FreshRow
  /\ channel = {}
  /\ snap = [m \in Time |-> FreshRow]
  /\ queue = <<>>
  /\ read = NotRead
  /\ toolClear = FALSE
  /\ job = NoJob
  /\ purging = FALSE

-----------------------------------------------------------------------------

Newest(S, n) == {m \in S : Cardinality({k \in S : k > m}) < n}

\* handleMessage: the row is read when the message arrives.
Receive ==
  /\ row.active
  /\ now < LastInstant
  /\ now' = now + 1
  /\ channel' = channel \union {now'}
  /\ snap' = [snap EXCEPT ![now'] = row]
  /\ queue' = Append(queue, now')
  /\ UNCHANGED <<row, read, toolClear, job, purging>>

Since(session) == Max({session.cleared, session.covers})

\* The live window of a history: the newest message fits its characters, an
\* older one may fit behind one that did not.
Windows(fetched) ==
  {W \in SUBSET fetched : /\ Cardinality(W) <= MaxTurns
                          /\ Newest(fetched, 1) \subseteq W}

\* buildChannelHistory, from the row read at arrival.  Pages are fetched from the
\* newest message backwards; a page that fails, or the bound on their number,
\* ends the history there.  What is neither older than the window nor in it was
\* not fetched.
ReadHistory ==
  /\ queue # <<>> /\ ~read.ready
  /\ LET m == Head(queue)
         usable == {k \in channel : Since(snap[m]) < k /\ k < m}
     IN  \E n \in Fetches : \E window \in Windows(Newest(usable, n)) :
           LET older == Newest(usable, n) \ window
           IN  read' = [ready |-> TRUE, older |-> older, others |-> usable \ older]
  /\ UNCHANGED <<now, row, channel, snap, queue, toolClear, job, purging>>

\* store.clearContext
Cleared(session, t) ==
  [session EXCEPT !.cleared = t, !.summary = {}, !.covers = 0, !.gap = {}]

\* workshop_clear_session: the row at once, the purge after the reply.
ToolClear ==
  /\ read.ready /\ ~toolClear
  /\ now < LastInstant
  /\ now' = now + 1
  /\ row' = Cleared(row, now')
  /\ toolClear' = TRUE
  /\ UNCHANGED <<channel, snap, queue, read, job, purging>>

\* The Limpiar button: the row at once, the purge after its reply.
ButtonClear ==
  /\ row.active /\ ~purging
  /\ now < LastInstant
  /\ now' = now + 1
  /\ row' = Cleared(row, now')
  /\ purging' = TRUE
  /\ UNCHANGED <<channel, snap, queue, read, toolClear, job>>

\* purgeChannel, which may fail and then deletes nothing.
ButtonPurge ==
  /\ purging
  /\ purging' = FALSE
  /\ channel' \in {{}, channel}
  /\ UNCHANGED <<now, row, snap, queue, read, toolClear, job>>

\* shouldCompact, and the set compacting.
MayCompact == Cardinality(read.older) >= MinOlder /\ job = NoJob

\* What compactConversation is given: the summary of the row read at arrival and
\* the end of the transcript of the older messages.  It passes over the rest of
\* them, and over what the history read otherwise or not at all up to the newest.
Compaction(session, told) ==
  [summary |-> session.summary, older |-> told, newest |-> Max(read.older),
   gap |-> session.gap \union {k \in (read.older \ told) \union read.others :
                                 k <= Max(read.older)}]

Leave ==
  /\ queue' = Tail(queue)
  /\ read' = NotRead
  /\ toolClear' = FALSE

\* The turn answered: a purge if its tool cleared, else possibly compaction.
EndTurn ==
  /\ read.ready
  /\ Leave
  /\ \/ /\ toolClear
        /\ channel' \in {{}, channel}
        /\ UNCHANGED job
     \/ /\ ~toolClear
        /\ \E n \in Transcripts :
             job' = IF MayCompact
                    THEN Compaction(snap[Head(queue)], Newest(read.older, n))
                    ELSE job
        /\ UNCHANGED channel
  /\ UNCHANGED <<now, row, snap, purging>>

\* The turn was superseded or failed: nothing deferred is executed.
DropTurn ==
  /\ queue # <<>>
  /\ Leave
  /\ UNCHANGED <<now, row, channel, snap, job, purging>>

\* Altered: the new summary replaces the old one instead of folding it in.
CompactedForgets ==
  /\ job # NoJob
  /\ IF row.active /\ row.cleared < job.newest /\ row.covers < job.newest
     THEN row' = [row EXCEPT !.summary = job.older, !.covers = job.newest,
                             !.gap = job.gap]
     ELSE UNCHANGED row
  /\ job' = NoJob
  /\ UNCHANGED <<now, channel, snap, queue, read, toolClear, purging>>

\* compactSession, once the model answered: the row is read again, and the
\* result is dropped if the session was closed, cleared or compacted since.
Compacted ==
  /\ job # NoJob
  /\ IF row.active /\ row.cleared < job.newest /\ row.covers < job.newest
     THEN row' = [row EXCEPT !.summary = job.summary \union job.older,
                             !.covers = job.newest, !.gap = job.gap]
     ELSE UNCHANGED row
  /\ job' = NoJob
  /\ UNCHANGED <<now, channel, snap, queue, read, toolClear, purging>>

\* compactConversation returned null.
CompactionFails ==
  /\ job # NoJob
  /\ job' = NoJob
  /\ UNCHANGED <<now, row, channel, snap, queue, read, toolClear, purging>>

CloseSession ==
  /\ row.active
  /\ row' = [row EXCEPT !.active = FALSE]
  /\ UNCHANGED <<now, channel, snap, queue, read, toolClear, job, purging>>

\* A member deletes a message by hand.
DeleteMessage ==
  \E m \in channel :
    /\ channel' = channel \ {m}
    /\ UNCHANGED <<now, row, snap, queue, read, toolClear, job, purging>>

ContextNext ==
  \/ Receive
  \/ ReadHistory
  \/ ToolClear
  \/ ButtonClear
  \/ ButtonPurge
  \/ EndTurn
  \/ DropTurn
  \/ Compacted
  \/ CompactionFails
  \/ CloseSession
  \/ DeleteMessage

ContextSpec == ContextInit /\ [][ContextNext]_contextVars

-----------------------------------------------------------------------------
(* Correctness.                                                            *)

\* A compaction that was in flight when the context was forgotten never brings
\* back what was forgotten: the stored summary holds only later messages. And
\* although turns compact from a row they read long before, the watermark passes
\* no message that the channel still shows but those folded in and those that a
\* compaction it was built from passed over itself: older than the pages that
\* could be fetched (history.ts:117), behind a longer message in its live window
\* (history.ts:148), or cut from the head of its transcript (compact.ts:56).
SummaryExact ==
  /\ \A m \in row.summary : m > row.cleared
  /\ \A m \in channel : row.cleared < m /\ m <= row.covers
                        => m \in row.summary \union row.gap

\* What runTurn's comment says of the watermark, "older turns live in
\* session.summary" (watcher.ts:480). A run shows what is left out.
OlderLiveInSummary ==
  \A m \in channel : row.cleared < m /\ m <= row.covers => m \in row.summary

=============================================================================
