---------------------------- MODULE ChannelProofs -----------------------------
(***************************************************************************)
(* What a channel remembers and what a turn in it reads: the turns of the  *)
(* general capabilities, the trail of moderation and the cached transcript. *)
(***************************************************************************)
EXTENDS MentionTurns, ModerationTrail, TranscriptCache, TurnQueueProofs

-----------------------------------------------------------------------------
(* The turns that answer a mention (MentionTurns).                         *)

\* Every step of the handlers is a step of the queue or leaves it alone.
LEMMA MentionsRunTheQueue ==
  ASSUME [MentionNext]_mentionVars
  PROVE  [QueueNext]_queueVars
<1>1. ASSUME NEW m \in Tasks, ReceiveAccepted(m) \/ ReceiveBusy(m) \/ Proceed(m)
      PROVE  [QueueNext]_queueVars
  BY <1>1
  DEF ReceiveAccepted, ReceiveBusy, Proceed, ReadChannel, TaskEnds, Deliver, Deny, Discard,
      ReportError, ReportUndelivered, Report, QueueStep, QueueNext
<1>2. ASSUME NEW c \in Channels, GuardForgets(c)
      PROVE  UNCHANGED queueVars
  BY <1>2 DEF GuardForgets
<1>3. QED
  BY <1>1, <1>2 DEF MentionNext, mentionVars

\* The mention handlers keep the queue's contract too.
LEMMA MentionQueueInvariant == MentionSpec => []QueueIndInv
<1>1. MentionInit => QueueInit
  BY DEF MentionInit
<1>2. [MentionNext]_mentionVars => [QueueNext]_queueVars
  BY MentionsRunTheQueue
<1>3. QED
  BY <1>1, <1>2, QueueInvariant, PTL DEF MentionSpec, QueueSpec

\* A turn reads inside the gate, an answer once posted stays, and nobody has seen
\* what the channel does not show.
ReadsInv ==
  /\ MentionsTypeOK
  /\ ReadsInOrder
  /\ \A m \in Tasks :
       /\ step[m] = "none" => stage[m] = "absent"
       /\ step[m] \in {"none", "queued"} => outcome[m] = "none"
       /\ outcome[m] = "answered" => step[m] = "over"
       /\ HasRead(m) => stage[m] \in {"entered", "settled", "done"}
       /\ seen[m] \subseteq Posted(ChannelOf[m])

\* A message that is handled leaves what the others have read, and the channel only
\* gains answers.
LEMMA MentionSteps ==
  ASSUME QueueIndInv, ReadsInv, NEW m \in Tasks,
         ReceiveAccepted(m) \/ ReceiveBusy(m) \/ Proceed(m)
  PROVE  ReadsInv'
<1>1. /\ \A n \in Tasks \ {m} : /\ step'[n] = step[n] /\ stage'[n] = stage[n]
                                /\ outcome'[n] = outcome[n] /\ seen'[n] = seen[n]
      /\ \A n \in Tasks : stage[n] # "absent" => at'[n] = at[n]
  <2>1. \A n \in Tasks : stage[n] # "absent" => at'[n] = at[n]
    BY MentionsRunTheQueue, QueueRemembers DEF MentionNext
  <2>2. \A n \in Tasks \ {m} : step'[n] = step[n] /\ outcome'[n] = outcome[n] /\ seen'[n] = seen[n]
    BY DEF ReceiveAccepted, ReceiveBusy, Proceed, ReadChannel, TaskEnds, Deliver, Deny,
           Discard, ReportError, ReportUndelivered, Report,
           QueueStep, Settle, handlerVars, ReadsInv, MentionsTypeOK
  <2>3. \A n \in Tasks \ {m} : stage'[n] = stage[n]
    BY DEF ReceiveAccepted, ReceiveBusy, Proceed, ReadChannel, TaskEnds, Deliver, Deny,
           Discard, ReportError, ReportUndelivered, Report,
           QueueStep, Admit, Reject, EnterGate, EndTask, CleanUp,
           queueVars, QueueIndInv, QueueTypeOK
  <2>4. QED
    BY <2>1, <2>2, <2>3
<1>2. MentionsTypeOK'
  <2>1. QueueTypeOK'
    <3>1. QueueIndInv'
      <4>1. [QueueNext]_queueVars
        BY MentionsRunTheQueue DEF MentionNext
      <4>2. QED
        BY <4>1, QueueStepKeepsInv
    <3>2. QED
      BY <3>1 DEF QueueIndInv
  <2>2. step' \in [Tasks -> Step] /\ outcome' \in [Tasks -> Outcome] /\ muted' \in SUBSET Channels
    BY ChannelOfAssumption
    DEF ReceiveAccepted, ReceiveBusy, Proceed, ReadChannel, TaskEnds, Deliver, Deny,
        Discard, ReportError, ReportUndelivered, Report,
        QueueStep, Settle, handlerVars, ReadsInv, MentionsTypeOK,
        Step, Outcome
  <2>3. seen' \in [Tasks -> SUBSET Tasks] /\ windows' = windows
    BY DEF ReceiveAccepted, ReceiveBusy, Proceed, ReadChannel, TaskEnds, Deliver, Deny,
           Discard, ReportError, ReportUndelivered, Report,
           QueueStep, handlerVars, ReadsInv, MentionsTypeOK, Posted
  <2>4. QED
    BY <2>1, <2>2, <2>3 DEF MentionsTypeOK, ReadsInv
<1>3. /\ step'[m] = "none" => stage'[m] = "absent"
      /\ step'[m] \in {"none", "queued"} => outcome'[m] = "none"
      /\ outcome'[m] = "answered" => step'[m] = "over"
      /\ outcome[m] = "answered" => outcome'[m] = "answered"
      /\ HasRead(m)' => stage'[m] \in {"entered", "settled", "done"}
  <2>1. CASE ReceiveAccepted(m) \/ ReceiveBusy(m)
    BY <2>1 DEF ReceiveAccepted, ReceiveBusy, Admit, Reject, Settle, HasRead, ReadsInv,
                MentionsTypeOK, QueueTypeOK
  <2>2. CASE ReadChannel(m)
    BY <2>2 DEF ReadChannel, queueVars, HasRead, ReadsInv, MentionsTypeOK, QueueIndInv,
                GateMatchesStages
  <2>3. CASE TaskEnds(m)
    BY <2>3 DEF TaskEnds, EndTask, HasRead, ReadsInv, MentionsTypeOK, QueueTypeOK
  <2>4. CASE Deliver(m) \/ Deny(m) \/ Discard(m) \/ ReportError(m) \/ ReportUndelivered(m)
    BY <2>4 DEF Deliver, Deny, Discard, ReportError, ReportUndelivered, Report,
                Settle, queueVars, HasRead, ReadsInv,
                MentionsTypeOK
  <2>5. CASE QueueStep(m)
    BY <2>5 DEF QueueStep, EnterGate, CleanUp, handlerVars, HasRead, ReadsInv, QueueTypeOK,
                MentionsTypeOK
  <2>6. QED
    BY <2>1, <2>2, <2>3, <2>4, <2>5 DEF Proceed
<1>4. \A c \in Channels : Posted(c) \subseteq Posted(c)'
  BY <1>1, <1>3 DEF Posted
<1>5. \/ seen'[m] = seen[m]
      \/ /\ seen'[m] = Posted(ChannelOf[m]) /\ ReadChannel(m)
  BY DEF ReceiveAccepted, ReceiveBusy, Proceed, ReadChannel, TaskEnds, Deliver, Deny,
         Discard, ReportError, ReportUndelivered, Report,
         QueueStep, handlerVars, ReadsInv, MentionsTypeOK
<1>6. \A n \in Tasks : seen'[n] \subseteq Posted(ChannelOf[n])'
  BY <1>1, <1>4, <1>5, ChannelOfAssumption DEF ReadsInv
<1>7. ReadsInOrder'
  <2>1. SUFFICES ASSUME NEW k \in Tasks, NEW n \in Tasks, ChannelOf[k] = ChannelOf[n],
                        HasRead(k)', HasRead(n)', at'[k] < at'[n]
                 PROVE  seen'[k] \subseteq seen'[n]
    BY DEF ReadsInOrder, SameChannel
  <2>2. CASE ReadChannel(m)
    <3>1. /\ UNCHANGED <<at, stage>> /\ stage[m] = "entered" /\ seen'[m] = Posted(ChannelOf[m])
      BY <2>2 DEF ReadChannel, queueVars, ReadsInv, MentionsTypeOK, QueueIndInv, GateMatchesStages
    <3>2. CASE n = m
      <4>1. k # m
        <5>1. at'[m] = at[m] /\ at[m] \in Nat
          BY <3>1 DEF ReadsInv, MentionsTypeOK, QueueTypeOK
        <5>2. QED
          BY <2>1, <3>2, <5>1
      <4>2. QED
        BY <1>1, <2>1, <3>1, <3>2, <4>1 DEF ReadsInv
    <3>3. CASE k = m /\ n # m
      <4>1. stage[n] \in {"entered", "settled", "done"}
        BY <1>1, <2>1, <3>3 DEF ReadsInv, HasRead
      <4>2. Accepted(n) /\ Accepted(m) /\ stage[n] # "chained" /\ ~Settled(m)
        BY <3>1, <4>1 DEF Accepted, Settled
      <4>3. QED
        BY <2>1, <3>1, <3>3, <4>2 DEF QueueIndInv, ChannelFIFO
    <3>4. CASE k # m /\ n # m
      BY <1>1, <2>1, <3>1, <3>4 DEF ReadsInv, ReadsInOrder, SameChannel, HasRead
    <3>5. QED
      BY <3>2, <3>3, <3>4
  <2>3. CASE ~ReadChannel(m)
    <3>1. HasRead(m)' => HasRead(m)
      BY <2>3 DEF ReceiveAccepted, ReceiveBusy, Proceed, TaskEnds, Deliver, Deny,
                  Discard, ReportError, ReportUndelivered, Report,
                  QueueStep, Settle, handlerVars, queueVars,
                  Admit, Reject, EnterGate, EndTask, CleanUp,
                  HasRead, ReadsInv, MentionsTypeOK, QueueTypeOK
    <3>2. HasRead(k) /\ HasRead(n)
      BY <1>1, <2>1, <3>1 DEF HasRead
    <3>3. at'[k] = at[k] /\ at'[n] = at[n]
      BY <1>1, <3>2 DEF ReadsInv
    <3>4. seen'[k] = seen[k] /\ seen'[n] = seen[n]
      BY <1>1, <1>5, <2>3
    <3>5. QED
      BY <2>1, <3>2, <3>3, <3>4 DEF ReadsInv, ReadsInOrder, SameChannel
  <2>4. QED
    BY <2>2, <2>3
<1>8. QED
  BY <1>1, <1>2, <1>3, <1>6, <1>7 DEF ReadsInv, HasRead

LEMMA ReadsStep ==
  ASSUME QueueIndInv, ReadsInv, [MentionNext]_mentionVars
  PROVE  ReadsInv'
<1>1. ASSUME NEW c \in Channels, GuardForgets(c)
      PROVE  ReadsInv'
  <2>1. UNCHANGED <<queueVars, step, outcome, seen>>
    BY <1>1 DEF GuardForgets
  <2>2. QueueTypeOK'
    BY <2>1 DEF queueVars, QueueIndInv, QueueTypeOK, GateTypeOK
  <2>3. muted' \in SUBSET Channels /\ windows' \in [Channels -> 0..MaxWindows]
    BY <1>1, WindowsAssumption DEF GuardForgets, ReadsInv, MentionsTypeOK
  <2>4. MentionsTypeOK'
    BY <2>1, <2>2, <2>3 DEF ReadsInv, MentionsTypeOK
  <2>5. QED
    BY <2>1, <2>4 DEF queueVars, ReadsInv, ReadsInOrder, HasRead, Posted
<1>2. CASE UNCHANGED mentionVars
  <2>1. UNCHANGED <<queueVars, step, outcome, seen, muted, windows>>
    BY <1>2 DEF mentionVars, handlerVars
  <2>2. QueueTypeOK'
    BY <2>1 DEF queueVars, QueueIndInv, QueueTypeOK, GateTypeOK
  <2>3. MentionsTypeOK'
    BY <2>1, <2>2 DEF ReadsInv, MentionsTypeOK
  <2>4. QED
    BY <2>1, <2>3 DEF queueVars, ReadsInv, ReadsInOrder, HasRead, Posted
<1>3. QED
  BY <1>1, <1>2, MentionSteps DEF MentionNext

\* A later message of a channel never reads an older state of it than an earlier one,
\* for any number of messages, channels and slots.
THEOREM ReadsComeInOrder == MentionSpec => []ReadsInOrder
<1>1. MentionInit => ReadsInv
  BY WindowsAssumption, QueueStarts
  DEF MentionInit, ReadsInv, MentionsTypeOK, QueueInit, QueueIndInv, Step, Outcome, ReadsInOrder,
      HasRead, Posted
<1>2. QueueIndInv /\ ReadsInv /\ [MentionNext]_mentionVars => ReadsInv'
  BY ReadsStep
<1>3. ReadsInv => ReadsInOrder
  BY DEF ReadsInv
<1>4. QED
  BY <1>1, <1>2, <1>3, MentionQueueInvariant, PTL DEF MentionSpec

-----------------------------------------------------------------------------
(* The trail of moderation (ModerationTrail).                              *)

Outcomes == {"none", "unconfirmed", "refused", "confirmed"}
ActingStages == {"new", "offered", "checked", "reserved", "done", "over"}

TrailTypeOK ==
  /\ clock \in Nat
  /\ trail \in [Triggers -> [outcome : Outcomes, at : Nat]]
  /\ acting \in [Triggers -> ActingStages]
  /\ effects \in [Triggers -> Nat]

\* Rows are dated when they are written, and only a row has an outcome.
RowsDated ==
  \A m \in Triggers :
    /\ trail[m].at <= clock
    /\ Recorded(m) <=> trail[m].outcome # "none"

\* A turn that has reserved its row and not acted finds it as it left it; what was
\* done was recorded before.
TurnsReserved ==
  \A m \in Triggers :
    /\ acting[m] = "reserved" \/ (m \in Orders /\ acting[m] = "checked") =>
         trail[m].outcome = "unconfirmed" /\ effects[m] = 0
    /\ acting[m] = "done" => trail[m].outcome = "unconfirmed" /\ effects[m] = 1
    /\ effects[m] \in {0, 1}
    /\ effects[m] = 1 => Recorded(m)
    /\ trail[m].outcome = "confirmed" => effects[m] = 1

\* Two notes that would break a limit between each other.
Clash(m, n, apart) ==
  \/ AuthorOf[m] = AuthorOf[n] /\ apart < PersonGap
  \/ PlaceOf[m] = PlaceOf[n] /\ apart < PlaceGap
  \/ CitedOf[m] = CitedOf[n] /\ CitedOf[m] # NoOne /\ apart < PersonGap

\* The rows themselves are apart, delivered or not.
RowsSpaced ==
  \A m, n \in Reports :
    m # n /\ Recorded(m) /\ Recorded(n) /\ trail[m].at <= trail[n].at =>
      ~Clash(m, n, trail[n].at - trail[m].at)

TrailInv == TrailTypeOK /\ RowsDated /\ TurnsReserved /\ RowsSpaced

\* The invariant says at least what the run checks.
LEMMA TrailInvSuffices == TrailInv => TrailTruthful
<1>1. TrailInv => EffectsRecorded
  BY DEF TrailInv, TurnsReserved, EffectsRecorded
<1>2. TrailInv => NotesSpaced
  <2> SUFFICES ASSUME TrailInv,
                      NEW m \in Reports, NEW n \in Reports,
                      effects[m] > 0, effects[n] > 0,
                      m # n, trail[m].at <= trail[n].at
               PROVE  LET apart == trail[n].at - trail[m].at IN
                      /\ AuthorOf[m] = AuthorOf[n] => apart >= PersonGap
                      /\ PlaceOf[m] = PlaceOf[n] => apart >= PlaceGap
                      /\ CitedOf[m] = CitedOf[n] => CitedOf[m] = NoOne \/ apart >= PersonGap
    BY DEF NotesSpaced
  <2>1. m \in Triggers /\ n \in Triggers
    BY DEF Triggers
  <2>2. Recorded(m) /\ Recorded(n)
    BY <2>1 DEF TrailInv, TurnsReserved
  <2>3. ~Clash(m, n, trail[n].at - trail[m].at)
    BY <2>2 DEF TrailInv, RowsSpaced
  <2>4. trail[m].at \in Nat /\ trail[n].at \in Nat
    BY <2>1 DEF TrailInv, TrailTypeOK
  <2>5. QED
    BY <2>3, <2>4, TrailAssumption DEF Clash
<1>3. QED
  BY <1>1, <1>2 DEF TrailTruthful

LEMMA TrailStarts == TrailInit => TrailInv
<1> SUFFICES ASSUME TrailInit PROVE TrailInv
  OBVIOUS
<1>1. TrailTypeOK
  BY DEF TrailInit, TrailTypeOK, NoRow, Outcomes, ActingStages
<1>2. \A m \in Triggers : ~Recorded(m) /\ trail[m] = NoRow /\ effects[m] = 0 /\ acting[m] = "new"
  BY DEF TrailInit, Recorded
<1>3. Reports \subseteq Triggers
  BY DEF Triggers
<1>4. RowsDated /\ TurnsReserved /\ RowsSpaced
  BY <1>2, <1>3 DEF TrailInit, RowsDated, TurnsReserved, RowsSpaced, NoRow
<1>5. QED
  BY <1>1, <1>4 DEF TrailInv

\* A step that writes no row but may move a turn on, and leaves it where it owes
\* nothing to its row, or where it stood.
LEMMA TurnMoves ==
  ASSUME TrailInv, NEW m \in Triggers, NEW from, NEW to \in ActingStages,
         Moves(m, from, to), UNCHANGED <<environment, trail, effects>>,
         to \in {"new", "offered", "over"} \/ (to = "checked" /\ m \in Reports)
  PROVE  TrailInv'
<1>1. TrailTypeOK'
  BY DEF TrailInv, TrailTypeOK, Moves, environment
<1>2. RowsDated' /\ RowsSpaced'
  BY DEF TrailInv, RowsDated, RowsSpaced, Recorded, environment
<1>3. \A n \in Triggers : acting'[n] = IF n = m THEN to ELSE acting[n]
  BY DEF TrailInv, TrailTypeOK, Moves
<1>4. TurnsReserved'
  BY <1>3, TrailAssumption DEF TrailInv, TurnsReserved, Recorded
<1>5. QED
  BY <1>1, <1>2, <1>4 DEF TrailInv

\* A turn that writes the first row of its message.
LEMMA RowWritten ==
  ASSUME TrailInv, NEW m \in Triggers, NEW from, NEW to \in ActingStages,
         NEW written \in Outcomes \ {"none", "confirmed"},
         Moves(m, from, to), ~Recorded(m),
         trail' = [trail EXCEPT ![m] = Row(written)],
         UNCHANGED <<environment, effects>>,
         to = "over" \/ (to = "reserved" /\ written = "unconfirmed"),
         m \in Reports => ~Limited(m)
  PROVE  TrailInv'
<1>1. /\ \A n \in Triggers : acting'[n] = IF n = m THEN to ELSE acting[n]
      /\ \A n \in Triggers : trail'[n] = IF n = m THEN Row(written) ELSE trail[n]
      /\ clock' = clock /\ effects' = effects
  BY DEF TrailInv, TrailTypeOK, Moves, environment
<1>2. TrailTypeOK'
  BY DEF TrailInv, TrailTypeOK, Moves, environment, Row
<1>3. \A n \in Triggers : Recorded(n)' <=> n = m \/ Recorded(n)
  BY <1>1 DEF Recorded, NoRow, Row
<1>4. RowsDated'
  BY <1>1, <1>3 DEF TrailInv, TrailTypeOK, RowsDated, Row
<1>5. TurnsReserved'
  BY <1>1, <1>3 DEF TrailInv, TurnsReserved, Row
<1>6. RowsSpaced'
  <2> SUFFICES ASSUME NEW x \in Reports, NEW y \in Reports, x # y,
                      Recorded(x)', Recorded(y)', trail'[x].at <= trail'[y].at
               PROVE  ~Clash(x, y, trail'[y].at - trail'[x].at)
    BY DEF RowsSpaced, Clash
  <2>1. x \in Triggers /\ y \in Triggers
    BY DEF Triggers
  <2>2. /\ trail[x].at \in Nat /\ trail[y].at \in Nat /\ clock \in Nat
        /\ trail[x].at <= clock /\ trail[y].at <= clock
    BY <2>1 DEF TrailInv, TrailTypeOK, RowsDated
  <2>3. CASE x # m /\ y # m
    BY <1>1, <1>3, <2>1, <2>3 DEF TrailInv, RowsSpaced
  <2>4. ASSUME NEW z \in Reports, z # m, Recorded(z), m \in Reports
        PROVE  /\ AuthorOf[z] = AuthorOf[m] => trail[z].at + PersonGap <= clock
               /\ PlaceOf[z] = PlaceOf[m] => trail[z].at + PlaceGap <= clock
               /\ CitedOf[z] = CitedOf[m] /\ CitedOf[m] # NoOne =>
                    trail[z].at + PersonGap <= clock
    <3>1. z \in Triggers /\ trail[z].at \in Nat /\ clock \in Nat
      BY DEF Triggers, TrailInv, TrailTypeOK
    <3>2. ~Limited(m)
      BY <2>4
    <3>3. \A gap \in Nat : ~Within(z, gap) => trail[z].at + gap <= clock
      BY <3>1 DEF Within
    <3>4. QED
      BY <2>4, <3>2, <3>3, TrailAssumption DEF Limited, Counts
  <2>5. CASE y = m
    <3>1. x # m /\ trail'[x] = trail[x] /\ trail'[y].at = clock /\ Recorded(x)
      BY <1>1, <1>3, <2>1, <2>5 DEF Row
    <3>2. QED
      BY <2>2, <2>4, <2>5, <3>1, TrailAssumption DEF Clash
  <2>6. CASE x = m
    <3>1. y # m /\ trail'[y] = trail[y] /\ trail'[x].at = clock /\ Recorded(y)
      BY <1>1, <1>3, <2>1, <2>6 DEF Row
    <3>2. trail[y].at = clock
      BY <2>2, <3>1
    <3>3. QED
      BY <2>2, <2>4, <2>6, <3>1, <3>2, TrailAssumption DEF Clash
  <2>7. QED
    BY <2>3, <2>5, <2>6
<1>7. QED
  BY <1>2, <1>4, <1>5, <1>6 DEF TrailInv

\* A turn that reserved its row goes on to act, acts, or writes how it ended.
LEMMA ReservedTurnMoves ==
  ASSUME TrailInv, NEW m \in Triggers, NEW from, NEW to \in ActingStages,
         NEW written \in Outcomes \ {"none"}, NEW extra \in {0, 1},
         Moves(m, from, to),
         trail' = [trail EXCEPT ![m].outcome = written],
         effects' = [effects EXCEPT ![m] = @ + extra],
         UNCHANGED environment,
         \/ /\ from = "reserved" \/ (from = "checked" /\ m \in Orders)
            /\ \/ to = "checked" /\ written = "unconfirmed" /\ extra = 0
               \/ to = "over" /\ written \in {"refused", "unconfirmed"} /\ extra = 0
               \/ to = "done" /\ written = "unconfirmed" /\ extra = 1
         \/ /\ from = "done" /\ to = "over" /\ extra = 0
            /\ written \in {"confirmed", "unconfirmed"}
  PROVE  TrailInv'
<1>1. /\ \A n \in Triggers : acting'[n] = IF n = m THEN to ELSE acting[n]
      /\ \A n \in Triggers : trail'[n].at = trail[n].at
      /\ \A n \in Triggers : n # m => trail'[n] = trail[n]
      /\ \A n \in Triggers : n # m => effects'[n] = effects[n]
      /\ trail'[m].outcome = written
      /\ effects'[m] = effects[m] + extra
      /\ clock' = clock
      /\ acting[m] = from
  BY DEF TrailInv, TrailTypeOK, Moves, environment
<1>2. TrailTypeOK'
  BY DEF TrailInv, TrailTypeOK, Moves, environment
<1>3. trail[m].outcome = "unconfirmed" /\ effects[m] = (IF from = "done" THEN 1 ELSE 0)
  BY <1>1 DEF TrailInv, TurnsReserved
<1>4. \A n \in Triggers : Recorded(n)' <=> Recorded(n)
  <2>1. Recorded(m) /\ Recorded(m)'
    BY <1>1, <1>3 DEF TrailInv, RowsDated, Recorded, NoRow
  <2>2. QED
    BY <1>1, <2>1 DEF Recorded, NoRow
<1>5. RowsDated'
  BY <1>1, <1>3, <1>4 DEF TrailInv, RowsDated
<1>6. TurnsReserved'
  BY <1>1, <1>3, <1>4 DEF TrailInv, TurnsReserved, RowsDated
<1>7. RowsSpaced'
  BY <1>1, <1>4 DEF TrailInv, RowsSpaced, Triggers, Clash
<1>8. QED
  BY <1>2, <1>5, <1>6, <1>7 DEF TrailInv

LEMMA TrailStep == TrailInv /\ [TrailNext]_trailVars => TrailInv'
<1> SUFFICES ASSUME TrailInv, [TrailNext]_trailVars PROVE TrailInv'
  OBVIOUS
<1>1. CASE TimePasses
  <2>1. /\ clock \in Nat /\ clock' = clock + 1
        /\ trail' = trail /\ acting' = acting /\ effects' = effects
    BY <1>1 DEF TimePasses, TrailInv, TrailTypeOK
  <2>2. TrailTypeOK' /\ TurnsReserved' /\ RowsSpaced'
    BY <2>1 DEF TrailInv, TrailTypeOK, TurnsReserved, RowsSpaced, Recorded
  <2>3. RowsDated'
    BY <2>1 DEF TrailInv, TrailTypeOK, RowsDated, Recorded
  <2>4. QED
    BY <2>2, <2>3 DEF TrailInv
<1>2. CASE TrailRestart
  <2>1. /\ clock' = clock /\ trail' = trail /\ effects' = effects
        /\ acting' \in [Triggers -> {"new", "over"}]
    BY <1>2 DEF TrailRestart
  <2>2. TrailTypeOK' /\ RowsDated' /\ RowsSpaced'
    BY <2>1 DEF TrailInv, TrailTypeOK, RowsDated, RowsSpaced, Recorded, ActingStages
  <2>3. TurnsReserved'
    BY <2>1 DEF TrailInv, TurnsReserved, Recorded
  <2>4. QED
    BY <2>2, <2>3 DEF TrailInv
<1>3. ASSUME NEW m \in Triggers,
             \/ DeliveredAgain(m) \/ Offer(m) \/ TurnWithout(m) \/ ReportChecked(m)
             \/ NoteFails(m) \/ OrderFails(m)
      PROVE  TrailInv'
  <2>1. PICK from \in ActingStages, to \in ActingStages :
          /\ Moves(m, from, to)
          /\ to \in {"new", "offered", "over"} \/ (to = "checked" /\ m \in Reports)
    BY <1>3 DEF DeliveredAgain, Offer, TurnWithout, ReportChecked, NoteFails, OrderFails,
                ActingStages
  <2>2. clock' = clock /\ trail' = trail /\ effects' = effects
    BY <1>3 DEF DeliveredAgain, Offer, TurnWithout, ReportChecked, NoteFails, OrderFails,
                environment
  <2>3. TrailTypeOK' /\ RowsDated' /\ RowsSpaced'
    BY <2>1, <2>2 DEF TrailInv, TrailTypeOK, Moves, RowsDated, RowsSpaced, Recorded
  <2>4. \A n \in Triggers : acting'[n] = IF n = m THEN to ELSE acting[n]
    BY <2>1 DEF TrailInv, TrailTypeOK, Moves
  <2>5. TurnsReserved'
    BY <2>1, <2>2, <2>4, TrailAssumption DEF TrailInv, TurnsReserved, Recorded
  <2>6. QED
    BY <2>3, <2>5 DEF TrailInv
<1>4. ASSUME NEW m \in Triggers, RefuseOrder(m)
      PROVE  TrailInv'
  <2>1. CASE Recorded(m)
    BY <1>4, <2>1, TurnMoves DEF RefuseOrder, ActingStages
  <2>2. CASE ~Recorded(m)
    BY <1>4, <2>2, RowWritten, TrailAssumption DEF RefuseOrder, ActingStages, Outcomes
  <2>3. QED
    BY <2>1, <2>2
<1>5. ASSUME NEW m \in Triggers, ReserveReport(m)
      PROVE  TrailInv'
  <2>1. CASE Limited(m) \/ Recorded(m)
    BY <1>5, <2>1, TurnMoves DEF ReserveReport, ActingStages
  <2>2. CASE ~(Limited(m) \/ Recorded(m))
    BY <1>5, <2>2, RowWritten DEF ReserveReport, ActingStages, Outcomes
  <2>3. QED
    BY <2>1, <2>2
<1>6. ASSUME NEW m \in Triggers, ReserveOrder(m)
      PROVE  TrailInv'
  <2>1. CASE Recorded(m)
    BY <1>6, <2>1, TurnMoves DEF ReserveOrder, ActingStages
  <2>2. CASE ~Recorded(m)
    BY <1>6, <2>2, RowWritten, TrailAssumption DEF ReserveOrder, ActingStages, Outcomes
  <2>3. QED
    BY <2>1, <2>2
<1>7. ASSUME NEW m \in Triggers, NotePosted(m) \/ OrderApplied(m)
      PROVE  TrailInv'
  <2>1. PICK from \in {"reserved", "checked"} :
          /\ from = "reserved" \/ (from = "checked" /\ m \in Orders)
          /\ Moves(m, from, "done") /\ UNCHANGED <<environment, trail>>
          /\ effects' = [effects EXCEPT ![m] = @ + 1]
    BY <1>7 DEF NotePosted, OrderApplied, Effect
  <2>2. trail[m].outcome = "unconfirmed"
    BY <2>1 DEF TrailInv, TurnsReserved, Moves
  <2>3. trail' = [trail EXCEPT ![m].outcome = "unconfirmed"]
    BY <2>1, <2>2 DEF TrailInv, TrailTypeOK
  <2>4. "done" \in ActingStages /\ "unconfirmed" \in Outcomes \ {"none"}
    BY DEF ActingStages, Outcomes
  <2>5. QED
    BY <2>1, <2>3, <2>4, ReservedTurnMoves
<1>8. ASSUME NEW m \in Triggers, NoteAnswered(m) \/ OrderAnswered(m)
      PROVE  TrailInv'
  <2>1. PICK written \in {"confirmed", "unconfirmed"} :
          trail' = [trail EXCEPT ![m].outcome = written]
    <3>1. trail[m].outcome = "unconfirmed"
      BY <1>8 DEF NoteAnswered, OrderAnswered, TrailInv, TurnsReserved, Moves
    <3>2. trail = [trail EXCEPT ![m].outcome = "unconfirmed"]
      BY <3>1 DEF TrailInv, TrailTypeOK
    <3>3. QED
      BY <1>8, <3>2 DEF NoteAnswered, OrderAnswered, Finish
  <2>2. Moves(m, "done", "over") /\ UNCHANGED <<environment, effects>>
    BY <1>8 DEF NoteAnswered, OrderAnswered
  <2>3. effects' = [effects EXCEPT ![m] = @ + 0]
    BY <2>2 DEF TrailInv, TrailTypeOK
  <2>4. "over" \in ActingStages /\ written \in Outcomes \ {"none"}
    BY DEF ActingStages, Outcomes
  <2>5. QED
    BY <2>1, <2>2, <2>3, <2>4, ReservedTurnMoves
<1>9. ASSUME NEW m \in Triggers, OrderChecked(m)
      PROVE  TrailInv'
  <2>1. PICK to \in {"checked", "over"}, written \in {"unconfirmed", "refused"} :
          /\ Moves(m, "reserved", to)
          /\ trail' = [trail EXCEPT ![m].outcome = written]
          /\ to = "checked" => written = "unconfirmed"
    <3>1. trail[m].outcome = "unconfirmed"
      BY <1>9 DEF OrderChecked, TrailInv, TurnsReserved, Moves
    <3>2. trail = [trail EXCEPT ![m].outcome = "unconfirmed"]
      BY <3>1 DEF TrailInv, TrailTypeOK
    <3>3. QED
      BY <1>9, <3>2 DEF OrderChecked, Finish
  <2>2. effects' = [effects EXCEPT ![m] = @ + 0] /\ UNCHANGED environment
    BY <1>9 DEF OrderChecked, TrailInv, TrailTypeOK
  <2>3. to \in ActingStages /\ written \in Outcomes \ {"none"}
    BY DEF ActingStages, Outcomes
  <2>4. QED
    BY <2>1, <2>2, <2>3, ReservedTurnMoves
<1>10. CASE UNCHANGED trailVars
  BY <1>10 DEF trailVars, environment, TrailInv, TrailTypeOK, RowsDated, TurnsReserved,
               RowsSpaced, Recorded
<1>11. QED
  BY <1>1, <1>2, <1>3, <1>4, <1>5, <1>6, <1>7, <1>8, <1>9, <1>10 DEF TrailNext

\* What the invariant relates is inductive for any messages, limits and gaps.
THEOREM TrailInvariant == TrailSpec => []TrailInv
BY TrailStarts, TrailStep, PTL DEF TrailSpec

\* Whatever the bot did to a message is in the trail, and its notes keep their
\* distances, for any messages, limits, gaps and crashes (moderation of a turn).
THEOREM TrailIsTruthful == TrailSpec => []TrailTruthful
BY TrailInvariant, TrailInvSuffices, PTL

-----------------------------------------------------------------------------
(* The cached transcript (TranscriptCache).                                *)

Versions == 0..MaxVersions
EventRecords ==
  [kind : {"full", "partial", "delete", "ready"}, message : 0..MaxPosts, version : Versions]

EntryStates ==
  [exists : BOOLEAN, text : [Posts -> Versions], loaded : BOOLEAN, loading : BOOLEAN,
   changes : SUBSET Posts]
FetchStates == [step : {"none", "asked", "served"}, version : Versions]

\* The cursor and the count of the pages are of no account here.
IsReader(r) ==
  r \in [step : {"idle", "access", "page", "batch", "recheck"}, before : {r.before},
         own : BOOLEAN, low : {r.low}, pages : {r.pages}, page : [Posts -> Versions]]

CacheTypeOK ==
  /\ posted \in 0..MaxPosts
  /\ content \in [Posts -> Versions]
  /\ gateway \in Seq(EventRecords)
  /\ online \in BOOLEAN
  /\ told \in [Posts -> 0..Deleted]
  /\ entry \in EntryStates
  /\ partial \in [Posts -> FetchStates]
  /\ IsReader(reader)

\* How far the life of a message has come, and how far an event says it has.
Now(m) == IF content[m] # Gone THEN content[m] ELSE IF m <= posted THEN Deleted ELSE Gone
Says(e) == IF e.kind = "delete" THEN Deleted ELSE e.version

\* An event about the message is on its way; 0: the one of a new session.
Awaits(m) == \E i \in 1..Len(gateway) : gateway[i].message = m

\* Events come in the order of what they say, never behind what was told, never
\* ahead of what happened, and online the last one says how things are.
EventsInOrder ==
  /\ \A m \in Posts : told[m] <= Now(m) /\ (content[m] # Gone => m <= posted)
  /\ \A i \in 1..Len(gateway) :
       /\ gateway[i].kind = "ready" <=> gateway[i].message = 0
       /\ gateway[i].kind \in {"full", "partial"} => gateway[i].version # Gone
       /\ \A m \in Posts : gateway[i].message = m =>
            told[m] <= Says(gateway[i]) /\ Says(gateway[i]) <= Now(m)
       /\ \A j \in 1..Len(gateway) :
            i < j /\ gateway[j].message = gateway[i].message =>
              Says(gateway[i]) <= Says(gateway[j])
  /\ online => \A m \in Posts : Awaits(m) =>
       \E i \in 1..Len(gateway) : gateway[i].message = m /\ Says(gateway[i]) = Now(m)

\* A version that may still be written into the entry: not older than what was told,
\* and while there is a session, current unless an event on its way will correct it.
Sound(m, v) ==
  v # Gone =>
    /\ told[m] <= v
    /\ online => v = content[m] \/ Awaits(m) \/ Awaits(0)

Loading == reader.own /\ reader.step \in {"page", "batch"}
Served == Loading /\ reader.step = "batch"

\* The load writes into the entry it began with, which remembers what changed since.
LoadHasEntry ==
  /\ Loading => entry.exists /\ entry.loading
  /\ ~entry.exists => \A m \in Posts : entry.text[m] = Gone

AnswersSound ==
  \A m \in Posts :
    /\ Sound(m, entry.text[m])
    /\ partial[m].step = "served" => partial[m].version # Gone /\ Sound(m, partial[m].version)
    /\ Served /\ m \notin entry.changes => Sound(m, reader.page[m])

CacheInv == CacheTypeOK /\ EventsInOrder /\ LoadHasEntry /\ AnswersSound

-----------------------------------------------------------------------------
(* The helpers.                                                            *)

LEMMA Constants ==
  /\ MaxPosts \in Nat \ {0} /\ MaxVersions \in Nat \ {0}
  /\ 0 \notin Posts /\ Posts \subseteq Nat /\ Gone = 0 /\ Deleted = MaxVersions + 1
  /\ Gone \in Versions /\ 1 \in Versions /\ Deleted \notin Versions
BY CacheAssumption DEF Posts, Gone, Deleted, Versions

\* Trimming only forgets messages, and changes once no load runs.
LEMMA TrimForgets ==
  ASSUME NEW e \in EntryStates
  PROVE  /\ Trim(e) \in EntryStates
         /\ Trim(e).exists = e.exists /\ Trim(e).loading = e.loading
         /\ Trim(e).loaded = e.loaded
         /\ \A m \in Posts : Trim(e).text[m] \in {e.text[m], Gone}
         /\ e.loading => Trim(e).changes = e.changes
<1> DEFINE trimmed == [m \in Posts |->
             IF Cardinality({n \in Holds(e.text) : n >= m}) <= Kept THEN e.text[m] ELSE Gone]
           kept == IF e.loading THEN e.changes ELSE {}
<1>1. Trim(e) = [e EXCEPT !.text = trimmed, !.changes = kept]
  BY Zenon DEF Trim
<1>2. trimmed \in [Posts -> Versions] /\ \A m \in Posts : trimmed[m] \in {e.text[m], Gone}
  BY Constants DEF EntryStates
<1>3. kept \in SUBSET Posts
  BY DEF EntryStates
<1> HIDE DEF trimmed, kept
<1>4. /\ Trim(e) \in EntryStates /\ Trim(e).text = trimmed /\ Trim(e).changes = kept
      /\ Trim(e).exists = e.exists /\ Trim(e).loading = e.loading
      /\ Trim(e).loaded = e.loaded
  BY <1>1, <1>2, <1>3 DEF EntryStates
<1>5. QED
  BY <1>2, <1>4 DEF kept

LEMMA OpenedIsEntry ==
  ASSUME CacheInv
  PROVE  /\ Opened \in EntryStates /\ Opened.exists
         /\ \A m \in Posts : Opened.text[m] = entry.text[m]
         /\ entry.exists => Opened = entry
BY Constants DEF CacheInv, CacheTypeOK, LoadHasEntry, Opened, NewEntry, NoEntry, EntryStates

LEMMA CacheStarts == CacheInit => CacheInv
<1> SUFFICES ASSUME CacheInit PROVE CacheInv
  OBVIOUS
<1> USE Constants
<1>1. CacheTypeOK
  BY DEF CacheInit, CacheTypeOK, NoEntry, Idle, Nothing, EntryStates, FetchStates, IsReader
<1>2. EventsInOrder /\ LoadHasEntry /\ AnswersSound
  BY DEF CacheInit, EventsInOrder, LoadHasEntry, AnswersSound, Loading, Served, NoEntry, Idle,
         Nothing, Sound, Awaits, Now
<1>3. QED
  BY <1>1, <1>2 DEF CacheInv

-----------------------------------------------------------------------------
(* Discord.                                                                *)

\* Something happens to a message: it comes to stand further on, and if there is a
\* session an event that says so is on its way.
LEMMA MessageChanges ==
  ASSUME CacheInv, NEW m \in Posts, NEW kind \in {"full", "partial", "delete"},
         NEW version \in Versions,
         content' = [content EXCEPT ![m] = version],
         posted' \in 0..MaxPosts, posted <= posted',
         Announced(kind, m),
         IF kind = "delete" THEN version = Gone /\ content[m] # Gone
                            ELSE version > content[m],
         m <= posted',
         content[m] = Gone => posted < m,
         \A n \in Posts : n # m => (n <= posted' <=> n <= posted),
         UNCHANGED <<online, told, entry, partial, reader>>
  PROVE  CacheInv'
<1> USE Constants
<1> DEFINE e == [kind |-> kind, message |-> m, version |-> version]
<1>1. /\ \A n \in Posts : content'[n] = IF n = m THEN version ELSE content[n]
      /\ content' \in [Posts -> Versions]
      /\ \A n \in Posts : content[n] \in Versions /\ told[n] \in 0..Deleted
      /\ posted \in 0..MaxPosts
  BY DEF CacheInv, CacheTypeOK
<1>2. e \in EventRecords /\ Says(e) = Now(m)'
  <2>1. e \in EventRecords
    BY DEF EventRecords, Posts
  <2>2. content'[m] = version /\ version \in 0..MaxVersions /\ content[m] \in 0..MaxVersions
    BY <1>1 DEF Versions
  <2>3. CASE kind = "delete"
    BY <2>1, <2>2, <2>3 DEF Says, Now
  <2>4. CASE kind # "delete"
    BY <2>1, <2>2, <2>4 DEF Says, Now
  <2>5. QED
    BY <2>1, <2>3, <2>4
<1>3. \A n \in Posts : /\ Now(n) \in 0..Deleted /\ Now(n)' \in 0..Deleted
                       /\ Now(n) <= Now(n)'
                       /\ n # m => Now(n)' = Now(n)
  <2>1. \A n \in Posts : n # m => Now(n)' = Now(n)
    BY <1>1 DEF Now
  <2>2. Now(m) <= Now(m)'
    BY <1>1 DEF Now, Versions
  <2>3. \A n \in Posts : Now(n) \in 0..Deleted /\ Now(n)' \in 0..Deleted
    BY <1>1 DEF Now, Versions
  <2>4. QED
    BY <2>1, <2>2, <2>3
<1>4. /\ gateway \in Seq(EventRecords)
      /\ gateway' = IF online THEN Append(gateway, e) ELSE gateway
  BY <1>1 DEF Announced, Event, CacheInv, CacheTypeOK
<1> HIDE DEF e
<1>5. /\ gateway' \in Seq(EventRecords)
      /\ \A i \in 1..Len(gateway) : i \in 1..Len(gateway') /\ gateway'[i] = gateway[i]
      /\ online => Len(gateway') = Len(gateway) + 1 /\ gateway'[Len(gateway')] = e
      /\ ~online => gateway' = gateway
      /\ Len(gateway) \in Nat
  BY <1>2, <1>4
<1>6. \A i \in 1..Len(gateway') : i \in 1..Len(gateway) \/ (online /\ i = Len(gateway) + 1)
  BY <1>5
<1>7. CacheTypeOK'
  BY <1>1, <1>5 DEF CacheInv, CacheTypeOK
<1>8. EventsInOrder'
  <2>1. \A n \in Posts : told'[n] <= Now(n)' /\ (content'[n] # Gone => n <= posted')
    BY <1>1, <1>3 DEF CacheInv, EventsInOrder
  <2>2. e.message = m /\ e.kind = kind /\ (kind # "delete" => e.version # Gone) /\ e.kind # "ready"
    BY <1>1 DEF e, Versions
  <2>3. ASSUME NEW i \in 1..Len(gateway')
        PROVE  /\ gateway'[i].kind = "ready" <=> gateway'[i].message = 0
               /\ gateway'[i].kind \in {"full", "partial"} => gateway'[i].version # Gone
               /\ \A n \in Posts : gateway'[i].message = n =>
                    told'[n] <= Says(gateway'[i]) /\ Says(gateway'[i]) <= Now(n)'
               /\ \A j \in 1..Len(gateway') :
                    i < j /\ gateway'[j].message = gateway'[i].message =>
                      Says(gateway'[i]) <= Says(gateway'[j])
    <3>1. CASE i \in 1..Len(gateway)
      <4>1. gateway[i] \in EventRecords /\ gateway'[i] = gateway[i]
        BY <1>4, <1>5, <3>1
      <4>2. /\ gateway[i].kind = "ready" <=> gateway[i].message = 0
            /\ gateway[i].kind \in {"full", "partial"} => gateway[i].version # Gone
            /\ \A n \in Posts : gateway[i].message = n =>
                 told[n] <= Says(gateway[i]) /\ Says(gateway[i]) <= Now(n)
        BY <3>1 DEF CacheInv, EventsInOrder
      <4>3. Says(gateway[i]) \in 0..Deleted
        BY <4>1 DEF Says, EventRecords, Versions
      <4>4. \A n \in Posts : gateway[i].message = n => Says(gateway[i]) <= Now(n)'
        BY <1>3, <4>2, <4>3
      <4>5. ASSUME NEW j \in 1..Len(gateway'), i < j,
                   gateway'[j].message = gateway[i].message
            PROVE  Says(gateway[i]) <= Says(gateway'[j])
        <5>1. CASE j \in 1..Len(gateway)
          BY <1>5, <3>1, <4>5, <5>1 DEF CacheInv, EventsInOrder
        <5>2. CASE online /\ j = Len(gateway) + 1
          BY <1>2, <1>5, <2>2, <4>4, <4>5, <5>2
        <5>3. QED
          BY <1>6, <5>1, <5>2
      <4>6. told' = told
        OBVIOUS
      <4>7. QED
        BY <4>1, <4>2, <4>4, <4>5, <4>6
    <3>2. CASE online /\ i = Len(gateway) + 1
      <4>1. gateway'[i] = e /\ \A j \in 1..Len(gateway') : ~(i < j)
        BY <1>5, <3>2
      <4>2. told'[m] <= Now(m)'
        BY <2>1
      <4>3. QED
        BY <1>2, <1>3, <2>2, <4>1, <4>2
    <3>3. QED
      BY <1>6, <3>1, <3>2
  <2>4. ASSUME online, NEW n \in Posts, Awaits(n)'
        PROVE  \E i \in 1..Len(gateway') : gateway'[i].message = n /\ Says(gateway'[i]) = Now(n)'
    <3>1. CASE n = m
      BY <1>2, <1>5, <2>2, <2>4, <3>1
    <3>2. CASE n # m
      <4>1. Awaits(n)
        BY <1>5, <1>6, <2>2, <2>4, <3>2 DEF Awaits
      <4>2. PICK i \in 1..Len(gateway) : gateway[i].message = n /\ Says(gateway[i]) = Now(n)
        BY <2>4, <4>1 DEF CacheInv, EventsInOrder
      <4>3. QED
        BY <1>3, <1>5, <3>2, <4>2
    <3>3. QED
      BY <3>1, <3>2
  <2>5. QED
    BY <2>1, <2>3, <2>4 DEF EventsInOrder
<1>9. \A n \in Posts, v \in Versions : Sound(n, v) => Sound(n, v)'
  <2>1. \A n \in Posts \cup {0} : Awaits(n) => Awaits(n)'
    BY <1>5 DEF Awaits
  <2>2. online => Awaits(m)'
    BY <1>5, <1>4 DEF Awaits, e
  <2>3. QED
    BY <1>1, <2>1, <2>2 DEF Sound
<1>10. LoadHasEntry' /\ AnswersSound'
  <2>1. \A n \in Posts : /\ entry.text[n] \in Versions /\ partial[n].version \in Versions
                         /\ reader.page[n] \in Versions
    BY DEF CacheInv, CacheTypeOK, EntryStates, FetchStates, IsReader
  <2>2. QED
    BY <1>9, <2>1 DEF CacheInv, LoadHasEntry, AnswersSound, Loading, Served
<1>11. QED
  BY <1>7, <1>8, <1>10 DEF CacheInv

LEMMA MemberSteps ==
  ASSUME CacheInv, MemberPosts \/ \E m \in Posts : MemberEdits(m) \/ MemberDeletes(m)
  PROVE  CacheInv'
<1> USE Constants
<1>1. CASE MemberPosts
  <2>1. PICK m \in Posts : m = posted + 1
    BY <1>1 DEF MemberPosts, Posts, CacheInv, CacheTypeOK
  <2>2. /\ posted \in Nat /\ posted' = m
        /\ content' = [content EXCEPT ![m] = 1]
        /\ Announced("full", m)
        /\ UNCHANGED <<online, told, entry, partial, reader>>
    BY <1>1, <2>1 DEF MemberPosts, CacheInv, CacheTypeOK
  <2>3. content[m] = Gone
    BY <2>1, <2>2 DEF CacheInv, EventsInOrder
  <2>4. /\ \A n \in Posts : n # m => (n <= posted' <=> n <= posted)
        /\ posted' \in 0..MaxPosts /\ posted <= posted' /\ posted < m
        /\ 1 > content[m] /\ m <= posted' /\ "full" # "delete"
    BY <2>1, <2>2, <2>3 DEF Posts
  <2>5. QED
    BY <2>2, <2>3, <2>4, MessageChanges
<1>2. ASSUME NEW m \in Posts, MemberEdits(m) \/ MemberDeletes(m)
      PROVE  CacheInv'
  <2>1. /\ content[m] \in Versions /\ content[m] # Gone /\ posted \in 0..MaxPosts
        /\ posted' = posted
        /\ UNCHANGED <<online, told, entry, partial, reader>>
    BY <1>2 DEF MemberEdits, MemberDeletes, CacheInv, CacheTypeOK
  <2>2. /\ m <= posted' /\ posted' \in 0..MaxPosts /\ posted <= posted'
        /\ \A n \in Posts : n # m => (n <= posted' <=> n <= posted)
    <3>1. m <= posted
      BY <2>1 DEF CacheInv, EventsInOrder
    <3>2. posted <= posted
      BY <2>1
    <3>3. QED
      BY <2>1, <3>1, <3>2
  <2>3. PICK kind \in {"full", "partial", "delete"}, version \in Versions :
          /\ content' = [content EXCEPT ![m] = version]
          /\ Announced(kind, m)
          /\ IF kind = "delete" THEN version = Gone ELSE version > content[m]
    <3>1. CASE MemberEdits(m)
      <4>1. content[m] + 1 \in Versions /\ content[m] + 1 > content[m]
        BY <3>1 DEF MemberEdits, Versions
      <4>2. PICK kind \in {"full", "partial"} : Announced(kind, m)
        BY <3>1 DEF MemberEdits
      <4>3. content' = [content EXCEPT ![m] = content[m] + 1]
        BY <3>1 DEF MemberEdits
      <4>4. QED
        BY <4>1, <4>2, <4>3
    <3>2. CASE MemberDeletes(m)
      BY <3>2 DEF MemberDeletes
    <3>3. QED
      BY <1>2, <3>1, <3>2
  <2>4. IF kind = "delete" THEN version = Gone /\ content[m] # Gone
                           ELSE version > content[m]
    BY <2>1, <2>3
  <2>5. QED
    BY <2>1, <2>2, <2>3, <2>4, MessageChanges
<1>3. QED
  BY <1>1, <1>2

LEMMA SessionSteps ==
  ASSUME CacheInv, SessionLost \/ SessionStarts
  PROVE  CacheInv'
<1> USE Constants
<1>1. UNCHANGED <<posted, content, told, entry, partial, reader>>
  BY DEF SessionLost, SessionStarts
<1>2. \A m \in Posts : Now(m)' = Now(m)
  BY <1>1 DEF Now
<1>3. CASE SessionLost
  <2>1. online' = FALSE /\ gateway' = <<>>
    BY <1>3 DEF SessionLost
  <2>2. CacheTypeOK' /\ LoadHasEntry'
    <3>1. gateway' \in Seq(EventRecords) /\ online' \in BOOLEAN
      <4>1. <<>> \in Seq(EventRecords)
        OBVIOUS
      <4>2. QED
        BY <2>1, <4>1
    <3>2. CacheTypeOK'
      BY <1>1, <3>1 DEF CacheInv, CacheTypeOK
    <3>3. LoadHasEntry'
      BY <1>1 DEF CacheInv, LoadHasEntry, Loading
    <3>4. QED
      BY <3>2, <3>3
  <2>5. EventsInOrder'
    BY <1>1, <1>2, <2>1 DEF CacheInv, EventsInOrder
  <2>3. AnswersSound'
    BY <1>1, <2>1 DEF CacheInv, AnswersSound, Sound, Loading, Served
  <2>4. QED
    BY <2>2, <2>3, <2>5 DEF CacheInv
<1>4. CASE SessionStarts
  <2> DEFINE e == [kind |-> "ready", message |-> 0, version |-> Gone]
  <2>1. online' = TRUE /\ gateway' = <<e>>
    BY <1>4 DEF SessionStarts
  <2>2. e \in EventRecords /\ e.kind = "ready" /\ e.message = 0
    BY DEF EventRecords
  <2> HIDE DEF e
  <2>3. CacheTypeOK'
    BY <1>1, <2>1, <2>2 DEF CacheInv, CacheTypeOK
  <2>4. Awaits(0)' /\ \A m \in Posts : ~Awaits(m)'
    BY <2>1, <2>2 DEF Awaits
  <2>5. EventsInOrder'
    BY <1>1, <1>2, <2>1, <2>2, <2>4 DEF CacheInv, EventsInOrder
  <2>6. LoadHasEntry' /\ AnswersSound'
    BY <1>1, <2>4 DEF CacheInv, LoadHasEntry, AnswersSound, Sound, Loading, Served
  <2>7. QED
    BY <2>3, <2>5, <2>6 DEF CacheInv
<1>5. QED
  BY <1>3, <1>4

-----------------------------------------------------------------------------
(* The handlers of the events.                                             *)

\* What is left on its way after the head of the queue.
LEMMA HeadGoes ==
  ASSUME CacheInv, gateway # <<>>
  PROVE  /\ Head(gateway) \in EventRecords /\ Head(gateway) = gateway[1]
         /\ 1 \in 1..Len(gateway)
         /\ Tail(gateway) \in Seq(EventRecords)
         /\ \A i \in 1..Len(Tail(gateway)) :
              i + 1 \in 1..Len(gateway) /\ Tail(gateway)[i] = gateway[i + 1]
         /\ \A i \in 1..Len(gateway) : i # 1 =>
              i - 1 \in 1..Len(Tail(gateway)) /\ Tail(gateway)[i - 1] = gateway[i]
BY DEF CacheInv, CacheTypeOK

LEMMA EventKeepsOrder ==
  ASSUME CacheInv, EventArrives
  PROVE  /\ EventsInOrder'
         /\ gateway' \in Seq(EventRecords) /\ told' \in [Posts -> 0..Deleted]
<1> USE Constants
<1> DEFINE e == Head(gateway)
<1>1. /\ gateway # <<>> /\ gateway' = Tail(gateway)
      /\ told' = IF e.kind = "ready" THEN told ELSE [told EXCEPT ![e.message] = Says(e)]
      /\ UNCHANGED <<posted, content, online>>
  BY DEF EventArrives, Says
<1>2. /\ e \in EventRecords /\ e = gateway[1] /\ 1 \in 1..Len(gateway)
      /\ gateway' \in Seq(EventRecords)
      /\ \A i \in 1..Len(gateway') : i + 1 \in 1..Len(gateway) /\ gateway'[i] = gateway[i + 1]
      /\ \A i \in 1..Len(gateway) : i # 1 =>
           i - 1 \in 1..Len(gateway') /\ gateway'[i - 1] = gateway[i]
  BY <1>1, HeadGoes
<1> HIDE DEF e
<1>3. e.kind = "ready" <=> e.message = 0
  BY <1>2 DEF CacheInv, EventsInOrder
<1>4. Says(e) \in 0..Deleted /\ (e.message # 0 => e.message \in Posts)
  BY <1>2 DEF Says, EventRecords, Versions, Posts
<1>5. /\ told' \in [Posts -> 0..Deleted]
      /\ \A m \in Posts : told'[m] = IF m = e.message THEN Says(e) ELSE told[m]
  BY <1>1, <1>3, <1>4 DEF CacheInv, CacheTypeOK
<1>6. \A m \in Posts : Now(m)' = Now(m) /\ Now(m) \in 0..Deleted
  BY <1>1 DEF Now, CacheInv, CacheTypeOK, Versions
<1>7. \A m \in Posts : e.message = m => Says(e) <= Now(m)
  BY <1>2 DEF CacheInv, EventsInOrder
<1>8. \A m \in Posts : told'[m] <= Now(m)' /\ (content'[m] # Gone => m <= posted')
  BY <1>1, <1>5, <1>6, <1>7 DEF CacheInv, EventsInOrder
<1>9. ASSUME NEW i \in 1..Len(gateway')
      PROVE  /\ gateway'[i].kind = "ready" <=> gateway'[i].message = 0
             /\ gateway'[i].kind \in {"full", "partial"} => gateway'[i].version # Gone
             /\ \A m \in Posts : gateway'[i].message = m =>
                  told'[m] <= Says(gateway'[i]) /\ Says(gateway'[i]) <= Now(m)'
             /\ \A j \in 1..Len(gateway') :
                  i < j /\ gateway'[j].message = gateway'[i].message =>
                    Says(gateway'[i]) <= Says(gateway'[j])
  <2>1. PICK k \in 1..Len(gateway) : k = i + 1 /\ gateway'[i] = gateway[k] /\ 1 < k
    BY <1>2
  <2>2. /\ gateway[k].kind = "ready" <=> gateway[k].message = 0
        /\ gateway[k].kind \in {"full", "partial"} => gateway[k].version # Gone
        /\ \A m \in Posts : gateway[k].message = m =>
             told[m] <= Says(gateway[k]) /\ Says(gateway[k]) <= Now(m)
    BY DEF CacheInv, EventsInOrder
  <2>3. \A m \in Posts : gateway[k].message = m /\ e.message = m => Says(e) <= Says(gateway[k])
    BY <1>2, <2>1 DEF CacheInv, EventsInOrder
  <2>4. ASSUME NEW j \in 1..Len(gateway'), i < j, gateway'[j].message = gateway[k].message
        PROVE  Says(gateway[k]) <= Says(gateway'[j])
    <3>1. PICK l \in 1..Len(gateway) : l = j + 1 /\ gateway'[j] = gateway[l] /\ k < l
      BY <1>2, <2>1, <2>4
    <3>2. QED
      BY <2>4, <3>1 DEF CacheInv, EventsInOrder
  <2>5. QED
    BY <1>5, <1>6, <2>1, <2>2, <2>3, <2>4
<1>10. ASSUME online, NEW m \in Posts, Awaits(m)'
       PROVE  \E i \in 1..Len(gateway') : gateway'[i].message = m /\ Says(gateway'[i]) = Now(m)'
  <2>1. PICK i \in 1..Len(gateway') : gateway'[i].message = m
    BY <1>10 DEF Awaits
  <2>2. PICK k \in 1..Len(gateway) : k = i + 1 /\ gateway'[i] = gateway[k] /\ 1 < k
    BY <1>2
  <2>3. Awaits(m)
    BY <2>1, <2>2 DEF Awaits
  <2>4. PICK l \in 1..Len(gateway) : gateway[l].message = m /\ Says(gateway[l]) = Now(m)
    BY <1>10, <2>3 DEF CacheInv, EventsInOrder
  <2>5. CASE l # 1
    BY <1>2, <1>6, <2>4, <2>5
  <2>6. CASE l = 1
    <3>1. Says(gateway[1]) <= Says(gateway[k])
      BY <1>2, <2>1, <2>2, <2>4, <2>6 DEF CacheInv, EventsInOrder
    <3>2. Says(gateway[k]) <= Now(m)
      BY <2>1, <2>2 DEF CacheInv, EventsInOrder
    <3>3. Says(gateway[k]) \in 0..Deleted
      <4>1. gateway[k] \in EventRecords
        BY DEF CacheInv, CacheTypeOK
      <4>2. QED
        BY <4>1 DEF Says, EventRecords, Versions
    <3>4. Says(gateway[k]) = Now(m)
      BY <1>6, <2>4, <2>6, <3>1, <3>2, <3>3
    <3>5. QED
      BY <1>6, <2>1, <2>2, <3>4
  <2>7. QED
    BY <2>5, <2>6
<1>11. EventsInOrder'
  BY <1>1, <1>8, <1>9, <1>10 DEF EventsInOrder
<1>12. QED
  BY <1>2, <1>5, <1>11

\* After the handler of an event, what was sound of the other messages still is, and
\* the text that the event brought is.
LEMMA EventKeepsSound ==
  ASSUME CacheInv, EventArrives, Head(gateway).kind # "ready"
  PROVE  /\ Head(gateway).message \in Posts
         /\ \A m \in Posts \ {Head(gateway).message}, v \in Versions :
              Sound(m, v) => Sound(m, v)'
         /\ \A m \in Posts, v \in Versions :
              Head(gateway).kind = "full" /\ m = Head(gateway).message
                /\ v = Head(gateway).version => Sound(m, v)'
<1> USE Constants
<1> DEFINE e == Head(gateway)
<1>1. /\ gateway # <<>> /\ gateway' = Tail(gateway)
      /\ told' = [told EXCEPT ![e.message] = Says(e)]
      /\ UNCHANGED <<posted, content, online>>
  BY DEF EventArrives, Says
<1>2. /\ e \in EventRecords /\ e = gateway[1] /\ 1 \in 1..Len(gateway)
      /\ \A i \in 1..Len(gateway) : i # 1 =>
           i - 1 \in 1..Len(gateway') /\ gateway'[i - 1] = gateway[i]
  BY <1>1, HeadGoes
<1>3. e.kind # "ready"
  OBVIOUS
<1> HIDE DEF e
<1>4. e.message \in Posts /\ e.version \in Versions
  BY <1>2, <1>3 DEF CacheInv, EventsInOrder, EventRecords, Posts
<1>5. \A m \in Posts : told'[m] = IF m = e.message THEN Says(e) ELSE told[m]
  BY <1>1, <1>4 DEF CacheInv, CacheTypeOK
<1>6. \A m \in Posts \cup {0} : m # e.message /\ Awaits(m) => Awaits(m)'
  BY <1>2 DEF Awaits
<1>7. \A m \in Posts \ {e.message}, v \in Versions : Sound(m, v) => Sound(m, v)'
  <2>1. e.message # 0
    BY <1>4
  <2>2. QED
    BY <1>1, <1>5, <1>6, <2>1 DEF Sound
<1>8. ASSUME NEW m \in Posts, NEW v \in Versions,
             e.kind = "full", m = e.message, v = e.version
      PROVE  Sound(m, v)'
  <2>1. Says(e) = v /\ v # Gone
    BY <1>2, <1>8 DEF Says, CacheInv, EventsInOrder
  <2>2. told'[m] = v /\ v <= v
    <3>1. told'[m] = Says(e)
      BY <1>5, <1>8
    <3>2. v \in Nat
      BY DEF Versions
    <3>3. QED
      BY <2>1, <3>1, <3>2
  <2>3. ASSUME online, ~Awaits(m)'
        PROVE  content[m] = v
    <3>1. Awaits(m)
      BY <1>2, <1>8 DEF Awaits
    <3>2. PICK l \in 1..Len(gateway) : gateway[l].message = m /\ Says(gateway[l]) = Now(m)
      BY <2>3, <3>1 DEF CacheInv, EventsInOrder
    <3>3. l = 1
      BY <1>2, <2>3, <3>2 DEF Awaits
    <3>4. Now(m) = v
      BY <1>2, <2>1, <3>2, <3>3
    <3>5. QED
      BY <2>1, <3>4 DEF Now
  <2>4. QED
    BY <1>1, <2>2, <2>3 DEF Sound
<1>9. QED
  BY <1>4, <1>7, <1>8 DEF e

\* What an entry becomes when a message of it is written or removed.
Rewrite(e, m, v) == Trim([e EXCEPT !.text[m] = v, !.changes = @ \cup {m}])

LEMMA Rewritten ==
  ASSUME NEW e \in EntryStates, NEW m \in Posts, NEW v \in Versions
  PROVE  /\ Rewrite(e, m, v) \in EntryStates
         /\ Rewrite(e, m, v).exists = e.exists /\ Rewrite(e, m, v).loading = e.loading
         /\ \A n \in Posts : Rewrite(e, m, v).text[n] \in {Gone, IF n = m THEN v ELSE e.text[n]}
         /\ e.loading => Rewrite(e, m, v).changes = e.changes \cup {m}
<1> DEFINE g == [e EXCEPT !.text[m] = v, !.changes = @ \cup {m}]
<1>1. /\ g \in EntryStates /\ g.exists = e.exists /\ g.loading = e.loading
      /\ g.changes = e.changes \cup {m}
      /\ \A n \in Posts : g.text[n] = IF n = m THEN v ELSE e.text[n]
  BY DEF EntryStates
<1>2. Rewrite(e, m, v) = Trim(g)
  BY DEF Rewrite
<1> HIDE DEF g
<1>3. QED
  BY <1>1, <1>2, TrimForgets

\* The event of one message, when the entry holds of it what the event brought and
\* its fetch is dropped.
LEMMA MessageEvent ==
  ASSUME CacheInv, EventArrives, NEW m \in Posts, NEW v \in Versions,
         Head(gateway).message = m, Head(gateway).kind # "ready",
         Sound(m, v)',
         \/ /\ ~entry.exists /\ entry' = entry
         \/ /\ entry'.exists /\ entry' \in EntryStates
            /\ entry.exists => entry'.loading = entry.loading
            /\ \A n \in Posts : entry'.text[n] \in {Gone, IF n = m THEN v ELSE entry.text[n]}
            /\ entry.exists /\ entry.loading => entry'.changes = entry.changes \cup {m},
         NEW fetch \in FetchStates, fetch.step # "served",
         partial' = [partial EXCEPT ![m] = fetch],
         UNCHANGED reader
  PROVE  CacheInv'
<1> USE Constants
<1>1. EventsInOrder' /\ gateway' \in Seq(EventRecords) /\ told' \in [Posts -> 0..Deleted]
  BY EventKeepsOrder
<1>2. \A n \in Posts \ {m}, w \in Versions : Sound(n, w) => Sound(n, w)'
  BY EventKeepsSound
<1>3. UNCHANGED <<posted, content, online>>
  BY DEF EventArrives
<1>4. entry' \in EntryStates
  BY DEF CacheInv, CacheTypeOK
<1>5. /\ partial' \in [Posts -> FetchStates]
      /\ \A n \in Posts : partial'[n] = IF n = m THEN fetch ELSE partial[n]
  BY DEF CacheInv, CacheTypeOK
<1>6. CacheTypeOK'
  BY <1>1, <1>3, <1>4, <1>5 DEF CacheInv, CacheTypeOK
<1>7. LoadHasEntry'
  BY DEF CacheInv, LoadHasEntry, Loading
<1>8. \A n \in Posts : /\ entry.text[n] \in Versions /\ partial[n].version \in Versions
                       /\ reader.page[n] \in Versions /\ n \in Posts
  BY DEF CacheInv, CacheTypeOK, EntryStates, FetchStates, IsReader
<1>9. ASSUME NEW n \in Posts
      PROVE  Sound(n, entry.text[n])' /\ entry'.text[n] \in Versions
  <2>1. entry'.text[n] \in {Gone, IF n = m THEN v ELSE entry.text[n]}
    BY DEF CacheInv, LoadHasEntry
  <2>2. PICK w \in Versions : w = entry.text[n]
    BY <1>8
  <2>3. n # m => Sound(n, w)'
    BY <1>2, <2>2 DEF CacheInv, AnswersSound
  <2>4. Sound(n, Gone)'
    BY DEF Sound
  <2>5. PICK x \in Versions : x = entry'.text[n]
    BY <1>4 DEF EntryStates
  <2>6. Sound(n, x)'
    BY <2>1, <2>2, <2>3, <2>4, <2>5
  <2>7. QED
    BY <2>5, <2>6 DEF Sound
<1>10. ASSUME NEW n \in Posts, partial'[n].step = "served"
       PROVE  partial'[n].version # Gone /\ Sound(n, partial[n].version)'
  <2>1. n # m /\ partial'[n] = partial[n]
    BY <1>5, <1>10
  <2>2. PICK w \in Versions : w = partial[n].version
    BY <1>8
  <2>3. w # Gone /\ Sound(n, w)
    BY <1>10, <2>1, <2>2 DEF CacheInv, AnswersSound
  <2>4. Sound(n, w)'
    BY <1>2, <2>1, <2>3
  <2>5. QED
    BY <2>1, <2>2, <2>3, <2>4 DEF Sound
<1>11. ASSUME NEW n \in Posts, Served', n \notin entry'.changes
       PROVE  Sound(n, reader.page[n])'
  <2>1. Served /\ entry.exists /\ entry.loading
    BY <1>11 DEF Served, Loading, CacheInv, LoadHasEntry
  <2>2. n # m /\ n \notin entry.changes
    BY <1>11, <2>1
  <2>3. PICK w \in Versions : w = reader.page[n]
    BY <1>8
  <2>4. Sound(n, w)
    BY <2>1, <2>2, <2>3 DEF CacheInv, AnswersSound
  <2>5. Sound(n, w)'
    BY <1>2, <2>2, <2>4
  <2>6. QED
    BY <2>3, <2>5 DEF Sound
<1>12. AnswersSound'
  BY <1>9, <1>10, <1>11 DEF AnswersSound
<1>13. QED
  BY <1>1, <1>6, <1>7, <1>12 DEF CacheInv

LEMMA EventStep ==
  ASSUME CacheInv, EventArrives
  PROVE  CacheInv'
<1> USE Constants
<1> DEFINE e == Head(gateway)
<1>1. gateway # <<>>
  BY DEF EventArrives
<1>2. e \in EventRecords /\ (e.kind = "ready" <=> e.message = 0)
  BY <1>1, HeadGoes DEF CacheInv, EventsInOrder
<1>3. CASE e.kind = "ready"
  <2>1. /\ entry' = NoEntry /\ partial' = [m \in Posts |-> Nothing]
        /\ reader' = Orphaned
        /\ UNCHANGED <<posted, content, online>>
    BY <1>3 DEF EventArrives, Clear
  <2>2. EventsInOrder' /\ gateway' \in Seq(EventRecords) /\ told' \in [Posts -> 0..Deleted]
    BY EventKeepsOrder
  <2>3. entry' \in EntryStates /\ partial' \in [Posts -> FetchStates]
    BY <2>1 DEF NoEntry, Nothing, EntryStates, FetchStates
  <2>4. /\ reader'.own = FALSE
        /\ IsReader(reader')
    BY <2>1 DEF Orphaned, CacheInv, CacheTypeOK, IsReader
  <2>5. CacheTypeOK'
    BY <2>1, <2>2, <2>3, <2>4 DEF CacheInv, CacheTypeOK
  <2>6. LoadHasEntry' /\ AnswersSound'
    BY <2>1, <2>4 DEF LoadHasEntry, AnswersSound, Sound, Loading, Served, NoEntry, Nothing
  <2>7. QED
    BY <2>2, <2>5, <2>6 DEF CacheInv
<1>4. CASE e.kind # "ready"
  <2>1. PICK m \in Posts : m = e.message
    BY <1>4, EventKeepsSound
  <2>2. Nothing \in FetchStates /\ Nothing.step # "served"
    BY DEF Nothing, FetchStates
  <2>3. Sound(m, Gone)'
    BY DEF Sound
  <2>4. CASE e.kind = "full"
    <3>1. PICK v \in Versions : v = e.version
      BY <1>2 DEF EventRecords
    <3>2. Sound(m, v)'
      BY <2>1, <2>4, <3>1, EventKeepsSound
    <3>3. /\ entry' = Rewrite(Opened, m, v)
          /\ partial' = [partial EXCEPT ![m] = Nothing] /\ reader' = reader
      BY <2>1, <2>4, <3>1 DEF EventArrives, Update, Rewrite
    <3>4. /\ entry' \in EntryStates /\ entry'.exists /\ entry'.loading = Opened.loading
          /\ \A n \in Posts : entry'.text[n] \in {Gone, IF n = m THEN v ELSE Opened.text[n]}
          /\ Opened.loading => entry'.changes = Opened.changes \cup {m}
      <4>1. PICK o \in EntryStates : o = Opened /\ o.exists
        BY OpenedIsEntry
      <4>2. entry' = Rewrite(o, m, v)
        BY <3>3, <4>1
      <4>3. entry' \in EntryStates /\ entry'.exists = o.exists /\ entry'.loading = o.loading
        <5>1. /\ Rewrite(o, m, v) \in EntryStates
              /\ Rewrite(o, m, v).exists = o.exists /\ Rewrite(o, m, v).loading = o.loading
          BY Rewritten
        <5>2. QED
          BY <4>2, <5>1
      <4>4. \A n \in Posts : entry'.text[n] \in {Gone, IF n = m THEN v ELSE o.text[n]}
        <5>1. \A n \in Posts : Rewrite(o, m, v).text[n] \in {Gone, IF n = m THEN v ELSE o.text[n]}
          BY Rewritten
        <5>2. QED
          BY <4>2, <5>1
      <4>5. o.loading => entry'.changes = o.changes \cup {m}
        <5>1. o.loading => Rewrite(o, m, v).changes = o.changes \cup {m}
          BY Rewritten
        <5>2. QED
          BY <4>2, <5>1
      <4>6. QED
        BY <4>1, <4>3, <4>4, <4>5
    <3>5. QED
      BY <1>4, <2>1, <2>2, <3>2, <3>3, <3>4, OpenedIsEntry, MessageEvent
  <2>5. CASE e.kind # "full"
    <3>1. PICK fetch \in FetchStates :
            /\ fetch.step # "served" /\ partial' = [partial EXCEPT ![m] = fetch]
            /\ entry' = Removed(m) /\ reader' = reader
      <4>1. [step |-> "asked", version |-> Gone] \in FetchStates
        BY DEF FetchStates
      <4>2. QED
        BY <1>4, <2>1, <2>2, <2>5, <4>1 DEF EventArrives, RefreshPartial
    <3>2. \/ ~entry.exists /\ entry' = entry
          \/ /\ entry'.exists /\ entry' \in EntryStates
             /\ entry'.loading = entry.loading
             /\ \A n \in Posts : entry'.text[n] \in {Gone, IF n = m THEN Gone ELSE entry.text[n]}
             /\ entry.loading => entry'.changes = entry.changes \cup {m}
      <4>1. entry \in EntryStates
        BY DEF CacheInv, CacheTypeOK
      <4>2. CASE entry.exists
        <5>1. entry' = Rewrite(entry, m, Gone)
          BY <3>1, <4>2 DEF Removed, Rewrite
        <5>2. QED
          BY <4>1, <4>2, <5>1, Rewritten
      <4>3. CASE ~entry.exists
        BY <3>1, <4>3 DEF Removed
      <4>4. QED
        BY <4>2, <4>3
    <3>3. QED
      BY <1>4, <2>1, <2>3, <3>1, <3>2, MessageEvent
  <2>6. QED
    BY <2>4, <2>5
<1>5. QED
  BY <1>3, <1>4

-----------------------------------------------------------------------------
(* The cache by itself: Discord and what it told are left alone.           *)

\* A step of the cache is right when what it leaves in the entry, among the fetches
\* and in the page of a load is sound.
LEMMA CacheMoves ==
  ASSUME CacheInv, UNCHANGED <<posted, content, gateway, online, told>>,
         entry' \in EntryStates, partial' \in [Posts -> FetchStates],
         IsReader(reader'),
         LoadHasEntry',
         \A n \in Posts :
           /\ Sound(n, entry'.text[n])
           /\ partial'[n].step = "served" =>
                partial'[n].version # Gone /\ Sound(n, partial'[n].version)
           /\ Served' /\ n \notin entry'.changes => Sound(n, reader'.page[n])
  PROVE  CacheInv'
<1>1. CacheTypeOK' /\ EventsInOrder'
  BY DEF CacheInv, CacheTypeOK, EventsInOrder, Awaits, Now
<1>2. AnswersSound'
  BY DEF AnswersSound, Sound, Awaits
<1>3. QED
  BY <1>1, <1>2 DEF CacheInv

LEMMA FetchSteps ==
  ASSUME CacheInv, NEW m \in Posts, PartialServed(m) \/ PartialArrives(m)
  PROVE  CacheInv'
<1> USE Constants
<1>1. CASE PartialServed(m)
  <2>1. PICK fetch \in FetchStates :
          /\ partial' = [partial EXCEPT ![m] = fetch]
          /\ fetch.step = "served" => fetch.version = content[m] /\ content[m] # Gone
    <3>1. Nothing \in FetchStates /\ Nothing.step # "served"
      BY DEF Nothing, FetchStates
    <3>2. [step |-> "served", version |-> content[m]] \in FetchStates
      BY DEF FetchStates, CacheInv, CacheTypeOK
    <3>3. QED
      BY <1>1, <3>1, <3>2 DEF PartialServed
  <2>2. UNCHANGED <<posted, content, gateway, online, told, entry, reader>>
    BY <1>1 DEF PartialServed, discord
  <2>3. content[m] # Gone => Sound(m, content[m])
    BY DEF Sound, Now, CacheInv, EventsInOrder
  <2>4. /\ partial' \in [Posts -> FetchStates]
        /\ \A n \in Posts : partial'[n] = IF n = m THEN fetch ELSE partial[n]
    BY <2>1 DEF CacheInv, CacheTypeOK
  <2>5. QED
    BY <2>1, <2>2, <2>3, <2>4, CacheMoves
    DEF CacheInv, CacheTypeOK, AnswersSound, LoadHasEntry, Loading, Served
<1>2. CASE PartialArrives(m)
  <2>1. PICK v \in Versions : v = partial[m].version
    BY DEF CacheInv, CacheTypeOK, FetchStates
  <2>2. Sound(m, v)
    BY <1>2, <2>1 DEF PartialArrives, CacheInv, AnswersSound
  <2>3. /\ entry' = Rewrite(Opened, m, v)
        /\ partial' = [partial EXCEPT ![m] = Nothing]
        /\ UNCHANGED <<posted, content, gateway, online, told, reader>>
    BY <1>2, <2>1 DEF PartialArrives, Update, Rewrite, discord
  <2>4. /\ entry' \in EntryStates /\ entry'.exists /\ entry'.loading = Opened.loading
        /\ \A n \in Posts : entry'.text[n] \in {Gone, IF n = m THEN v ELSE Opened.text[n]}
        /\ Opened.loading => entry'.changes = Opened.changes \cup {m}
    <3>1. PICK o \in EntryStates : o = Opened /\ o.exists
      BY OpenedIsEntry
    <3>2. entry' = Rewrite(o, m, v)
      BY <2>3, <3>1
    <3>3. entry' \in EntryStates /\ entry'.exists = o.exists /\ entry'.loading = o.loading
      BY <3>2, Rewritten
    <3>4. \A n \in Posts : entry'.text[n] \in {Gone, IF n = m THEN v ELSE o.text[n]}
      BY <3>2, Rewritten
    <3>5. o.loading => entry'.changes = o.changes \cup {m}
      BY <3>2, Rewritten
    <3>6. QED
      BY <3>1, <3>3, <3>4, <3>5
  <2>5. \A n \in Posts : Sound(n, entry'.text[n])
    <3>1. \A n \in Posts : Sound(n, entry.text[n]) /\ Sound(n, Gone)
      BY DEF CacheInv, AnswersSound, Sound
    <3>2. QED
      BY <2>2, <2>4, <3>1, OpenedIsEntry
  <2>6. /\ partial' \in [Posts -> FetchStates]
        /\ \A n \in Posts : n # m => partial'[n] = partial[n]
        /\ partial'[m].step # "served"
    BY <2>3 DEF CacheInv, CacheTypeOK, Nothing, FetchStates
  <2>7. Loading => Opened = entry /\ entry.loading
    BY OpenedIsEntry DEF CacheInv, LoadHasEntry
  <2>8. LoadHasEntry'
    BY <2>3, <2>4, <2>7 DEF LoadHasEntry, Loading
  <2>9. QED
    BY <2>3, <2>4, <2>5, <2>6, <2>7, <2>8, CacheMoves
    DEF CacheInv, CacheTypeOK, AnswersSound, Loading, Served
<1>3. QED
  BY <1>1, <1>2

\* The turn leaves its read, or begins it: no load runs.
LEMMA ReaderLeaves ==
  ASSUME CacheInv,
         \/ Evict \/ Invalidated \/ ReadReturns \/ ReadFails \/ \E m \in Posts : ReadStarts(m)
  PROVE  CacheInv'
<1> USE Constants
<1>1. entry \in EntryStates
  BY DEF CacheInv, CacheTypeOK
<1>2. UNCHANGED <<posted, content, gateway, online, told, partial>>
  BY DEF Evict, Invalidated, ReadReturns, ReadFails, ReadStarts, discord
<1>3. IsReader(reader') /\ reader'.own = FALSE
  <2>1. CASE Evict
    BY <2>1 DEF Evict, Orphaned, IsReader, CacheInv, CacheTypeOK
  <2>2. CASE Invalidated \/ ReadReturns \/ ReadFails
    <3>1. reader' = Idle
      BY <2>2 DEF Invalidated, ReadReturns, ReadFails
    <3>2. QED
      BY <3>1 DEF Idle, IsReader
  <2>3. CASE \E m \in Posts : ReadStarts(m)
    <3>1. PICK m \in Posts : ReadStarts(m)
      BY <2>3
    <3>2. QED
      BY <3>1 DEF ReadStarts, Idle, IsReader
  <2>4. QED
    BY <2>1, <2>2, <2>3
<1>4. entry' \in {entry, NoEntry, Trim([entry EXCEPT !.loading = FALSE])}
  BY DEF Evict, Invalidated, ReadReturns, ReadFails, ReadStarts
<1>5. /\ entry' \in EntryStates
      /\ \A n \in Posts : entry'.text[n] \in {entry.text[n], Gone}
  <2>1. CASE entry' = entry
    BY <1>1, <2>1
  <2>2. CASE entry' = NoEntry
    BY <2>2 DEF NoEntry, EntryStates
  <2>3. CASE entry' = Trim([entry EXCEPT !.loading = FALSE])
    <3> DEFINE g == [entry EXCEPT !.loading = FALSE]
    <3>1. g \in EntryStates /\ g.text = entry.text
      BY <1>1 DEF EntryStates
    <3> HIDE DEF g
    <3>2. entry' = Trim(g)
      BY <2>3 DEF g
    <3>3. QED
      BY <3>1, <3>2, TrimForgets
  <2>4. QED
    BY <1>4, <2>1, <2>2, <2>3
<1>6. ~entry'.exists => \A n \in Posts : entry'.text[n] = Gone
  <2>1. CASE entry' \in {entry, NoEntry}
    BY <2>1 DEF NoEntry, CacheInv, LoadHasEntry
  <2>2. CASE entry' = Trim([entry EXCEPT !.loading = FALSE])
    <3> DEFINE g == [entry EXCEPT !.loading = FALSE]
    <3>1. g \in EntryStates /\ g.exists = entry.exists
      BY <1>1 DEF EntryStates
    <3> HIDE DEF g
    <3>2. entry'.exists = entry.exists
      BY <2>2, <3>1, TrimForgets DEF g
    <3>3. QED
      BY <1>5, <3>2 DEF CacheInv, LoadHasEntry
  <2>3. QED
    BY <1>4, <2>1, <2>2
<1>7. ~Loading' /\ ~Served'
  BY <1>3 DEF Loading, Served
<1>8. LoadHasEntry'
  BY <1>6, <1>7 DEF LoadHasEntry
<1>9. \A n \in Posts : Sound(n, entry.text[n]) /\ Sound(n, Gone)
  BY DEF CacheInv, AnswersSound, Sound
<1>10. \A n \in Posts : Sound(n, entry'.text[n])
  BY <1>5, <1>9
<1>11. QED
  BY <1>2, <1>3, <1>5, <1>7, <1>8, <1>10, CacheMoves DEF CacheInv, CacheTypeOK, AnswersSound

LEMMA AccessStep ==
  ASSUME CacheInv, Accessed
  PROVE  CacheInv'
<1> USE Constants
<1>1. UNCHANGED <<posted, content, gateway, online, told, partial>>
  BY DEF Accessed, discord
<1>2. IsReader(reader') /\ reader'.step \in {"recheck", "page"}
  BY DEF Accessed, IsReader, CacheInv, CacheTypeOK
<1>3. PICK o \in EntryStates :
        o = Opened /\ o.exists /\ \A n \in Posts : o.text[n] = entry.text[n]
  BY OpenedIsEntry
<1>4. \/ entry' = o /\ reader'.step = "recheck"
      \/ entry' = [o EXCEPT !.loading = TRUE]
  BY <1>2, <1>3 DEF Accessed, IsReader, CacheInv, CacheTypeOK
<1>5. /\ entry' \in EntryStates /\ entry'.exists /\ entry'.text = o.text
      /\ reader'.step = "page" => entry'.loading
  BY <1>2, <1>3, <1>4 DEF EntryStates
<1>6. LoadHasEntry'
  BY <1>2, <1>5 DEF LoadHasEntry, Loading
<1>7. \A n \in Posts : Sound(n, entry'.text[n])
  <2>1. \A n \in Posts : Sound(n, entry.text[n])
    BY DEF CacheInv, AnswersSound
  <2>2. QED
    BY <1>3, <1>5, <2>1
<1>8. ~Served'
  BY <1>2 DEF Served, Loading
<1>9. QED
  BY <1>1, <1>2, <1>5, <1>6, <1>7, <1>8, CacheMoves DEF CacheInv, CacheTypeOK, AnswersSound

LEMMA PageSteps ==
  ASSUME CacheInv, PageServed \/ PageArrives
  PROVE  CacheInv'
<1> USE Constants
<1>1. UNCHANGED <<posted, content, gateway, online, told, partial>>
  BY DEF PageServed, PageArrives, discord
<1>2. entry \in EntryStates
  BY DEF CacheInv, CacheTypeOK
<1>3. CASE PageServed
  <2>1. PICK page \in [Posts -> Versions] :
          /\ reader' = [reader EXCEPT !.step = "batch", !.pages = @ + 1, !.page = page]
          /\ \A n \in Posts : page[n] \in {content[n], Gone}
    <3> DEFINE older == {m \in Posts : m < reader.low /\ content[m] # Gone}
               newest == {m \in older : Cardinality({n \in older : n >= m}) <= PageSize}
               page == [m \in Posts |-> IF m \in newest THEN content[m] ELSE Gone]
    <3>1. reader' = [reader EXCEPT !.step = "batch", !.pages = @ + 1, !.page = page]
      BY <1>3, Zenon DEF PageServed
    <3>2. page \in [Posts -> Versions] /\ \A n \in Posts : page[n] \in {content[n], Gone}
      <4> HIDE DEF newest
      <4>1. QED
        BY DEF CacheInv, CacheTypeOK
    <3> HIDE DEF page
    <3>3. QED
      BY <3>1, <3>2
  <2>2. /\ IsReader(reader') /\ reader'.page = page /\ reader'.own = reader.own
        /\ reader.step = "page" /\ reader'.step = "batch" /\ entry' = entry
    BY <1>3, <2>1 DEF PageServed, IsReader, CacheInv, CacheTypeOK
  <2>3. \A n \in Posts : Sound(n, content[n]) /\ Sound(n, Gone)
    BY DEF Sound, Now, CacheInv, EventsInOrder
  <2>4. \A n \in Posts : Sound(n, reader'.page[n])
    BY <2>1, <2>2, <2>3
  <2>5. LoadHasEntry'
    BY <2>2 DEF CacheInv, LoadHasEntry, Loading
  <2>6. QED
    BY <1>1, <1>2, <2>2, <2>4, <2>5, CacheMoves DEF CacheInv, CacheTypeOK, AnswersSound
<1>4. CASE PageArrives
  <2>1. /\ Served /\ Loading /\ entry.exists /\ entry.loading
    BY <1>4 DEF PageArrives, Served, Loading, CacheInv, LoadHasEntry
  <2>2. PICK w \in EntryStates :
          /\ w = WithPage
          /\ w.exists /\ w.loading /\ w.changes = entry.changes
          /\ \A n \in Posts : Sound(n, w.text[n])
    <3> DEFINE text == [m \in Posts |->
                 IF reader.page[m] # Gone /\ Takes(m) THEN reader.page[m] ELSE entry.text[m]]
    <3>1. WithPage = [entry EXCEPT !.text = text]
      BY DEF WithPage
    <3>2. text \in [Posts -> Versions]
      BY <1>2 DEF EntryStates, CacheInv, CacheTypeOK, IsReader
    <3>3. ASSUME NEW n \in Posts
          PROVE  Sound(n, text[n])
      <4>1. CASE reader.page[n] # Gone /\ Takes(n)
        BY <2>1, <4>1 DEF Takes, CacheInv, AnswersSound
      <4>2. CASE ~(reader.page[n] # Gone /\ Takes(n))
        BY <4>2 DEF CacheInv, AnswersSound
      <4>3. QED
        BY <4>1, <4>2
    <3> HIDE DEF text
    <3>4. /\ WithPage \in EntryStates /\ WithPage.text = text
          /\ WithPage.exists = entry.exists /\ WithPage.loading = entry.loading
          /\ WithPage.changes = entry.changes
      BY <1>2, <3>1, <3>2 DEF EntryStates
    <3>5. QED
      BY <2>1, <3>3, <3>4
  <2>3. IsReader(reader') /\ reader'.step \in {"recheck", "page"}
    BY <1>4 DEF PageArrives, IsReader, CacheInv, CacheTypeOK
  <2>4. \/ entry' = w
        \/ reader'.step = "recheck" /\ entry' = Trim([w EXCEPT !.loaded = TRUE, !.loading = FALSE])
    BY <1>4, <2>2 DEF PageArrives, IsReader, CacheInv, CacheTypeOK
  <2>5. CASE entry' = w
    <3>1. LoadHasEntry' /\ ~Served'
      BY <2>2, <2>3, <2>5 DEF LoadHasEntry, Loading, Served
    <3>2. QED
      BY <1>1, <2>2, <2>3, <2>5, <3>1, CacheMoves DEF CacheInv, CacheTypeOK, AnswersSound
  <2>6. CASE reader'.step = "recheck" /\ entry' = Trim([w EXCEPT !.loaded = TRUE, !.loading = FALSE])
    <3> DEFINE g == [w EXCEPT !.loaded = TRUE, !.loading = FALSE]
    <3>1. g \in EntryStates /\ g.exists /\ g.text = w.text
      BY <2>2 DEF EntryStates
    <3> HIDE DEF g
    <3>2. entry' \in EntryStates /\ entry'.exists
      BY <2>6, <3>1, TrimForgets DEF g
    <3>3. \A n \in Posts : entry'.text[n] \in {w.text[n], Gone}
      BY <2>6, <3>1, TrimForgets DEF g
    <3>4. \A n \in Posts : Sound(n, entry'.text[n])
      BY <2>2, <3>3 DEF Sound
    <3>5. LoadHasEntry' /\ ~Served'
      BY <2>6, <3>2 DEF LoadHasEntry, Loading, Served
    <3>6. QED
      BY <1>1, <2>3, <3>2, <3>4, <3>5, CacheMoves DEF CacheInv, CacheTypeOK, AnswersSound
  <2>7. QED
    BY <2>4, <2>5, <2>6
<1>5. QED
  BY <1>3, <1>4

LEMMA CacheStep == CacheInv /\ [CacheNext]_cacheVars => CacheInv'
<1> SUFFICES ASSUME CacheInv, [CacheNext]_cacheVars PROVE CacheInv'
  OBVIOUS
<1>1. CASE UNCHANGED cacheVars
  BY <1>1 DEF cacheVars, discord, CacheInv, CacheTypeOK, EventsInOrder, LoadHasEntry,
              AnswersSound, Loading, Served, Sound, Awaits, Now
<1>2. CASE CacheNext
  BY <1>2, MemberSteps, SessionSteps, EventStep, FetchSteps, ReaderLeaves, AccessStep,
     PageSteps DEF CacheNext
<1>3. QED
  BY <1>1, <1>2

\* Every message of the entry is sound and every load under way will leave it so,
\* for any number of messages and versions.
THEOREM CacheInvariant == CacheSpec => []CacheInv
BY CacheStarts, CacheStep, PTL DEF CacheSpec

LEMMA CacheTells == CacheInv => CacheTruthful
<1> SUFFICES ASSUME CacheInv, NEW m \in Holds(entry.text)
             PROVE  /\ entry.text[m] >= told[m]
                    /\ online /\ gateway = <<>> => entry.text[m] = content[m]
  BY DEF CacheTruthful
<1>1. m \in Posts /\ entry.text[m] # Gone
  BY DEF Holds
<1>2. Sound(m, entry.text[m]) /\ entry.text[m] \in Nat /\ told[m] \in Nat
  BY <1>1, Constants DEF CacheInv, AnswersSound, CacheTypeOK, EntryStates, Versions
<1>3. gateway = <<>> => ~Awaits(m) /\ ~Awaits(0)
  BY DEF Awaits
<1>4. QED
  BY <1>1, <1>2, <1>3 DEF Sound

\* What the gateway said is never undone by an answer that was under way, and once
\* its events are handled the cache shows nothing that Discord no longer shows, over
\* any sessions lost in between (registerTranscriptCache).
THEOREM CacheIsTruthful == CacheSpec => []CacheTruthful
BY CacheInvariant, CacheTells, PTL
=============================================================================
