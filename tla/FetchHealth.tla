------------------------------ MODULE FetchHealth ------------------------------
(***************************************************************************)
(* The outage and recovery notices of the Instagram monitor: the state of  *)
(* its fetches kept in the database, and the notices sent about it from    *)
(* ticks that do not wait for each other                                   *)
(* (src/capabilities/instagram_monitor/fetch-health.ts).                   *)
(*                                                                         *)
(* The clock is left out: whether the last attempt was long ago enough to  *)
(* try again, and the last alert to be repeated, changes at any time.      *)
(***************************************************************************)
EXTENDS Integers

CONSTANTS
  Threshold, \* FETCH_FAILURE_ALERT_THRESHOLD
  Flushes,   \* ticks whose notice may be in flight
  NoNotice   \* a flush that sent none

ASSUME HealthAssumption == Threshold \in Nat \ {0}

VARIABLES
  health, \* FetchHealthState, as it is stored
  flight, \* the notice each flush awaits, with the state it read
  open,   \* history: the last notice the operators saw is of an outage
  missed  \* history: the record does not show that notice: its answer is awaited
          \* or was lost, or that of an older notice was written over it

healthVars == <<health, flight, open, missed>>
telling == <<open, missed>>

\* failures stops at the threshold, past which nothing distinguishes them.
HealthState ==
  [failures : 0..Threshold, unexpected : BOOLEAN, alerted : BOOLEAN,
   recovery : BOOLEAN, waiting : BOOLEAN, stale : BOOLEAN]
EmptyHealth ==
  [failures |-> 0, unexpected |-> FALSE, alerted |-> FALSE, recovery |-> FALSE,
   waiting |-> FALSE, stale |-> FALSE]

Notices == [kind : {"failed", "recovered"}, read : HealthState, posted : BOOLEAN]

HealthInit ==
  /\ health = EmptyHealth /\ open = FALSE /\ missed = FALSE
  /\ flight = [f \in Flushes |-> NoNotice]

RecordFailure(unexpected) ==
  /\ health' = [health EXCEPT
                  !.failures = IF @ < Threshold THEN @ + 1 ELSE @,
                  !.unexpected = unexpected, !.recovery = FALSE]
  /\ UNCHANGED <<flight, telling>>

JustRecovered == health.failures > 0 /\ health.alerted

\* Altered: a second success forgets the recovery still to be announced.
RecoveryDueNow == JustRecovered
RecoveryDue == JustRecovered \/ health.recovery

RecordSuccess ==
  /\ health' = [health EXCEPT
                  !.failures = 0, !.unexpected = FALSE, !.recovery = RecoveryDue,
                  !.waiting = @ /\ ~JustRecovered]
  /\ UNCHANGED <<flight, telling>>

Recovering == health.recovery /\ health.failures = 0
Failing ==
  /\ health.failures = Threshold /\ health.unexpected
  /\ health.alerted => health.stale

\* The state is written before the notice is sent, with the time of the attempt.
Flush(f) ==
  /\ flight[f] = NoNotice /\ ~health.waiting /\ (Recovering \/ Failing)
  /\ health' = [health EXCEPT !.waiting = TRUE]
  /\ flight' = [flight EXCEPT ![f] =
                  [kind |-> IF Recovering THEN "recovered" ELSE "failed",
                   read |-> [health EXCEPT !.waiting = TRUE], posted |-> FALSE]]
  /\ UNCHANGED telling

\* The operators see the notice; the flush still awaits the answer. One more
\* notice of an outage already on record changes nothing.
NoticePosted(f) ==
  /\ flight[f] # NoNotice /\ ~flight[f].posted
  /\ flight' = [flight EXCEPT ![f].posted = TRUE]
  /\ open' = (flight[f].kind = "failed")
  /\ missed' = (open' /\ (open => missed))
  /\ UNCHANGED health

\* The answer: what the flush read is written back with the outcome, over what
\* polls and other flushes recorded meanwhile.
NoticeRecorded(f) ==
  /\ flight[f] # NoNotice /\ flight[f].posted
  /\ health' = [flight[f].read EXCEPT !.alerted = (flight[f].kind = "failed"),
                                      !.recovery = FALSE, !.stale = FALSE]
  /\ missed' = (open /\ flight[f].kind = "recovered")
  /\ flight' = [flight EXCEPT ![f] = NoNotice] /\ UNCHANGED open

\* No answer, or one of a failure: the notice may have been posted all the same.
NoticeFails(f) ==
  /\ flight[f] # NoNotice
  /\ flight' = [flight EXCEPT ![f] = NoNotice]
  /\ UNCHANGED <<health, telling>>

AttemptAges ==
  /\ health.waiting /\ health' = [health EXCEPT !.waiting = FALSE]
  /\ UNCHANGED <<flight, telling>>

AlertAges ==
  /\ health.alerted /\ ~health.stale /\ health' = [health EXCEPT !.stale = TRUE]
  /\ UNCHANGED <<flight, telling>>

\* A restart, before a notice is posted or between it and the write of its outcome.
HealthRestart == flight' = [f \in Flushes |-> NoNotice] /\ UNCHANGED <<health, telling>>

HealthNext ==
  \/ \E u \in BOOLEAN : RecordFailure(u)
  \/ RecordSuccess \/ AttemptAges \/ AlertAges \/ HealthRestart
  \/ \E f \in Flushes : Flush(f) \/ NoticePosted(f) \/ NoticeRecorded(f) \/ NoticeFails(f)

HealthSpec == HealthInit /\ [][HealthNext]_healthVars

-----------------------------------------------------------------------------
(* Properties.                                                             *)

HealthTypeOK ==
  /\ health \in HealthState /\ open \in BOOLEAN /\ missed \in BOOLEAN
  /\ flight \in [Flushes -> Notices \cup {NoNotice}]

\* An outage the operators were told of is not forgotten by what polls and other
\* flushes write meanwhile: once the fetches succeed again its end is waiting to be
\* announced (recordSuccess, flush). Excused, and counted in "missed", is the one
\* thing the record cannot show: a notice posted whose outcome was not written,
\* because its answer is still awaited or was lost with a failed request or a
\* restart, or over which an older notice's answer was written. The operators then
\* hear of the end only if the outage is announced to them again before.
RecoveryOwed ==
  open => missed \/ (health.alerted /\ (health.failures = 0 => health.recovery))
=============================================================================
