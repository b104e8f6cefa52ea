------------------------------ MODULE Broadcast ------------------------------
(***************************************************************************)
(* Announcing one occurrence of a calendar event: the automatic pass of    *)
(* its day, the passes a moderator starts in the console and the drafts    *)
(* that moderators confirm all post through one ledger.                    *)
(* src/capabilities/calendar/{announcer,source,store,capability}.ts.       *)
(*                                                                         *)
(* The ledger has a delivery row per channel, which is first a lease and   *)
(* then a receipt, and one daily receipt for the announcement channel.     *)
(* Posting cannot be atomic with either, so a row is written before and    *)
(* after it.  Code between two awaits is one step, except the loop over a  *)
(* draft's channels, which keeps the JavaScript thread (thread) meanwhile. *)
(***************************************************************************)
EXTENDS Integers, Sequences, FiniteSets

CONSTANTS
  Channels,
  Announce,     \* resolveAnnounceSettings().channelId
  Homes,        \* the management channels; a turn at a time in each
  Drafts,       \* tokens of drafts
  Passes,       \* tokens of the announcer's runs
  Legacy,       \* token of a row that an older version left without daily receipt
  None,
  Lease,        \* the ten minutes of reserveBroadcast
  Ttl,          \* DRAFT_TTL_MS
  Dawn,         \* the first instant of the occurrence's day
  Patience,     \* bound: how old a turn is when it ends, or a renewal when the
                \* pass has posted
  Horizon,      \* bound on the clock
  Targets,      \* the channels each draft is made for
  Reposts,      \* the drafts that ask for a repost
  MaxTurns,     \* bound on turns
  MaxFaults     \* bound on failed posts, deleted posts and restarts

Tokens == Drafts \cup Passes

ASSUME BroadcastAssumption ==
  /\ Announce \in Channels
  /\ Drafts \cap Passes = {} /\ {None, Legacy} \cap Tokens = {}
  /\ None \notin Channels /\ None # Legacy
  /\ Targets \in [Drafts -> (SUBSET Channels) \ {{}}] /\ Reposts \subseteq Drafts
  /\ {Lease, Ttl, Dawn, Patience, Horizon, MaxTurns, MaxFaults} \subseteq Nat
  /\ Patience < Lease /\ Dawn <= Horizon

VARIABLES
  now,
  ledger,     \* rows: calendar_broadcast_deliveries; daily: the occurrence's
              \* row of calendar_announcements
  drafts,     \* calendar_announcement_drafts
  turns,      \* the turn of each management channel
  passes,     \* the runs of the announcer
  channel,    \* what was ever posted in each channel
  gone,       \* the posts that moderators deleted
  thread,     \* the turn whose code is running, None at an await
  left,       \* what is left of MaxTurns and MaxFaults
  delivered,  \* history: the posts Discord confirmed to their senders
  waived      \* history: the posts whose receipt was replaced on purpose

world == <<channel, gone>>
history == <<delivered, waived>>
vars == <<now, ledger, drafts, turns, passes, world, thread, left, history>>

\* A post is its place in its channel, 0 when there is none; a receipt is the
\* number of the post it names, and a lease is a row with receipt 0.
NoRow == [token |-> None, at |-> 0, message |-> 0]
NoDaily == [channel |-> None, at |-> 0, message |-> 0]
NoDraft == [state |-> "none", home |-> None, targets |-> {}, at |-> 0]
NoTurn == [pc |-> "idle", at |-> 0, draft |-> None, todo |-> {}, failed |-> {},
           tried |-> {}, target |-> None, message |-> 0]
NoPass == [pc |-> "idle", at |-> 0, repost |-> FALSE, since |-> 0, message |-> 0]

Time == 0..Horizon
Today(t) == t >= Dawn

\* A row of an older version, or a clean start on the day before.
BroadcastInit ==
  /\ \E old \in BOOLEAN :
       /\ now = IF old THEN Dawn ELSE 0
       /\ ledger =
            [rows  |-> [c \in Channels |->
                          IF old /\ c = Announce
                          THEN [token |-> Legacy, at |-> Dawn, message |-> 1]
                          ELSE NoRow],
             daily |-> NoDaily]
       /\ channel = [c \in Channels |->
                       IF old /\ c = Announce
                       THEN <<[by |-> Legacy, at |-> Dawn]>> ELSE <<>>]
  /\ drafts = [d \in Drafts |-> NoDraft]
  /\ turns = [h \in Homes |-> NoTurn]
  /\ passes = [p \in Passes |-> NoPass]
  /\ gone = {}
  /\ thread = None
  /\ left = [turns |-> MaxTurns, faults |-> MaxFaults]
  /\ delivered = {} /\ waived = {}

-----------------------------------------------------------------------------
(* The ledger, each operator a transaction of store.ts on ledger L.         *)

Requested == [auto |-> FALSE, repost |-> FALSE]
Automatic(repost) == [auto |-> TRUE, repost |-> repost]

DailyRefuses(L, c, at, opts) ==
  /\ L.daily.channel = c
  /\ ~opts.repost
  /\ opts.auto \/ at - L.daily.at < Lease

\* A receipt of the day that never made it into calendar_announcements.
Adopts(L, c, opts) ==
  /\ L.rows[c].message # 0
  /\ opts.auto /\ ~opts.repost
  /\ Today(L.rows[c].at)

\* Altered: a repost also goes over a lease.
LeaseRefusesOnlyReceipts(L, c, at, opts) ==
  /\ L.rows[c].token # None
  /\ at - L.rows[c].at < Lease
  /\ L.rows[c].message # 0

LeaseRefuses(L, c, at, opts) ==
  /\ L.rows[c].token # None
  /\ at - L.rows[c].at < Lease
  /\ opts.repost => L.rows[c].message = 0

Refuses(L, c, at, opts) ==
  \/ DailyRefuses(L, c, at, opts)
  \/ Adopts(L, c, opts)
  \/ LeaseRefuses(L, c, at, opts)

\* The receipt that goes with a refusal.
Receipt(L, c, at, opts) ==
  IF DailyRefuses(L, c, at, opts) THEN L.daily.message ELSE L.rows[c].message

Reserve(L, c, token, at, opts) ==
  IF ~Refuses(L, c, at, opts)
  THEN [L EXCEPT !.rows[c] = [token |-> token, at |-> at, message |-> 0]]
  ELSE IF ~DailyRefuses(L, c, at, opts) /\ Adopts(L, c, opts)
  THEN [L EXCEPT !.daily = [channel |-> c, at |-> L.rows[c].at,
                            message |-> L.rows[c].message]]
  ELSE L

Release(L, c, token) ==
  IF L.rows[c].token = token /\ L.rows[c].message = 0
  THEN [L EXCEPT !.rows[c] = NoRow] ELSE L

\* Altered: only the daily receipt has to be the one inspected.
MayForgetDaily(L, c, message) ==
  L.daily.channel = c /\ L.daily.message = message

\* Both ledgers, as far as they know of a delivery, have the receipt inspected.
MayForget(L, c, message) ==
  /\ L.rows[c].token # None \/ L.daily.channel = c
  /\ L.rows[c].token # None => L.rows[c].message = message
  /\ L.daily.channel = c => L.daily.message = message

Forget(L, c, message) ==
  IF MayForget(L, c, message)
  THEN [rows  |-> [L.rows EXCEPT ![c] = NoRow],
        daily |-> IF L.daily.channel = c THEN NoDaily ELSE L.daily]
  ELSE L

\* The receipts that a call of Forget gives up.
Forgotten(L, c, message) ==
  IF MayForget(L, c, message) THEN {<<c, message>>} ELSE {}

Holds(L, c, token) == L.rows[c].token = token /\ L.rows[c].message = 0

Renew(L, c, token, at) ==
  IF Holds(L, c, token) THEN [L EXCEPT !.rows[c].at = at] ELSE L

\* Altered: only the automatic pass writes the daily receipt.
FulfilsNever(c, at) == FALSE

Fulfils(c, at) == c = Announce /\ Today(at)

Finish(L, c, token, message, at) ==
  IF L.rows[c].token # token THEN L
  ELSE [rows  |-> [L.rows EXCEPT ![c].message = message],
        daily |-> IF Fulfils(c, at)
                  THEN [channel |-> c, at |-> at, message |-> message]
                  ELSE L.daily]

-----------------------------------------------------------------------------
(* The world.                                                              *)

Fault == left.faults > 0 /\ left' = [left EXCEPT !.faults = @ - 1]

InFlight(p) == passes[p].pc \notin {"idle", "over"}

Tick ==
  /\ thread = None
  /\ now < Horizon
  /\ \A h \in Homes : turns[h].pc # "idle" => now - turns[h].at < Patience
  /\ \A p \in Passes :
       passes[p].pc \in {"sending", "sweeping"} => now - passes[p].since < Patience
  /\ now' = now + 1
  /\ UNCHANGED <<ledger, drafts, turns, passes, world, thread, left, history>>

\* A moderator deletes a post.
DeletePost(c, i) ==
  /\ thread = None
  /\ Fault
  /\ i \in 1..Len(channel[c]) /\ <<c, i>> \notin gone
  /\ gone' = gone \cup {<<c, i>>}
  /\ UNCHANGED <<now, ledger, drafts, turns, passes, channel, thread, history>>

\* What was in memory is lost; the tables are kept.
Crash ==
  /\ Fault
  /\ \/ \E p \in Passes : InFlight(p)
     \/ \E h \in Homes : turns[h].pc # "idle"
  /\ turns' = [h \in Homes |-> NoTurn]
  /\ passes' = [p \in Passes |->
                  IF InFlight(p) THEN [NoPass EXCEPT !.pc = "over"] ELSE passes[p]]
  /\ thread' = None
  /\ UNCHANGED <<now, ledger, drafts, world, history>>

Post(c, token) ==
  channel' = [channel EXCEPT ![c] = Append(@, [by |-> token, at |-> now])]

-----------------------------------------------------------------------------
(* The announcer: CalendarAnnouncer.run for this occurrence.               *)

GoTo(p, pc) ==
  passes' = [passes EXCEPT
    ![p] = IF pc = "over" THEN [NoPass EXCEPT !.pc = pc] ELSE [@ EXCEPT !.pc = pc]]

\* announcementsDue finds the occurrence of the day without a daily receipt.
\* The timer skips its tick while its own pass is in flight, but the console's
\* announce_now, which may ask for a repost, does not: passes overlap.
StartPass(p, repost) ==
  /\ thread = None
  /\ passes[p].pc = "idle"
  /\ Today(now)
  /\ repost \/ ledger.daily = NoDaily
  /\ passes' = [passes EXCEPT ![p] = [NoPass EXCEPT !.pc = "resolving", !.at = now,
                                        !.repost = repost]]
  /\ UNCHANGED <<now, ledger, drafts, turns, world, thread, left, history>>

\* The links are resolved, which may have asked the model: the reservation of
\* announceOne, at the time the run began.
ReservePass(p) ==
  LET opts == Automatic(passes[p].repost)
      refused == Refuses(ledger, Announce, passes[p].at, opts)
      replaced == {ledger.rows[Announce].message, ledger.daily.message} \ {0}
  IN
  /\ thread = None
  /\ passes[p].pc = "resolving"
  /\ ledger' = Reserve(ledger, Announce, p, passes[p].at, opts)
  /\ GoTo(p, IF refused THEN "over" ELSE "writing")
  /\ waived' = IF opts.repost /\ ~refused
               THEN waived \cup {<<Announce, i>> : i \in replaced} ELSE waived
  /\ UNCHANGED <<now, drafts, turns, world, thread, left, delivered>>

\* The text is written, by the model or from the template.
Written(p) ==
  /\ thread = None
  /\ passes[p].pc = "writing"
  /\ ledger' = Renew(ledger, Announce, p, now)
  /\ IF Holds(ledger, Announce, p)
     THEN passes' = [passes EXCEPT ![p].pc = "sending", ![p].since = now]
     ELSE GoTo(p, "over")
  /\ UNCHANGED <<now, drafts, turns, world, thread, left, history>>

\* channel.send creates the post.
SendPass(p) ==
  /\ thread = None
  /\ passes[p].pc = "sending"
  /\ Post(Announce, p)
  /\ passes' = [passes EXCEPT ![p].pc = "sweeping",
                              ![p].message = Len(channel[Announce]) + 1]
  /\ UNCHANGED <<now, ledger, drafts, turns, gone, thread, left, history>>

\* The post is confirmed, by the answer or by the look at the channel after it.
PassPosted(p) ==
  /\ thread = None
  /\ passes[p].pc = "sweeping"
  /\ GoTo(p, "over")
  /\ ledger' = Finish(ledger, Announce, p, passes[p].message, passes[p].at)
  /\ delivered' = delivered \cup {<<p, Announce, passes[p].message>>}
  /\ UNCHANGED <<now, drafts, turns, world, thread, left, waived>>

\* Nothing was posted, or the post was not found: the row stays a lease.
PassFailed(p) ==
  /\ thread = None
  /\ passes[p].pc \in {"sending", "sweeping"}
  /\ Fault
  /\ GoTo(p, "over")
  /\ UNCHANGED <<now, ledger, drafts, turns, world, thread, history>>

-----------------------------------------------------------------------------
(* A moderator's turn: calendar_draft_announcement and                     *)
(* calendar_send_announcement.                                             *)

StartTurn(h) ==
  /\ thread = None
  /\ turns[h].pc = "idle" /\ left.turns > 0
  /\ left' = [left EXCEPT !.turns = @ - 1]
  /\ turns' = [turns EXCEPT ![h] = [NoTurn EXCEPT !.pc = "thinking", !.at = now]]
  /\ UNCHANGED <<now, ledger, drafts, passes, world, thread, history>>

EndTurn(h) ==
  /\ thread = None
  /\ turns[h].pc = "thinking"
  /\ turns' = [turns EXCEPT ![h] = NoTurn]
  /\ UNCHANGED <<now, ledger, drafts, passes, world, thread, left, history>>

\* The text was written and the draft is saved under a new token.
SaveDraft(h, d) ==
  /\ thread = None
  /\ turns[h].pc = "thinking"
  /\ drafts[d].state = "none"
  /\ drafts' = [drafts EXCEPT ![d] =
                  [state |-> "parked", home |-> h, targets |-> Targets[d],
                   at |-> turns[h].at]]
  /\ UNCHANGED <<now, ledger, turns, passes, world, thread, left, history>>

\* handleSendAnnouncement, and postParkedDraft up to its loop.
SpendDraft(h, d) ==
  /\ thread = None
  /\ turns[h].pc = "thinking"
  /\ drafts[d].state = "parked" /\ drafts[d].home = h
  /\ turns[h].at - drafts[d].at <= Ttl
  /\ drafts' = [drafts EXCEPT ![d].state = "spent"]
  /\ turns' = [turns EXCEPT ![h].pc = "next", ![h].draft = d,
                            ![h].todo = drafts[d].targets, ![h].failed = {}]
  /\ thread' = h
  /\ UNCHANGED <<now, ledger, passes, world, left, history>>

\* The reservation on ledger L, the last one made for this channel: post, or
\* count what is on record as posted, or leave the channel for a retry.
ReserveOn(h, c, L) ==
  LET t == turns[h]
      refused == Refuses(L, c, t.at, Requested)
      receipt == Receipt(L, c, t.at, Requested)
  IN
  /\ ledger' = Reserve(L, c, t.draft, t.at, Requested)
  /\ turns' = [turns EXCEPT
       ![h] = [t EXCEPT !.pc = IF refused THEN "next" ELSE "sending",
                        !.todo = @ \ {c}, !.tried = @ \cup {c},
                        !.target = IF refused THEN None ELSE c, !.message = 0,
                        !.failed = IF refused /\ receipt = 0 THEN @ \cup {c} ELSE @]]
  /\ thread' = IF refused THEN h ELSE None

\* The next channel of the draft.  A receipt met for the first time in this
\* turn is replaced by a repost, or else checked first.
NextTarget(h, c) ==
  LET t == turns[h]
      receipt == Receipt(ledger, c, t.at, Requested)
      met == /\ Refuses(ledger, c, t.at, Requested)
             /\ receipt # 0 /\ c \notin t.tried
  IN
  /\ thread = h
  /\ t.pc = "next" /\ c \in t.todo
  /\ \/ ~met /\ ReserveOn(h, c, ledger) /\ UNCHANGED waived
     \/ /\ met /\ t.draft \in Reposts
        /\ ReserveOn(h, c, Forget(ledger, c, receipt))
        /\ waived' = waived \cup Forgotten(ledger, c, receipt)
     \/ /\ met /\ t.draft \notin Reposts
        /\ turns' = [turns EXCEPT ![h] = [t EXCEPT !.pc = "checking", !.target = c,
                                                   !.tried = @ \cup {c},
                                                   !.message = receipt]]
        /\ thread' = None
        /\ UNCHANGED <<ledger, waived>>
  /\ UNCHANGED <<now, drafts, passes, world, left, delivered>>

\* checkReceipt answered: "deleted" only of a post that is gone.
ReceiptChecked(h) ==
  LET t == turns[h] IN
  /\ thread = None
  /\ t.pc = "checking"
  /\ \/ /\ <<t.target, t.message>> \in gone
        /\ ReserveOn(h, t.target, Forget(ledger, t.target, t.message))
        /\ waived' = waived \cup Forgotten(ledger, t.target, t.message)
     \/ ReserveOn(h, t.target, ledger) /\ UNCHANGED waived
  /\ UNCHANGED <<now, drafts, passes, world, left, delivered>>

\* broadcaster.post creates the post.
SendDraft(h) ==
  LET t == turns[h] IN
  /\ thread = None
  /\ t.pc = "sending"
  /\ Post(t.target, t.draft)
  /\ turns' = [turns EXCEPT ![h].pc = "answering",
                            ![h].message = Len(channel[t.target]) + 1]
  /\ UNCHANGED <<now, ledger, drafts, passes, gone, thread, left, history>>

\* The answer arrived, and the loop goes on.
GoOn(h, failed) ==
  /\ thread = None
  /\ turns' = [turns EXCEPT ![h].pc = "next", ![h].failed = @ \cup failed,
                            ![h].target = None, ![h].message = 0]
  /\ thread' = h
  /\ UNCHANGED <<now, drafts, passes, world, waived>>

DraftPosted(h) ==
  LET t == turns[h] IN
  /\ t.pc = "answering"
  /\ ledger' = Finish(ledger, t.target, t.draft, t.message, t.at)
  /\ delivered' = delivered \cup {<<t.draft, t.target, t.message>>}
  /\ GoOn(h, {}) /\ UNCHANGED left

\* Surely not sent: a missing channel or a permission, which can be mended.
DraftNotSent(h) ==
  LET t == turns[h] IN
  /\ t.pc = "sending"
  /\ ledger' = Release(ledger, t.target, t.draft)
  /\ Fault
  /\ GoOn(h, {t.target}) /\ UNCHANGED delivered

\* Nobody knows: the row stays a lease.
DraftUnconfirmed(h) ==
  /\ turns[h].pc \in {"sending", "answering"}
  /\ Fault
  /\ GoOn(h, {turns[h].target}) /\ UNCHANGED <<ledger, delivered>>

\* Altered: a partial failure opens the whole draft again.
RetryableAll(h) ==
  IF turns[h].failed = {} THEN {} ELSE drafts[turns[h].draft].targets

\* finishAnnouncementDraft: the channels that failed may be tried again.
Retryable(h) == turns[h].failed

DraftDone(h) ==
  LET d == turns[h].draft IN
  /\ thread = h
  /\ turns[h].pc = "next" /\ turns[h].todo = {}
  /\ drafts' = [drafts EXCEPT
       ![d] = IF Retryable(h) = {} THEN @
              ELSE [@ EXCEPT !.state = "parked", !.targets = Retryable(h)]]
  /\ turns' = [turns EXCEPT ![h].pc = "thinking", ![h].draft = None,
                            ![h].failed = {}]
  /\ thread' = None
  /\ UNCHANGED <<now, ledger, passes, world, left, history>>

-----------------------------------------------------------------------------

PassStep(p) ==
  \/ \E repost \in BOOLEAN : StartPass(p, repost)
  \/ ReservePass(p) \/ Written(p) \/ SendPass(p) \/ PassPosted(p)
  \/ PassFailed(p)

TurnStep(h) ==
  \/ StartTurn(h) \/ EndTurn(h)
  \/ \E d \in Drafts : SaveDraft(h, d) \/ SpendDraft(h, d)
  \/ \E c \in Channels : NextTarget(h, c)
  \/ ReceiptChecked(h) \/ SendDraft(h)
  \/ DraftPosted(h) \/ DraftNotSent(h) \/ DraftUnconfirmed(h) \/ DraftDone(h)

BroadcastNext ==
  \/ Tick \/ Crash
  \/ \E c \in Channels : \E i \in 1..Len(channel[c]) : DeletePost(c, i)
  \/ \E p \in Passes : PassStep(p)
  \/ \E h \in Homes : TurnStep(h)

BroadcastSpec == BroadcastInit /\ [][BroadcastNext]_vars

-----------------------------------------------------------------------------
(* Correctness.                                                            *)

Posts(c) == Len(channel'[c]) > Len(channel[c])
Sender(c) == channel'[c][Len(channel'[c])].by

\* Whoever posts, automatic pass or draft, with or without a crash, a lost
\* answer or a failure before: two announcements in a channel are a lease apart,
\* but for the time in which a reservation grows old, unless the receipt of the
\* earlier one was replaced on purpose.
SendsApart ==
  [][\A c \in Channels : Posts(c) =>
       \A i \in 1..Len(channel[c]) :
         <<c, i>> \in waived \/ now - channel[c][i].at >= Lease - Patience]_vars

\* An automatic announcement never goes out over a receipt of the day, however
\* long its text took to write.
AutomaticDefers ==
  [][\A p \in Passes : Posts(Announce) /\ Sender(Announce) = p /\ ~passes[p].repost
       => ledger.daily = NoDaily /\ ledger.rows[Announce].message = 0]_vars

\* Retrying a draft never replays it in a channel where it is known to be posted.
NoReplay ==
  [][\A c \in Channels, d \in Drafts : Posts(c) /\ Sender(c) = d
       => \A i \in 1..Len(channel[c]) : <<d, c, i>> \notin delivered]_vars

\* A delivery of the day in the announcement channel fulfils the daily receipt,
\* whoever made it, and the two ledgers never disagree about it.
Fulfilled(L) ==
  LET row == L.rows[Announce] IN
  row.token \in Tokens /\ row.message # 0 /\ Today(row.at)
    => L.daily.channel = Announce /\ L.daily.message = row.message

DailyFollowsDelivery == Fulfilled(ledger)

-----------------------------------------------------------------------------
(* What makes them hold: the inductive invariant.                          *)

RowType == [token : Tokens \cup {None, Legacy}, at : Time, message : Nat]
DailyType == [channel : Channels \cup {None}, at : Time, message : Nat]

LedgerTypeOK(L) ==
  /\ L \in [rows : [Channels -> RowType], daily : DailyType]
  /\ L.daily = NoDaily \/ L.daily.channel = Announce

TurnType ==
  [pc : {"idle", "thinking", "next", "checking", "sending", "answering"},
   at : Time, draft : Drafts \cup {None}, todo : SUBSET Channels,
   failed : SUBSET Channels, tried : SUBSET Channels,
   target : Channels \cup {None}, message : Nat]

PassType ==
  [pc : {"idle", "resolving", "writing", "sending", "sweeping", "over"},
   at : Time, repost : BOOLEAN, since : Time, message : Nat]

BroadcastTypeOK ==
  /\ now \in Time
  /\ LedgerTypeOK(ledger)
  /\ drafts \in [Drafts -> [state : {"none", "parked", "spent"},
                            home : Homes \cup {None},
                            targets : SUBSET Channels, at : Time]]
  /\ turns \in [Homes -> TurnType]
  /\ passes \in [Passes -> PassType]
  /\ channel \in [Channels -> Seq([by : Tokens \cup {Legacy}, at : Time])]
  /\ gone \subseteq Channels \X (Nat \ {0})
  /\ delivered \subseteq Tokens \X Channels \X Nat

Confirming(h) == turns[h].pc \in {"next", "checking", "sending", "answering"}
AtTarget(h) == turns[h].pc \in {"sending", "answering"}

\* A turn works off a spent draft of its own channel: nobody else does.
TurnsOwnDrafts ==
  \A h \in Homes : Confirming(h) =>
    /\ turns[h].draft \in Drafts
    /\ drafts[turns[h].draft].state = "spent" /\ drafts[turns[h].draft].home = h

\* The channels still to be tried, the one being tried and the ones that failed
\* are different channels.
Apart(t) ==
  /\ t.todo \cap t.failed = {}
  /\ t.pc = "checking" => t.target \in t.todo /\ t.message # 0
  /\ t.pc \in {"sending", "answering"} => t.target \in Channels \ (t.todo \cup t.failed)

TargetsApart == \A h \in Homes : Confirming(h) => Apart(turns[h])

Pending(t) ==
  t.todo \cup t.failed \cup IF t.pc \in {"sending", "answering"} THEN {t.target} ELSE {}

\* A channel where a draft is known to be posted is none of these.
DeliveredIsDone ==
  \A x \in delivered : x[1] \in Drafts =>
    /\ drafts[x[1]].state # "none"
    /\ drafts[x[1]].state = "parked" => x[2] \notin drafts[x[1]].targets
    /\ \A h \in Homes :
         Confirming(h) /\ turns[h].draft = x[1] => x[2] \notin Pending(turns[h])

\* A reservation has the time of the turn that made it.
RowsAreTheTurns ==
  \A h \in Homes : AtTarget(h) =>
    LET row == ledger.rows[turns[h].target] IN
    row.token = turns[h].draft => row.at = turns[h].at

NothingFromTheFuture ==
  /\ \A h \in Homes : turns[h].at <= now
  /\ \A p \in Passes : passes[p].at <= now

PassesAreOfToday == \A p \in Passes : InFlight(p) => Today(passes[p].at)

\* A pass that still has its reservation has it over no receipt, and until it
\* has posted nobody can take it.
PassesHold ==
  \A p \in Passes :
    LET row == ledger.rows[Announce] IN
    /\ passes[p].pc \in {"writing", "sending"} /\ row.token = p =>
         /\ row.message = 0
         /\ ~passes[p].repost => ledger.daily = NoDaily
    /\ passes[p].pc = "sending" =>
         /\ row.token = p /\ row.at = passes[p].since
         /\ now - passes[p].since <= Patience

BroadcastIndInv ==
  /\ BroadcastTypeOK
  /\ TurnsOwnDrafts
  /\ TargetsApart
  /\ DeliveredIsDone
  /\ RowsAreTheTurns
  /\ NothingFromTheFuture
  /\ PassesAreOfToday
  /\ PassesHold
  /\ DailyFollowsDelivery

=============================================================================
