------------------------- MODULE AnnouncementsProofs --------------------------
(***************************************************************************)
(* The announcements of the calendar: the broadcasts that are published once *)
(* and apart, the sweep that leaves one copy of a banner, and what the     *)
(* moderators are told.                                                    *)
(***************************************************************************)
EXTENDS Broadcast, AnnounceSweep, DailyPass, FiniteSetTheorems,
        WellFoundedInduction, TLAPS

-----------------------------------------------------------------------------
(* Broadcasts (Broadcast).                                                 *)

(* The transactions of the ledger.                                         *)

Sound(L) == LedgerTypeOK(L) /\ Fulfilled(L)

LEMMA LedgerParts ==
  ASSUME NEW L, LedgerTypeOK(L)
  PROVE  /\ L = [rows |-> L.rows, daily |-> L.daily]
         /\ L.rows \in [Channels -> RowType] /\ L.daily \in DailyType
         /\ L.daily = NoDaily \/ L.daily.channel = Announce
BY DEF LedgerTypeOK

LEMMA LedgerMade ==
  ASSUME NEW rows \in [Channels -> RowType], NEW daily \in DailyType,
         daily = NoDaily \/ daily.channel = Announce
  PROVE  LedgerTypeOK([rows |-> rows, daily |-> daily])
BY DEF LedgerTypeOK

LEMMA Blanks == NoRow \in RowType /\ NoDaily \in DailyType
BY BroadcastAssumption DEF NoRow, NoDaily, RowType, DailyType, Time

\* The reservation of a sender: in the announcement channel it changes a row
\* only to become the new lease, and the daily receipt only when it adopts one.
LEMMA ReserveSound ==
  ASSUME NEW L, NEW c \in Channels, NEW token \in Tokens, NEW at \in Time,
         NEW opts \in [auto : BOOLEAN, repost : BOOLEAN], Sound(L), opts.auto => c = Announce
  PROVE  LET M == Reserve(L, c, token, at, opts) IN
         /\ Sound(M)
         /\ \A x \in Channels \ {c} : M.rows[x] = L.rows[x]
         /\ ~Refuses(L, c, at, opts) =>
              /\ M.rows[c] = [token |-> token, at |-> at, message |-> 0]
              /\ M.daily = L.daily
         /\ Refuses(L, c, at, opts) => M.rows = L.rows
         /\ M.daily # L.daily => L.rows[Announce].message # 0
<1> DEFINE M == Reserve(L, c, token, at, opts)
<1> USE BroadcastAssumption DEF Sound
<1>1. CASE ~Refuses(L, c, at, opts)
  <2>1. M = [L EXCEPT !.rows[c] = [token |-> token, at |-> at, message |-> 0]]
    BY <1>1 DEF Reserve
  <2>2. /\ M.daily = L.daily
        /\ M.rows = [L.rows EXCEPT ![c] = [token |-> token, at |-> at, message |-> 0]]
        /\ M = [rows |-> M.rows, daily |-> M.daily]
    BY <2>1, LedgerParts
  <2>3. LedgerTypeOK(M)
    <3>1. [token |-> token, at |-> at, message |-> 0] \in RowType
      BY DEF RowType
    <3>2. M.rows \in [Channels -> RowType]
      BY <2>2, <3>1, LedgerParts
    <3> QED BY <2>2, <3>2, LedgerParts, LedgerMade
  <2>4. Fulfilled(M)
    BY <2>2 DEF Fulfilled, LedgerTypeOK
  <2> QED BY <1>1, <2>2, <2>3, <2>4 DEF LedgerTypeOK
<1>2. CASE Refuses(L, c, at, opts) /\ ~DailyRefuses(L, c, at, opts) /\ Adopts(L, c, opts)
  <2>1. M = [L EXCEPT !.daily = [channel |-> c, at |-> L.rows[c].at,
                                message |-> L.rows[c].message]]
    BY <1>2 DEF Reserve
  <2>2. c = Announce /\ L.rows[c].message # 0
    BY <1>2 DEF Adopts
  <2>3. /\ M.rows = L.rows
        /\ M.daily = [channel |-> c, at |-> L.rows[c].at, message |-> L.rows[c].message]
        /\ M = [rows |-> M.rows, daily |-> M.daily]
    BY <2>1, LedgerParts
  <2>4. LedgerTypeOK(M)
    <3>1. M.daily \in DailyType
      BY <2>3, LedgerParts DEF RowType, DailyType
    <3> QED BY <2>2, <2>3, <3>1, LedgerParts, LedgerMade
  <2>5. Fulfilled(M)
    BY <2>2, <2>3 DEF Fulfilled
  <2> QED BY <1>2, <2>2, <2>3, <2>4, <2>5
<1>3. CASE Refuses(L, c, at, opts) /\ ~(~DailyRefuses(L, c, at, opts) /\ Adopts(L, c, opts))
  BY <1>3 DEF Reserve
<1> QED BY <1>1, <1>2, <1>3

\* Giving up a receipt leaves every lease alone.
LEMMA ForgetSound ==
  ASSUME NEW L, NEW c \in Channels, NEW m \in Nat \ {0}, Sound(L)
  PROVE  LET M == Forget(L, c, m) IN
         /\ Sound(M)
         /\ \A x \in Channels \ {c} : M.rows[x] = L.rows[x]
         /\ M.rows[c] = L.rows[c] \/ M.rows[c] = NoRow
         /\ L.rows[Announce].token # None /\ L.rows[Announce].message = 0
              => M.daily = L.daily /\ M.rows[Announce] = L.rows[Announce]
<1> DEFINE M == Forget(L, c, m)
<1> USE BroadcastAssumption DEF Sound
<1>1. CASE ~MayForget(L, c, m)
  BY <1>1 DEF Forget
<1>2. CASE MayForget(L, c, m)
  <2>1. /\ M.rows = [L.rows EXCEPT ![c] = NoRow]
        /\ M.daily = IF L.daily.channel = c THEN NoDaily ELSE L.daily
        /\ M = [rows |-> M.rows, daily |-> M.daily]
    BY <1>2 DEF Forget
  <2>2. LedgerTypeOK(M)
    BY <2>1, LedgerParts, LedgerMade, Blanks
  <2>3. Fulfilled(M)
    BY <2>1 DEF Fulfilled, LedgerTypeOK, NoRow, NoDaily
  <2>4. ASSUME L.rows[Announce].token # None, L.rows[Announce].message = 0
        PROVE  c # Announce
    BY <1>2, <2>4 DEF MayForget
  <2> QED BY <2>1, <2>2, <2>3, <2>4 DEF LedgerTypeOK, NoDaily
<1> QED BY <1>1, <1>2

LEMMA ReleaseSound ==
  ASSUME NEW L, NEW c \in Channels, NEW token \in Tokens, Sound(L)
  PROVE  LET M == Release(L, c, token) IN
         /\ Sound(M)
         /\ M.daily = L.daily
         /\ \A x \in Channels : \/ M.rows[x] = L.rows[x]
                                \/ x = c /\ L.rows[x].token = token /\ M.rows[x] = NoRow
<1> USE BroadcastAssumption DEF Sound
<1>1. CASE L.rows[c].token = token /\ L.rows[c].message = 0
  <2> DEFINE M == Release(L, c, token)
  <2>1. M = [L EXCEPT !.rows[c] = NoRow]
    BY <1>1 DEF Release
  <2>2. /\ M.rows = [L.rows EXCEPT ![c] = NoRow] /\ M.daily = L.daily
        /\ M = [rows |-> M.rows, daily |-> M.daily]
    BY <2>1, LedgerParts
  <2>3. LedgerTypeOK(M)
    BY <2>2, LedgerParts, LedgerMade, Blanks
  <2>4. Fulfilled(M)
    BY <2>2 DEF Fulfilled, LedgerTypeOK, NoRow
  <2> QED BY <1>1, <2>2, <2>3, <2>4 DEF LedgerTypeOK
<1>2. CASE ~(L.rows[c].token = token /\ L.rows[c].message = 0)
  BY <1>2 DEF Release
<1> QED BY <1>1, <1>2

LEMMA RenewSound ==
  ASSUME NEW L, NEW c \in Channels, NEW token \in Tokens, NEW at \in Time, Sound(L)
  PROVE  LET M == Renew(L, c, token, at) IN
         /\ Sound(M)
         /\ M.daily = L.daily
         /\ \A x \in Channels \ {c} : M.rows[x] = L.rows[x]
         /\ ~Holds(L, c, token) => M = L
         /\ Holds(L, c, token) =>
              M.rows[c] = [token |-> token, at |-> at, message |-> 0]
<1> USE BroadcastAssumption DEF Sound
<1>1. CASE Holds(L, c, token)
  <2> DEFINE M == Renew(L, c, token, at)
  <2>1. M = [L EXCEPT !.rows[c].at = at]
    BY <1>1 DEF Renew
  <2>2. /\ M.rows = [L.rows EXCEPT ![c] = [@ EXCEPT !.at = at]] /\ M.daily = L.daily
        /\ M = [rows |-> M.rows, daily |-> M.daily]
    BY <2>1, LedgerParts
  <2>3. M.rows[c] = [token |-> token, at |-> at, message |-> 0]
    BY <1>1, <2>2, LedgerParts DEF RowType, Holds
  <2>4. LedgerTypeOK(M)
    <3>1. M.rows[c] \in RowType
      BY <2>3 DEF RowType
    <3>2. M.rows = [L.rows EXCEPT ![c] = M.rows[c]]
      BY <2>2, LedgerParts
    <3> QED BY <2>2, <3>1, <3>2, LedgerParts, LedgerMade
  <2>5. Fulfilled(M)
    BY <2>2, <2>3 DEF Fulfilled, LedgerTypeOK
  <2> QED BY <1>1, <2>2, <2>3, <2>4, <2>5 DEF LedgerTypeOK
<1>2. CASE ~Holds(L, c, token)
  BY <1>2 DEF Renew
<1> QED BY <1>1, <1>2

\* The receipt of a delivery is the day's when the row is of the day.
LEMMA FinishSound ==
  ASSUME NEW L, NEW c \in Channels, NEW token \in Tokens, NEW m \in Nat,
         NEW at \in Time, Sound(L),
         L.rows[c].token = token => L.rows[c].at = at \/ Today(at)
  PROVE  LET M == Finish(L, c, token, m, at) IN
         /\ Sound(M)
         /\ \A x \in Channels : M.rows[x].token = L.rows[x].token
                                /\ M.rows[x].at = L.rows[x].at
         /\ \A x \in Channels : M.rows[x] # L.rows[x] =>
              x = c /\ L.rows[c].token = token
         /\ M.daily # L.daily => c = Announce /\ L.rows[c].token = token
<1> USE BroadcastAssumption DEF Sound
<1>1. CASE L.rows[c].token = token
  <2> DEFINE M == Finish(L, c, token, m, at)
  <2>1. /\ M.rows = [L.rows EXCEPT ![c] = [@ EXCEPT !.message = m]]
        /\ M.daily = IF Fulfils(c, at)
                     THEN [channel |-> c, at |-> at, message |-> m] ELSE L.daily
        /\ M = [rows |-> M.rows, daily |-> M.daily]
    BY <1>1 DEF Finish
  <2>2. LedgerTypeOK(M)
    <3>1. [L.rows[c] EXCEPT !.message = m] \in RowType
      BY LedgerParts DEF RowType
    <3>2. M.rows \in [Channels -> RowType]
      BY <2>1, <3>1, LedgerParts
    <3>3. M.daily \in DailyType /\ (M.daily = NoDaily \/ M.daily.channel = Announce)
      BY <2>1, LedgerParts DEF DailyType, Fulfils
    <3> QED BY <2>1, <3>2, <3>3, LedgerMade
  <2>3. Fulfilled(M)
    BY <1>1, <2>1, LedgerParts DEF Fulfilled, RowType, Fulfils
  <2> QED BY <1>1, <2>1, <2>2, <2>3 DEF LedgerTypeOK, Fulfils
<1>2. CASE L.rows[c].token # token
  BY <1>2 DEF Finish
<1> QED BY <1>1, <1>2

-----------------------------------------------------------------------------
(* The initial state, and steps that leave most of the state alone.        *)

LEMMA InitSound == BroadcastInit => BroadcastIndInv
<1> SUFFICES ASSUME BroadcastInit PROVE BroadcastIndInv
  OBVIOUS
<1> USE BroadcastAssumption
<1> PICK old \in BOOLEAN :
      /\ now = IF old THEN Dawn ELSE 0
      /\ ledger = [rows  |-> [c \in Channels |->
                                IF old /\ c = Announce
                                THEN [token |-> Legacy, at |-> Dawn, message |-> 1]
                                ELSE NoRow],
                   daily |-> NoDaily]
      /\ channel = [c \in Channels |->
                      IF old /\ c = Announce
                      THEN <<[by |-> Legacy, at |-> Dawn]>> ELSE <<>>]
  BY DEF BroadcastInit
<1>1. now \in Time
  BY DEF Time
<1>2. LedgerTypeOK(ledger)
  <2>1. [token |-> Legacy, at |-> Dawn, message |-> 1] \in RowType
    BY DEF RowType, Time
  <2>2. ledger.rows \in [Channels -> RowType]
    BY <2>1, Blanks
  <2> QED BY <2>2, Blanks, LedgerMade
<1>3. channel \in [Channels -> Seq([by : Tokens \cup {Legacy}, at : Time])]
  <2>1. [by |-> Legacy, at |-> Dawn] \in [by : Tokens \cup {Legacy}, at : Time]
    BY DEF Time
  <2>2. /\ <<[by |-> Legacy, at |-> Dawn]>> \in Seq([by : Tokens \cup {Legacy}, at : Time])
        /\ << >> \in Seq([by : Tokens \cup {Legacy}, at : Time])
    BY <2>1
  <2> QED BY <2>2
<1>4. /\ turns \in [Homes -> TurnType] /\ passes \in [Passes -> PassType]
      /\ \A h \in Homes : turns[h].pc = "idle" /\ turns[h].at = 0
      /\ \A p \in Passes : passes[p].pc = "idle" /\ passes[p].at = 0
  <2>1. 0 \in Time
    BY DEF Time
  <2>2. NoTurn \in TurnType /\ NoTurn.pc = "idle" /\ NoTurn.at = 0
    BY <2>1 DEF NoTurn, TurnType
  <2>3. NoPass \in PassType /\ NoPass.pc = "idle" /\ NoPass.at = 0
    BY <2>1 DEF NoPass, PassType
  <2> QED BY <2>2, <2>3 DEF BroadcastInit
<1>5. BroadcastTypeOK
  <2>1. NoDraft \in [state : {"none", "parked", "spent"}, home : Homes \cup {None},
                     targets : SUBSET Channels, at : Time]
    BY DEF NoDraft, Time
  <2>2. /\ gone = {} /\ delivered = {}
        /\ drafts = [d \in Drafts |-> NoDraft]
    BY DEF BroadcastInit
  <2> QED BY <1>1, <1>2, <1>3, <1>4, <2>1, <2>2 DEF BroadcastTypeOK
<1>6. /\ TurnsOwnDrafts /\ TargetsApart /\ DeliveredIsDone /\ RowsAreTheTurns
      /\ PassesAreOfToday /\ PassesHold /\ NothingFromTheFuture
  BY <1>1, <1>4 DEF BroadcastInit, TurnsOwnDrafts, TargetsApart, DeliveredIsDone, Time,
     RowsAreTheTurns, PassesAreOfToday, PassesHold, NothingFromTheFuture, Confirming,
     AtTarget, InFlight
<1>7. DailyFollowsDelivery
  BY DEF DailyFollowsDelivery, Fulfilled, NoRow
<1> QED BY <1>5, <1>6, <1>7 DEF BroadcastIndInv

\* The parts that a step leaves alone when it does not touch their variables.
DraftPart == TurnsOwnDrafts /\ TargetsApart /\ DeliveredIsDone

LEMMA StutterSound ==
  ASSUME BroadcastIndInv, UNCHANGED vars PROVE BroadcastIndInv'
BY DEF BroadcastIndInv, vars, world, history, BroadcastTypeOK, TurnsOwnDrafts,
   TargetsApart, DeliveredIsDone, RowsAreTheTurns, NothingFromTheFuture,
   PassesAreOfToday, PassesHold, DailyFollowsDelivery, Confirming, AtTarget, InFlight

LEMMA DraftsUntouched ==
  ASSUME BroadcastIndInv, UNCHANGED <<drafts, turns>>,
         \A x \in delivered' \ delivered : x[1] \in Passes
  PROVE  DraftPart'
BY BroadcastAssumption DEF BroadcastIndInv, DraftPart, TurnsOwnDrafts, TargetsApart,
   DeliveredIsDone, Confirming, AtTarget

\* A step of somebody else takes no reservation from a pass.
LEMMA PassesUndisturbed ==
  ASSUME BroadcastIndInv, UNCHANGED now,
         NEW q \in Passes, passes'[q] = passes[q],
         LET old == ledger.rows[Announce]
             new == ledger'.rows[Announce] IN
         /\ new.token = q => new = old
         /\ passes[q].pc = "sending" => new = old
         /\ old.token = q /\ old.message = 0 => ledger'.daily = ledger.daily
  PROVE  LET held == ledger'.rows[Announce] IN
         /\ passes'[q].pc \in {"writing", "sending"} /\ held.token = q =>
              /\ held.message = 0
              /\ ~passes'[q].repost => ledger'.daily = NoDaily
         /\ passes'[q].pc = "sending" =>
              /\ held.token = q /\ held.at = passes'[q].since
              /\ now' - passes'[q].since <= Patience
BY DEF BroadcastIndInv, PassesHold

Takes(q, L, M) ==
  LET old == L.rows[Announce]
      new == M.rows[Announce] IN
  \/ new.token = q /\ new # old
  \/ passes[q].pc = "sending" /\ new # old
  \/ old.token = q /\ old.message = 0 /\ M.daily # L.daily

ChannelType == [Channels -> Seq([by : Tokens \cup {Legacy}, at : Time])]
DeliveredType == Tokens \X Channels \X Nat
DraftType == [state : {"none", "parked", "spent"}, home : Homes \cup {None},
              targets : SUBSET Channels, at : Time]

\* A step of pass p, which goes on as u.
LEMMA PassFrame ==
  ASSUME BroadcastIndInv,
         NEW p \in Passes, NEW u \in PassType, passes' = [passes EXCEPT ![p] = u],
         UNCHANGED <<now, drafts, turns, gone>>,
         channel' \in ChannelType, delivered' \subseteq DeliveredType,
         \A x \in delivered' \ delivered : x[1] \in Passes,
         Sound(ledger'),
         u.at <= now, u.pc \notin {"idle", "over"} => Today(u.at),
         \A c \in Channels : ledger'.rows[c].token \in Drafts =>
           /\ ledger'.rows[c].token = ledger.rows[c].token
           /\ ledger'.rows[c].at = ledger.rows[c].at,
         \A q \in Passes \ {p} : ~Takes(q, ledger, ledger'),
         LET held == ledger'.rows[Announce] IN
         /\ u.pc \in {"writing", "sending"} /\ held.token = p =>
              /\ held.message = 0
              /\ ~u.repost => ledger'.daily = NoDaily
         /\ u.pc = "sending" =>
              /\ held.token = p /\ held.at = u.since
              /\ now - u.since <= Patience
  PROVE  BroadcastIndInv'
<1>1. BroadcastTypeOK'
  BY DEF BroadcastIndInv, BroadcastTypeOK, ChannelType, DeliveredType, Sound
<1>2. DraftPart'
  BY DraftsUntouched
<1>3. RowsAreTheTurns'
  <2>1. SUFFICES ASSUME NEW h \in Homes, AtTarget(h),
                        ledger'.rows[turns[h].target].token = turns[h].draft
                 PROVE  ledger'.rows[turns[h].target].at = turns[h].at
    BY DEF RowsAreTheTurns, AtTarget
  <2>2. turns[h].target \in Channels /\ turns[h].draft \in Drafts
    BY <2>1 DEF BroadcastIndInv, TurnsOwnDrafts, TargetsApart, Apart, AtTarget, Confirming
  <2>3. QED
    BY <2>1, <2>2 DEF BroadcastIndInv, RowsAreTheTurns
<1>4. NothingFromTheFuture' /\ PassesAreOfToday'
  BY DEF BroadcastIndInv, BroadcastTypeOK, NothingFromTheFuture, PassesAreOfToday,
     InFlight, Today
<1>5. PassesHold'
  <2> SUFFICES ASSUME NEW q \in Passes
      PROVE LET held == ledger'.rows[Announce] IN
            /\ passes'[q].pc \in {"writing", "sending"} /\ held.token = q =>
                 /\ held.message = 0
                 /\ ~passes'[q].repost => ledger'.daily = NoDaily
            /\ passes'[q].pc = "sending" =>
                 /\ held.token = q /\ held.at = passes'[q].since
                 /\ now' - passes'[q].since <= Patience
    BY DEF PassesHold
  <2>1. CASE q = p
    BY <2>1 DEF BroadcastIndInv, BroadcastTypeOK
  <2>2. CASE q # p
    <3>1. passes'[q] = passes[q] /\ ~Takes(q, ledger, ledger')
      BY <2>2 DEF BroadcastIndInv, BroadcastTypeOK
    <3> QED BY <3>1, PassesUndisturbed DEF Takes
  <2> QED BY <2>1, <2>2
<1>6. DailyFollowsDelivery'
  BY DEF DailyFollowsDelivery, Sound
<1> QED BY <1>1, <1>2, <1>3, <1>4, <1>5, <1>6 DEF BroadcastIndInv, DraftPart

\* A step of the turn of home h, which goes on as t.
LEMMA TurnFrame ==
  ASSUME BroadcastIndInv,
         NEW h \in Homes, NEW t \in TurnType, turns' = [turns EXCEPT ![h] = t],
         UNCHANGED <<now, passes, gone>>,
         channel' \in ChannelType, delivered' \subseteq DeliveredType,
         drafts' \in [Drafts -> DraftType],
         Sound(ledger'), t.at <= now, DraftPart',
         \A c \in Channels : ledger'.rows[c].token \in Drafts =>
           \/ /\ ledger'.rows[c].token = ledger.rows[c].token
              /\ ledger'.rows[c].at = ledger.rows[c].at
           \/ drafts[ledger'.rows[c].token].home = h,
         t.pc \in {"sending", "answering"} =>
           LET held == ledger'.rows[t.target] IN held.token = t.draft => held.at = t.at,
         \A q \in Passes : ~Takes(q, ledger, ledger')
  PROVE  BroadcastIndInv'
<1>1. BroadcastTypeOK'
  BY DEF BroadcastIndInv, BroadcastTypeOK, ChannelType, DeliveredType, Sound, DraftType
<1>3. RowsAreTheTurns'
  <2> SUFFICES ASSUME NEW g \in Homes, AtTarget(g)',
                      ledger'.rows[turns'[g].target].token = turns'[g].draft
               PROVE  ledger'.rows[turns'[g].target].at = turns'[g].at
    BY DEF RowsAreTheTurns
  <2>1. CASE g = h
    BY <2>1 DEF BroadcastIndInv, BroadcastTypeOK, AtTarget
  <2>2. CASE g # h
    <3>1. turns'[g] = turns[g] /\ AtTarget(g) /\ Confirming(g)
      BY <2>2 DEF BroadcastIndInv, BroadcastTypeOK, AtTarget, Confirming
    <3>2. /\ turns[g].draft \in Drafts /\ drafts[turns[g].draft].home = g
          /\ turns[g].target \in Channels
      BY <3>1 DEF BroadcastIndInv, TurnsOwnDrafts, TargetsApart, Apart, AtTarget
    <3> QED BY <2>2, <3>1, <3>2 DEF BroadcastIndInv, RowsAreTheTurns
  <2> QED BY <2>1, <2>2
<1>4. NothingFromTheFuture' /\ PassesAreOfToday'
  BY DEF BroadcastIndInv, BroadcastTypeOK, NothingFromTheFuture, PassesAreOfToday,
     InFlight, Today
<1>5. PassesHold'
  BY PassesUndisturbed DEF PassesHold, Takes
<1>6. DailyFollowsDelivery'
  BY DEF DailyFollowsDelivery, Sound
<1> QED BY <1>1, <1>3, <1>4, <1>5, <1>6 DEF BroadcastIndInv, DraftPart

\* A turn that works off its draft leaves it fewer channels, and those where it
\* is posted are none of them.
LEMMA DraftsKept ==
  ASSUME BroadcastIndInv,
         NEW h \in Homes, NEW t \in TurnType, turns' = [turns EXCEPT ![h] = t],
         UNCHANGED drafts,
         t.pc \in {"next", "checking", "sending", "answering"} =>
           /\ Confirming(h) /\ t.draft = turns[h].draft
           /\ Pending(t) \subseteq Pending(turns[h]) /\ Apart(t),
         \A x \in delivered' \ delivered :
           /\ Confirming(h) /\ x[1] = turns[h].draft
           /\ x[2] \notin Pending(t)
  PROVE  DraftPart'
<1>1. \A g \in Homes : turns'[g] = IF g = h THEN t ELSE turns[g]
  BY DEF BroadcastIndInv, BroadcastTypeOK
<1>2. TurnsOwnDrafts'
  BY <1>1 DEF BroadcastIndInv, TurnsOwnDrafts, Confirming
<1>3. TargetsApart'
  BY <1>1 DEF BroadcastIndInv, TargetsApart, Confirming
<1>4. DeliveredIsDone'
  <2> SUFFICES ASSUME NEW x \in delivered', x[1] \in Drafts
      PROVE /\ drafts'[x[1]].state # "none"
            /\ drafts'[x[1]].state = "parked" => x[2] \notin drafts'[x[1]].targets
            /\ \A g \in Homes : Confirming(g)' /\ turns'[g].draft = x[1]
                 => x[2] \notin Pending(turns'[g])
    BY DEF DeliveredIsDone
  <2>1. CASE x \in delivered
    <3>1. /\ drafts'[x[1]].state # "none"
          /\ drafts'[x[1]].state = "parked" => x[2] \notin drafts'[x[1]].targets
      BY <2>1 DEF BroadcastIndInv, DeliveredIsDone
    <3>2. ASSUME NEW g \in Homes, Confirming(g)', turns'[g].draft = x[1]
          PROVE  x[2] \notin Pending(turns'[g])
      <4>1. /\ Confirming(g) /\ turns[g].draft = x[1]
            /\ Pending(turns'[g]) \subseteq Pending(turns[g])
        BY <1>1, <3>2 DEF Confirming
      <4> QED BY <2>1, <4>1 DEF BroadcastIndInv, DeliveredIsDone
    <3> QED BY <3>1, <3>2
  <2>2. CASE x \notin delivered
    <3>1. /\ Confirming(h) /\ x[1] = turns[h].draft /\ x[2] \notin Pending(t)
          /\ drafts[x[1]].state = "spent" /\ drafts[x[1]].home = h
      BY <2>2 DEF BroadcastIndInv, TurnsOwnDrafts
    <3>2. ASSUME NEW g \in Homes, Confirming(g)', turns'[g].draft = x[1]
          PROVE  g = h
      BY <1>1, <1>2, <3>1, <3>2 DEF TurnsOwnDrafts
    <3> QED BY <1>1, <3>1, <3>2
  <2> QED BY <2>1, <2>2
<1> QED BY <1>2, <1>3, <1>4 DEF DraftPart

-----------------------------------------------------------------------------
(* The world and the announcer.                                            *)

LEMMA SoundLedger == BroadcastIndInv => Sound(ledger)
BY DEF BroadcastIndInv, BroadcastTypeOK, DailyFollowsDelivery, Sound

LEMMA Types ==
  ASSUME BroadcastIndInv
  PROVE  /\ channel \in ChannelType /\ delivered \subseteq DeliveredType
         /\ drafts \in [Drafts -> DraftType]
         /\ turns \in [Homes -> TurnType] /\ passes \in [Passes -> PassType]
BY DEF BroadcastIndInv, BroadcastTypeOK, ChannelType, DeliveredType, DraftType

LEMMA Clock ==
  ASSUME BroadcastIndInv
  PROVE  now \in Time /\ now \in Nat /\ 0 \in Time /\ 0 <= now
<1>1. now \in Time
  BY DEF BroadcastIndInv, BroadcastTypeOK
<1> QED BY <1>1, BroadcastAssumption DEF Time

LEMMA TickSound == ASSUME BroadcastIndInv, Tick PROVE BroadcastIndInv'
<1> USE BroadcastAssumption
<1>1. /\ now < Horizon /\ now' = now + 1 /\ now \in Time
      /\ UNCHANGED <<ledger, drafts, turns, passes, channel, gone, delivered>>
      /\ \A p \in Passes : passes[p].pc = "sending" => now - passes[p].since < Patience
  BY DEF Tick, world, history, BroadcastIndInv, BroadcastTypeOK
<1>2. now' \in Time
  BY <1>1 DEF Time
<1>3. BroadcastTypeOK'
  BY <1>1, <1>2 DEF BroadcastIndInv, BroadcastTypeOK
<1>4. NothingFromTheFuture'
  BY <1>1 DEF BroadcastIndInv, BroadcastTypeOK, TurnType, PassType, Time,
     NothingFromTheFuture
<1>5. PassesHold'
  BY <1>1 DEF BroadcastIndInv, BroadcastTypeOK, PassesHold, PassType, Time
<1>6. DraftPart' /\ RowsAreTheTurns' /\ PassesAreOfToday' /\ DailyFollowsDelivery'
  BY <1>1 DEF BroadcastIndInv, DraftPart, TurnsOwnDrafts, TargetsApart, DeliveredIsDone,
     RowsAreTheTurns, PassesAreOfToday, DailyFollowsDelivery, Confirming, AtTarget, InFlight
<1> QED BY <1>3, <1>4, <1>5, <1>6 DEF BroadcastIndInv, DraftPart

LEMMA DeletePostSound ==
  ASSUME BroadcastIndInv, NEW c \in Channels, NEW i \in 1..Len(channel[c]),
         DeletePost(c, i)
  PROVE  BroadcastIndInv'
<1>1. /\ UNCHANGED <<now, ledger, drafts, turns, passes, channel, delivered>>
      /\ gone' = gone \cup {<<c, i>>}
  BY DEF DeletePost, history
<1>2. Len(channel[c]) \in Nat
  BY DEF BroadcastIndInv, BroadcastTypeOK
<1>3. BroadcastTypeOK'
  <2>1. i \in Nat \ {0}
    BY <1>2
  <2>2. gone' \subseteq Channels \X (Nat \ {0})
    BY <1>1, <2>1 DEF BroadcastIndInv, BroadcastTypeOK
  <2> QED BY <1>1, <2>2 DEF BroadcastIndInv, BroadcastTypeOK
<1>4. /\ DraftPart' /\ RowsAreTheTurns' /\ PassesAreOfToday' /\ DailyFollowsDelivery'
      /\ NothingFromTheFuture' /\ PassesHold'
  BY <1>1 DEF BroadcastIndInv, DraftPart, TurnsOwnDrafts, TargetsApart, DeliveredIsDone,
     RowsAreTheTurns, PassesAreOfToday, DailyFollowsDelivery, Confirming, AtTarget,
     InFlight, NothingFromTheFuture, PassesHold
<1> QED BY <1>3, <1>4 DEF BroadcastIndInv, DraftPart

LEMMA CrashSound == ASSUME BroadcastIndInv, Crash PROVE BroadcastIndInv'
<1>1. /\ UNCHANGED <<now, ledger, drafts, channel, gone, delivered>>
      /\ turns' = [h \in Homes |-> NoTurn]
      /\ \A p \in Passes : passes'[p] = IF InFlight(p) THEN [NoPass EXCEPT !.pc = "over"]
                                        ELSE passes[p]
  BY DEF Crash, world, history
<1>2. now \in Time /\ 0 \in Time /\ 0 <= now
  BY BroadcastAssumption DEF BroadcastIndInv, BroadcastTypeOK, Time
<1>3. /\ turns' \in [Homes -> TurnType]
      /\ \A h \in Homes : turns'[h].pc = "idle" /\ turns'[h].at = 0
  <2>1. NoTurn \in TurnType /\ NoTurn.pc = "idle" /\ NoTurn.at = 0
    BY <1>2 DEF NoTurn, TurnType
  <2> QED BY <1>1, <2>1
<1>4. /\ passes' \in [Passes -> PassType]
      /\ \A p \in Passes : /\ passes'[p].pc \in {"idle", "over"}
                           /\ passes'[p].at <= now
  <2>1. /\ [NoPass EXCEPT !.pc = "over"] \in PassType
        /\ [NoPass EXCEPT !.pc = "over"].pc = "over" /\ [NoPass EXCEPT !.pc = "over"].at = 0
    BY <1>2 DEF NoPass, PassType
  <2>2. passes' = [p \in Passes |-> passes'[p]]
    BY DEF Crash
  <2>3. \A p \in Passes : passes'[p] \in PassType
    BY <1>1, <2>1 DEF BroadcastIndInv, BroadcastTypeOK
  <2> QED BY <1>1, <1>2, <2>1, <2>2, <2>3 DEF InFlight, BroadcastIndInv, NothingFromTheFuture
<1>5. BroadcastTypeOK'
  BY <1>1, <1>3, <1>4 DEF BroadcastIndInv, BroadcastTypeOK
<1>6. DraftPart'
  BY <1>1, <1>3 DEF BroadcastIndInv, DraftPart, TurnsOwnDrafts, TargetsApart,
     DeliveredIsDone, Confirming
<1>7. RowsAreTheTurns' /\ PassesAreOfToday' /\ PassesHold' /\ NothingFromTheFuture'
  BY <1>1, <1>2, <1>3, <1>4 DEF RowsAreTheTurns, PassesAreOfToday, AtTarget, InFlight,
     PassesHold, NothingFromTheFuture
<1>8. DailyFollowsDelivery'
  BY <1>1 DEF BroadcastIndInv, DailyFollowsDelivery
<1> QED BY <1>5, <1>6, <1>7, <1>8 DEF BroadcastIndInv, DraftPart

\* What GoTo makes of a pass.
LEMMA GoToType ==
  ASSUME BroadcastIndInv, NEW p \in Passes,
         NEW pc \in {"writing", "over"}, GoTo(p, pc)
  PROVE  \E u \in PassType :
           /\ passes' = [passes EXCEPT ![p] = u]
           /\ u.pc = pc /\ u.at <= now
           /\ pc = "writing" => u.at = passes[p].at /\ u.repost = passes[p].repost
<1> DEFINE over == [NoPass EXCEPT !.pc = pc]
           go == [passes[p] EXCEPT !.pc = pc]
<1>1. over \in PassType /\ over.pc = pc /\ over.at = 0 /\ 0 <= now
  BY Clock DEF NoPass, PassType
<1>2. passes[p] \in PassType /\ passes[p].at <= now
  BY DEF BroadcastIndInv, BroadcastTypeOK, NothingFromTheFuture
<1>3. /\ go \in PassType /\ go.pc = pc /\ go.at = passes[p].at
      /\ go.repost = passes[p].repost
  BY <1>2 DEF PassType
<1>4. CASE pc = "over"
  BY <1>1, <1>4 DEF GoTo
<1>5. CASE pc = "writing"
  BY <1>2, <1>3, <1>5 DEF GoTo
<1> QED BY <1>4, <1>5

LEMMA StartPassSound ==
  ASSUME BroadcastIndInv, NEW p \in Passes, NEW repost \in BOOLEAN, StartPass(p, repost)
  PROVE  BroadcastIndInv'
<1> DEFINE u == [NoPass EXCEPT !.pc = "resolving", !.at = now, !.repost = repost]
<1>1. /\ passes' = [passes EXCEPT ![p] = u]
      /\ UNCHANGED <<now, ledger, drafts, turns, channel, gone, delivered>>
      /\ Today(now)
  BY DEF StartPass, world, history
<1>2. u \in PassType /\ u.pc = "resolving" /\ u.at = now
  BY Clock DEF NoPass, PassType
<1>3. \A q \in Passes : ~Takes(q, ledger, ledger')
  BY <1>1 DEF Takes
<1>4. channel' \in ChannelType /\ delivered' \subseteq DeliveredType
  BY <1>1, Types
<1>5. Sound(ledger')
  BY <1>1, SoundLedger
<1>6. u.at <= now /\ Today(u.at)
  BY <1>1, <1>2, Clock
<1> QED BY <1>1, <1>2, <1>3, <1>4, <1>5, <1>6, PassFrame

\* The reservation of a pass that holds cannot be refused, and it starts over
\* no receipt unless the pass is a repost.
LEMMA ReservePassSound ==
  ASSUME BroadcastIndInv, NEW p \in Passes, ReservePass(p)
  PROVE  BroadcastIndInv'
<1> USE BroadcastAssumption
<1> DEFINE repost == passes[p].repost
           opts == Automatic(repost)
           at == passes[p].at
           refused == Refuses(ledger, Announce, at, opts)
<1>1. /\ ledger' = Reserve(ledger, Announce, p, at, opts)
      /\ GoTo(p, IF refused THEN "over" ELSE "writing")
      /\ passes[p].pc = "resolving"
      /\ UNCHANGED <<now, drafts, turns, channel, gone, delivered>>
  BY DEF ReservePass, world
<1>2. /\ repost \in BOOLEAN /\ at \in Time /\ at <= now /\ Today(at) /\ p \in Tokens
      /\ now \in Time /\ opts.auto /\ opts.repost = repost
      /\ opts \in [auto : BOOLEAN, repost : BOOLEAN]
  BY <1>1, Types, Clock DEF BroadcastIndInv, PassType, NothingFromTheFuture,
     PassesAreOfToday, InFlight, Tokens, Automatic
<1>3. PICK u \in PassType :
        /\ passes' = [passes EXCEPT ![p] = u]
        /\ u.pc = (IF refused THEN "over" ELSE "writing") /\ u.at <= now
        /\ u.pc = "writing" => u.at = at /\ u.repost = repost
  BY <1>1, GoToType
<1>4. /\ Sound(ledger')
      /\ \A x \in Channels \ {Announce} : ledger'.rows[x] = ledger.rows[x]
      /\ ~refused => /\ ledger'.rows[Announce] = [token |-> p, at |-> at, message |-> 0]
                     /\ ledger'.daily = ledger.daily
      /\ refused => ledger'.rows = ledger.rows
      /\ ledger'.daily # ledger.daily => ledger.rows[Announce].message # 0
  BY <1>1, <1>2, SoundLedger, ReserveSound
<1>5. ASSUME NEW q \in Passes \ {p} PROVE ~Takes(q, ledger, ledger')
  <2>1. CASE refused
    BY <1>4, <2>1 DEF Takes
  <2>2. CASE ~refused
    <3>1. passes[q].pc # "sending"
      <4> SUFFICES ASSUME passes[q].pc = "sending" PROVE FALSE
        OBVIOUS
      <4>1. /\ ledger.rows[Announce].token = q
            /\ ledger.rows[Announce].message = 0
            /\ ledger.rows[Announce].at = passes[q].since
            /\ now - passes[q].since <= Patience
        BY DEF BroadcastIndInv, PassesHold
      <4>2. at - ledger.rows[Announce].at < Lease
        <5>1. passes[q].since \in Nat /\ now \in Nat /\ at \in Nat
          BY <1>2 DEF BroadcastIndInv, BroadcastTypeOK, PassType, Time
        <5>2. QED
          BY <1>2, <4>1, <5>1
      <4> QED BY <2>2, <4>1, <4>2 DEF Refuses, LeaseRefuses, Tokens
    <3> QED BY <1>4, <2>2, <3>1 DEF Takes
  <2> QED BY <2>1, <2>2
<1>6. ASSUME ~refused, ~repost PROVE ledger.daily = NoDaily
  BY <1>2, <1>6 DEF Refuses, DailyRefuses, BroadcastIndInv, BroadcastTypeOK, LedgerTypeOK
<1>7. /\ \A c \in Channels : ledger'.rows[c].token \in Drafts => ledger'.rows[c] = ledger.rows[c]
      /\ channel' \in ChannelType /\ delivered' \subseteq DeliveredType
  <2>1. \A c \in Channels : ledger'.rows[c].token \in Drafts => ledger'.rows[c] = ledger.rows[c]
    BY <1>4 DEF Tokens
  <2> QED BY <1>1, <2>1, Types
<1>8. u.pc \notin {"idle", "over"} => Today(u.at)
  BY <1>2, <1>3
<1>9. LET held == ledger'.rows[Announce] IN
      /\ u.pc \in {"writing", "sending"} /\ held.token = p =>
           /\ held.message = 0
           /\ ~u.repost => ledger'.daily = NoDaily
      /\ u.pc # "sending"
  BY <1>3, <1>4, <1>6
<1> QED BY <1>1, <1>3, <1>4, <1>5, <1>7, <1>8, <1>9, PassFrame

LEMMA WrittenSound ==
  ASSUME BroadcastIndInv, NEW p \in Passes, Written(p)
  PROVE  BroadcastIndInv'
<1> USE BroadcastAssumption
<1>1. /\ passes[p].pc = "writing"
      /\ ledger' = Renew(ledger, Announce, p, now)
      /\ UNCHANGED <<now, drafts, turns, channel, gone, delivered>>
      /\ IF Holds(ledger, Announce, p)
         THEN passes' = [passes EXCEPT ![p].pc = "sending", ![p].since = now]
         ELSE GoTo(p, "over")
  BY DEF Written, world, history
<1>2. /\ p \in Tokens /\ now \in Time
      /\ passes[p].at <= now /\ Today(passes[p].at) /\ passes[p] \in PassType
  BY <1>1, Types, Clock DEF BroadcastIndInv, NothingFromTheFuture, PassesAreOfToday,
     InFlight, Tokens
<1>3. /\ Sound(ledger') /\ ledger'.daily = ledger.daily
      /\ \A x \in Channels \ {Announce} : ledger'.rows[x] = ledger.rows[x]
      /\ ~Holds(ledger, Announce, p) => ledger' = ledger
      /\ Holds(ledger, Announce, p) =>
           ledger'.rows[Announce] = [token |-> p, at |-> now, message |-> 0]
  BY <1>1, <1>2, SoundLedger, RenewSound
<1>4. channel' \in ChannelType /\ delivered' \subseteq DeliveredType
  BY <1>1, Types
<1>5. ASSUME NEW q \in Passes \ {p} PROVE ~Takes(q, ledger, ledger')
  <2>1. CASE Holds(ledger, Announce, p)
    <3>1. passes[q].pc # "sending"
      BY <2>1 DEF Holds, BroadcastIndInv, PassesHold
    <3> QED BY <1>3, <2>1, <3>1 DEF Takes
  <2>2. CASE ~Holds(ledger, Announce, p)
    BY <1>3, <2>2 DEF Takes
  <2> QED BY <2>1, <2>2
<1>6. ASSUME NEW c \in Channels, ledger'.rows[c].token \in Drafts
      PROVE  ledger'.rows[c] = ledger.rows[c]
  BY <1>3, <1>6
<1>7. CASE Holds(ledger, Announce, p)
  <2> DEFINE u == [passes[p] EXCEPT !.pc = "sending", !.since = now]
  <2>1. passes' = [passes EXCEPT ![p] = u]
    BY <1>1, <1>7, Types
  <2>2. /\ u \in PassType /\ u.pc = "sending" /\ u.since = now
        /\ u.at = passes[p].at /\ u.repost = passes[p].repost
    BY <1>2 DEF PassType
  <2>3. ~u.repost => ledger'.daily = NoDaily
    BY <1>1, <1>3, <1>7, <2>2 DEF Holds, BroadcastIndInv, PassesHold
  <2>4. now - u.since <= Patience
    BY <2>2, Clock
  <2>5. u.at <= now /\ Today(u.at)
    BY <1>2, <2>2
  <2>6. ledger'.rows[Announce] = [token |-> p, at |-> now, message |-> 0]
    BY <1>3, <1>7
  <2>7. /\ \A x \in delivered' \ delivered : x[1] \in Passes
        /\ \A c \in Channels : ledger'.rows[c].token \in Drafts =>
             /\ ledger'.rows[c].token = ledger.rows[c].token
             /\ ledger'.rows[c].at = ledger.rows[c].at
        /\ UNCHANGED <<now, drafts, turns, gone>>
    BY <1>1, <1>6
  <2>8. LET held == ledger'.rows[Announce] IN
        /\ held.token = p /\ held.message = 0 /\ held.at = u.since
        /\ ~u.repost => ledger'.daily = NoDaily
        /\ now - u.since <= Patience
    BY <2>2, <2>3, <2>4, <2>6
  <2> HIDE DEF u
  <2> QED BY <1>3, <1>4, <1>5, <2>1, <2>2, <2>5, <2>7, <2>8, PassFrame
<1>8. CASE ~Holds(ledger, Announce, p)
  <2>1. PICK u \in PassType : /\ passes' = [passes EXCEPT ![p] = u]
                              /\ u.pc = "over" /\ u.at <= now
    BY <1>1, <1>8, GoToType
  <2> QED BY <1>1, <1>3, <1>4, <1>5, <1>6, <2>1, PassFrame
<1> QED BY <1>7, <1>8

LEMMA AppendTyped ==
  ASSUME NEW S, NEW s \in Seq(S), NEW e \in S
  PROVE  Append(s, e) \in Seq(S) /\ Len(s) \in Nat
OBVIOUS

\* Appending a post keeps the types of the channels.
LEMMA PostType ==
  ASSUME BroadcastIndInv, NEW c \in Channels, NEW token \in Tokens, Post(c, token)
  PROVE  /\ channel' \in ChannelType
         /\ Len(channel[c]) + 1 \in Nat \ {0}
<1> DEFINE P == [by : Tokens \cup {Legacy}, at : Time]
<1>1. channel \in [Channels -> Seq(P)]
  BY Types DEF ChannelType
<1>2. [by |-> token, at |-> now] \in P
  BY Clock
<1>3. channel[c] \in Seq(P)
  BY <1>1
<1>4. Append(channel[c], [by |-> token, at |-> now]) \in Seq(P) /\ Len(channel[c]) \in Nat
  BY <1>2, <1>3, AppendTyped
<1>5. channel' \in [Channels -> Seq(P)]
  <2> DEFINE more == Append(channel[c], [by |-> token, at |-> now])
             S == Seq(P)
  <2>1. channel' = [channel EXCEPT ![c] = more]
    BY DEF Post
  <2>2. channel \in [Channels -> S] /\ more \in S
    BY <1>1, <1>4
  <2> HIDE DEF more, S
  <2>3. channel' \in [Channels -> S]
    BY <2>1, <2>2
  <2> QED BY <2>3 DEF S
<1>6. Len(channel[c]) + 1 \in Nat \ {0}
  <2>1. \A n \in Nat : n + 1 \in Nat \ {0}
    OBVIOUS
  <2> QED BY <1>4, <2>1
<1>7. channel' \in ChannelType
  BY <1>5 DEF ChannelType
<1> QED BY <1>6, <1>7

LEMMA SendPassSound ==
  ASSUME BroadcastIndInv, NEW p \in Passes, SendPass(p)
  PROVE  BroadcastIndInv'
<1> USE BroadcastAssumption
<1> DEFINE n == Len(channel[Announce]) + 1
           u == [passes[p] EXCEPT !.pc = "sweeping", !.message = n]
<1>1. /\ passes[p].pc = "sending" /\ Post(Announce, p) /\ p \in Tokens
      /\ passes' = [passes EXCEPT ![p].pc = "sweeping", ![p].message = n]
      /\ UNCHANGED <<now, ledger, drafts, turns, gone, delivered>>
  BY DEF SendPass, history, Tokens
<1>2. channel' \in ChannelType /\ n \in Nat
  BY <1>1, PostType
<1>3. passes' = [passes EXCEPT ![p] = u]
  BY <1>1, Types
<1>4. /\ u \in PassType /\ u.pc = "sweeping" /\ u.at = passes[p].at
  BY <1>2, Types DEF PassType
<1>5. u.at <= now /\ Today(u.at)
  BY <1>1, <1>4 DEF BroadcastIndInv, NothingFromTheFuture, PassesAreOfToday, InFlight
<1>6. Sound(ledger') /\ delivered' \subseteq DeliveredType
  BY <1>1, SoundLedger, Types
<1>7. \A q \in Passes : ~Takes(q, ledger, ledger')
  BY <1>1 DEF Takes
<1> HIDE DEF u
<1> QED BY <1>1, <1>2, <1>3, <1>4, <1>5, <1>6, <1>7, PassFrame

LEMMA PassPostedSound ==
  ASSUME BroadcastIndInv, NEW p \in Passes, PassPosted(p)
  PROVE  BroadcastIndInv'
<1> USE BroadcastAssumption
<1> DEFINE m == passes[p].message
           at == passes[p].at
<1>1. /\ passes[p].pc = "sweeping" /\ GoTo(p, "over") /\ p \in Tokens
      /\ ledger' = Finish(ledger, Announce, p, m, at)
      /\ delivered' = delivered \cup {<<p, Announce, m>>}
      /\ UNCHANGED <<now, drafts, turns, channel, gone>>
  BY DEF PassPosted, world, Tokens
<1>2. m \in Nat /\ at \in Time /\ Today(at)
  BY <1>1, Types DEF PassType, BroadcastIndInv, PassesAreOfToday, InFlight
<1>3. /\ Sound(ledger')
      /\ \A x \in Channels : ledger'.rows[x].token = ledger.rows[x].token
                             /\ ledger'.rows[x].at = ledger.rows[x].at
      /\ \A x \in Channels : ledger'.rows[x] # ledger.rows[x] =>
           x = Announce /\ ledger.rows[Announce].token = p
      /\ ledger'.daily # ledger.daily => ledger.rows[Announce].token = p
  BY <1>1, <1>2, SoundLedger, FinishSound
<1>4. PICK u \in PassType : /\ passes' = [passes EXCEPT ![p] = u]
                            /\ u.pc = "over" /\ u.at <= now
  BY <1>1, GoToType
<1>5. channel' \in ChannelType /\ delivered' \subseteq DeliveredType
  BY <1>1, <1>2, Types DEF DeliveredType
<1>6. ASSUME NEW q \in Passes \ {p} PROVE ~Takes(q, ledger, ledger')
  <2>1. passes[q].pc = "sending" => ledger.rows[Announce].token = q
    BY DEF BroadcastIndInv, PassesHold
  <2> QED BY <1>3, <2>1 DEF Takes
<1>7. \A x \in delivered' \ delivered : x[1] \in Passes
  BY <1>1
<1> QED BY <1>1, <1>3, <1>4, <1>5, <1>6, <1>7, PassFrame

LEMMA PassFailedSound ==
  ASSUME BroadcastIndInv, NEW p \in Passes, PassFailed(p)
  PROVE  BroadcastIndInv'
<1>1. /\ GoTo(p, "over")
      /\ UNCHANGED <<now, ledger, drafts, turns, channel, gone, delivered>>
  BY DEF PassFailed, world, history
<1>2. PICK u \in PassType : /\ passes' = [passes EXCEPT ![p] = u]
                            /\ u.pc = "over" /\ u.at <= now
  BY <1>1, GoToType
<1>3. /\ Sound(ledger') /\ channel' \in ChannelType /\ delivered' \subseteq DeliveredType
  BY <1>1, SoundLedger, Types
<1>4. \A q \in Passes : ~Takes(q, ledger, ledger')
  BY <1>1 DEF Takes
<1> QED BY <1>1, <1>2, <1>3, <1>4, PassFrame

-----------------------------------------------------------------------------
(* The turns.                                                              *)

LEMMA NothingTaken ==
  ASSUME UNCHANGED ledger PROVE \A q \in Passes : ~Takes(q, ledger, ledger')
BY DEF Takes

LEMMA TurnFacts ==
  ASSUME BroadcastIndInv, NEW h \in Homes
  PROVE  /\ turns[h] \in TurnType /\ turns[h].at <= now /\ turns[h].at \in Time
         /\ Confirming(h) =>
              /\ turns[h].draft \in Drafts
              /\ drafts[turns[h].draft].state = "spent"
              /\ drafts[turns[h].draft].home = h
              /\ Apart(turns[h])
<1>1. turns[h] \in TurnType
  BY Types
<1>2. turns[h].at <= now /\ turns[h].at \in Time
  BY <1>1 DEF BroadcastIndInv, NothingFromTheFuture, TurnType
<1> QED BY <1>1, <1>2 DEF BroadcastIndInv, TurnsOwnDrafts, TargetsApart

LEMMA StartTurnSound ==
  ASSUME BroadcastIndInv, NEW h \in Homes, StartTurn(h)
  PROVE  BroadcastIndInv'
<1> DEFINE t == [NoTurn EXCEPT !.pc = "thinking", !.at = now]
<1>1. /\ turns' = [turns EXCEPT ![h] = t]
      /\ UNCHANGED <<now, ledger, drafts, passes, channel, gone, delivered>>
  BY DEF StartTurn, world, history
<1>2. t \in TurnType /\ t.pc = "thinking" /\ t.at = now
  BY Clock DEF NoTurn, TurnType
<1> HIDE DEF t
<1>3. DraftPart'
  BY <1>1, <1>2, DraftsKept
<1>4. now <= now
  BY Clock
<1> QED BY <1>1, <1>2, <1>3, <1>4, SoundLedger, NothingTaken, Types, TurnFrame

LEMMA EndTurnSound ==
  ASSUME BroadcastIndInv, NEW h \in Homes, EndTurn(h)
  PROVE  BroadcastIndInv'
<1>1. /\ turns' = [turns EXCEPT ![h] = NoTurn]
      /\ UNCHANGED <<now, ledger, drafts, passes, channel, gone, delivered>>
  BY DEF EndTurn, world, history
<1>2. NoTurn \in TurnType /\ NoTurn.pc = "idle" /\ NoTurn.at <= now
  BY Clock DEF NoTurn, TurnType
<1>3. DraftPart'
  BY <1>1, <1>2, DraftsKept
<1> QED BY <1>1, <1>2, <1>3, SoundLedger, NothingTaken, Types, TurnFrame

\* A new draft has not been delivered anywhere, and no turn works it off.
LEMMA SaveDraftSound ==
  ASSUME BroadcastIndInv, NEW h \in Homes, NEW d \in Drafts, SaveDraft(h, d)
  PROVE  BroadcastIndInv'
<1> DEFINE e == [state |-> "parked", home |-> h, targets |-> Targets[d], at |-> turns[h].at]
<1>1. /\ drafts[d].state = "none" /\ drafts' = [drafts EXCEPT ![d] = e]
      /\ UNCHANGED <<now, ledger, turns, passes, channel, gone, delivered>>
  BY DEF SaveDraft, world, history
<1>2. e \in DraftType /\ drafts \in [Drafts -> DraftType]
  BY Types, TurnFacts, BroadcastAssumption DEF DraftType
<1>3. drafts' \in [Drafts -> DraftType] /\ \A x \in Drafts \ {d} : drafts'[x] = drafts[x]
  <2> HIDE DEF e
  <2> QED BY <1>1, <1>2
<1>4. DraftPart'
  <2>1. TurnsOwnDrafts' /\ TargetsApart'
    BY <1>1, <1>3 DEF BroadcastIndInv, TurnsOwnDrafts, TargetsApart, Confirming
  <2>2. DeliveredIsDone'
    BY <1>1, <1>3 DEF BroadcastIndInv, DeliveredIsDone, Confirming
  <2> QED BY <2>1, <2>2 DEF DraftPart
<1>5. turns' = [turns EXCEPT ![h] = turns[h]]
  BY <1>1, Types
<1>6. turns[h].pc \in {"sending", "answering"} =>
        LET held == ledger'.rows[turns[h].target] IN
        held.token = turns[h].draft => held.at = turns[h].at
  BY <1>1 DEF BroadcastIndInv, RowsAreTheTurns, AtTarget
<1> QED BY <1>1, <1>3, <1>4, <1>5, <1>6, SoundLedger, NothingTaken, Types, TurnFacts, TurnFrame

\* The draft that a turn takes is nobody else's.
LEMMA SpendDraftSound ==
  ASSUME BroadcastIndInv, NEW h \in Homes, NEW d \in Drafts, SpendDraft(h, d)
  PROVE  BroadcastIndInv'
<1> DEFINE t == [turns[h] EXCEPT !.pc = "next", !.draft = d,
                                !.todo = drafts[d].targets, !.failed = {}]
           e == [drafts[d] EXCEPT !.state = "spent"]
<1>1. /\ drafts[d].state = "parked" /\ drafts[d].home = h
      /\ UNCHANGED <<now, ledger, passes, channel, gone, delivered>>
      /\ drafts' = [drafts EXCEPT ![d].state = "spent"]
      /\ turns' = [turns EXCEPT ![h].pc = "next", ![h].draft = d,
                                ![h].todo = drafts[d].targets, ![h].failed = {}]
  BY DEF SpendDraft, world, history
<1>2. /\ e \in DraftType /\ e.state = "spent" /\ e.home = h
      /\ drafts \in [Drafts -> DraftType] /\ drafts[d].targets \subseteq Channels
  BY <1>1, Types DEF DraftType
<1>3. /\ t \in TurnType /\ t.pc = "next" /\ t.draft = d /\ t.failed = {}
      /\ t.todo = drafts[d].targets /\ t.at = turns[h].at
  <2>1. turns[h] \in TurnType /\ {} \in SUBSET Channels /\ d \in Drafts \cup {None}
    BY TurnFacts
  <2> QED BY <1>2, <2>1 DEF TurnType
<1>4. turns' = [turns EXCEPT ![h] = t] /\ drafts' = [drafts EXCEPT ![d] = e]
  BY <1>1, Types
<1> HIDE DEF t, e
<1>5. /\ drafts' \in [Drafts -> DraftType]
      /\ \A x \in Drafts : drafts'[x] = IF x = d THEN e ELSE drafts[x]
      /\ \A g \in Homes : turns'[g] = IF g = h THEN t ELSE turns[g]
  BY <1>2, <1>4, Types
<1>6. ASSUME NEW g \in Homes \ {h}, Confirming(g) PROVE turns[g].draft # d
  BY <1>1, <1>6, TurnFacts
<1>7. TurnsOwnDrafts'
  BY <1>2, <1>3, <1>5, <1>6, TurnFacts DEF TurnsOwnDrafts, Confirming
<1>8. TargetsApart'
  BY <1>3, <1>5, TurnFacts DEF TargetsApart, Confirming, Apart
<1>9. DeliveredIsDone'
  <2> SUFFICES ASSUME NEW x \in delivered, x[1] \in Drafts
      PROVE /\ drafts'[x[1]].state # "none"
            /\ drafts'[x[1]].state = "parked" => x[2] \notin drafts'[x[1]].targets
            /\ \A g \in Homes : Confirming(g)' /\ turns'[g].draft = x[1]
                 => x[2] \notin Pending(turns'[g])
    BY <1>1 DEF DeliveredIsDone
  <2>1. /\ drafts[x[1]].state # "none"
        /\ drafts[x[1]].state = "parked" => x[2] \notin drafts[x[1]].targets
        /\ \A g \in Homes : Confirming(g) /\ turns[g].draft = x[1]
                 => x[2] \notin Pending(turns[g])
    BY DEF BroadcastIndInv, DeliveredIsDone
  <2>2. x[1] = d => x[2] \notin Pending(t)
    BY <1>1, <1>3, <2>1 DEF Pending
  <2>3. /\ drafts'[x[1]].state # "none"
        /\ drafts'[x[1]].state = "parked" => x[2] \notin drafts'[x[1]].targets
    BY <1>2, <1>5, <2>1
  <2> QED BY <1>3, <1>5, <2>1, <2>2, <2>3 DEF Confirming
<1>10. DraftPart'
  BY <1>7, <1>8, <1>9 DEF DraftPart
<1>11. /\ UNCHANGED <<now, ledger, passes, gone>> /\ Sound(ledger') /\ t.at <= now
       /\ channel' \in ChannelType /\ delivered' \subseteq DeliveredType
  BY <1>1, <1>3, SoundLedger, Types, TurnFacts
<1> QED BY <1>3, <1>4, <1>5, <1>10, <1>11, NothingTaken, TurnFrame

\* The ledger from which a reservation is made: as it was, or without the
\* receipt that the sender gave up.
Lightened(L) ==
  /\ Sound(L)
  /\ \A x \in Channels : L.rows[x] = ledger.rows[x] \/ L.rows[x] = NoRow
  /\ ledger.rows[Announce].token # None /\ ledger.rows[Announce].message = 0
       => L.daily = ledger.daily /\ L.rows[Announce] = ledger.rows[Announce]

\* A reservation takes its channel off the list, and a failure puts it with the
\* failed ones; the row is the turn's, or it was there before.
LEMMA ReserveOnSound ==
  ASSUME BroadcastIndInv, NEW h \in Homes, NEW c \in Channels, NEW L,
         Confirming(h), c \in turns[h].todo, Lightened(L), ReserveOn(h, c, L),
         UNCHANGED <<now, drafts, passes, channel, gone, delivered>>
  PROVE  BroadcastIndInv'
<1> USE BroadcastAssumption
<1> DEFINE t == turns[h]
           refused == Refuses(L, c, t.at, Requested)
           receipt == Receipt(L, c, t.at, Requested)
           u == [t EXCEPT !.pc = IF refused THEN "next" ELSE "sending",
                          !.todo = @ \ {c}, !.tried = @ \cup {c},
                          !.target = IF refused THEN None ELSE c, !.message = 0,
                          !.failed = IF refused /\ receipt = 0 THEN @ \cup {c} ELSE @]
<1>1. /\ ledger' = Reserve(L, c, t.draft, t.at, Requested)
      /\ turns' = [turns EXCEPT ![h] = u]
  BY DEF ReserveOn
<1>2. /\ t \in TurnType /\ t.at <= now /\ t.at \in Time /\ Apart(t)
      /\ t.draft \in Drafts /\ drafts[t.draft].home = h /\ t.draft \in Tokens
  BY TurnFacts DEF Tokens
<1>3. /\ u \in TurnType /\ u.at = t.at /\ u.draft = t.draft
      /\ u.pc = (IF refused THEN "next" ELSE "sending")
      /\ u.todo = t.todo \ {c} /\ u.target = (IF refused THEN None ELSE c)
      /\ u.failed \subseteq t.failed \cup {c}
      /\ ~refused => u.failed = t.failed
  BY <1>2 DEF TurnType
<1> HIDE DEF u
<1>4. DraftPart'
  <2>1. Pending(u) \subseteq Pending(t)
    BY <1>3 DEF Pending
  <2>2. Apart(u)
    BY <1>2, <1>3 DEF Apart
  <2> QED BY <1>1, <1>3, <2>1, <2>2, DraftsKept
<1>5. /\ Sound(ledger')
      /\ \A x \in Channels \ {c} : ledger'.rows[x] = L.rows[x]
      /\ ~refused => ledger'.rows[c] = [token |-> t.draft, at |-> t.at, message |-> 0]
      /\ refused => ledger'.rows = L.rows
      /\ ledger'.daily # L.daily => L.rows[Announce].message # 0
  <2>1. /\ Requested \in [auto : BOOLEAN, repost : BOOLEAN]
        /\ Requested.auto => c = Announce
    BY DEF Requested
  <2> QED BY <1>1, <1>2, <2>1, ReserveSound DEF Lightened
<1>6. ASSUME NEW x \in Channels, ledger'.rows[x].token \in Drafts
      PROVE  \/ ledger'.rows[x] = ledger.rows[x]
             \/ drafts[ledger'.rows[x].token].home = h
  BY <1>2, <1>5, <1>6 DEF Lightened, NoRow, Tokens
<1>7. ASSUME NEW q \in Passes PROVE ~Takes(q, ledger, ledger')
  <2> DEFINE old == ledger.rows[Announce]
             new == ledger'.rows[Announce]
  <2>1. new.token = q => new = old
    BY <1>2, <1>5 DEF Lightened, NoRow, Tokens
  <2>2. old.token = q /\ old.message = 0 => ledger'.daily = ledger.daily
    BY <1>5 DEF Lightened, Tokens
  <2>3. passes[q].pc = "sending" => new = old
    <3> SUFFICES ASSUME passes[q].pc = "sending" PROVE new = old
      OBVIOUS
    <3>1. old.token = q /\ old.message = 0 /\ now - old.at <= Patience
      BY DEF BroadcastIndInv, PassesHold
    <3>2. L.rows[Announce] = old
      BY <3>1 DEF Lightened, Tokens
    <3>3. CASE c # Announce
      BY <1>5, <3>2, <3>3
    <3>4. CASE c = Announce
      <4>1. old.at \in Nat /\ t.at \in Nat /\ t.at <= now
        BY <1>2, SoundLedger, LedgerParts DEF Sound, RowType, Time
      <4>2. t.at - old.at < Lease
        BY <3>1, <4>1, Clock
      <4>3. refused
        BY <3>1, <3>2, <3>4, <4>2 DEF Refuses, LeaseRefuses, Tokens
      <4> QED BY <1>5, <3>2, <4>3
    <3> QED BY <3>3, <3>4
  <2> QED BY <2>1, <2>2, <2>3 DEF Takes
<1>8. u.pc \in {"sending", "answering"} =>
        LET held == ledger'.rows[u.target] IN held.token = u.draft => held.at = u.at
  BY <1>3, <1>5
<1>9. /\ channel' \in ChannelType /\ delivered' \subseteq DeliveredType
      /\ drafts' \in [Drafts -> DraftType] /\ u.at <= now
  BY <1>2, <1>3, Types
<1> QED BY <1>1, <1>3, <1>4, <1>5, <1>6, <1>7, <1>8, <1>9, TurnFrame

LEMMA LedgerIsLight == BroadcastIndInv => Lightened(ledger)
BY SoundLedger DEF Lightened

LEMMA ForgottenIsLight ==
  ASSUME BroadcastIndInv, NEW c \in Channels, NEW m \in Nat \ {0}
  PROVE  Lightened(Forget(ledger, c, m))
BY SoundLedger, ForgetSound DEF Lightened

LEMMA ReceiptType ==
  ASSUME BroadcastIndInv, NEW c \in Channels, NEW at, NEW opts
  PROVE  Receipt(ledger, c, at, opts) \in Nat
BY SoundLedger, LedgerParts DEF Sound, Receipt, RowType, DailyType

LEMMA NextTargetSound ==
  ASSUME BroadcastIndInv, NEW h \in Homes, NEW c \in Channels, NextTarget(h, c)
  PROVE  BroadcastIndInv'
<1> DEFINE t == turns[h]
           receipt == Receipt(ledger, c, t.at, Requested)
           met == /\ Refuses(ledger, c, t.at, Requested)
                  /\ receipt # 0 /\ c \notin t.tried
           u == [t EXCEPT !.pc = "checking", !.target = c, !.tried = @ \cup {c},
                          !.message = receipt]
<1>1. /\ t.pc = "next" /\ c \in t.todo /\ Confirming(h)
      /\ UNCHANGED <<now, drafts, passes, channel, gone, delivered>>
      /\ \/ ReserveOn(h, c, ledger)
         \/ met /\ ReserveOn(h, c, Forget(ledger, c, receipt))
         \/ met /\ turns' = [turns EXCEPT ![h] = u] /\ UNCHANGED ledger
  BY DEF NextTarget, world, Confirming
<1>2. receipt \in Nat
  BY ReceiptType
<1>3. CASE ReserveOn(h, c, ledger)
  BY <1>1, <1>3, LedgerIsLight, ReserveOnSound
<1>4. CASE met /\ ReserveOn(h, c, Forget(ledger, c, receipt))
  <2>1. Lightened(Forget(ledger, c, receipt))
    BY <1>2, <1>4, ForgottenIsLight
  <2> QED BY <1>1, <1>4, <2>1, ReserveOnSound
<1>5. CASE met /\ turns' = [turns EXCEPT ![h] = u] /\ UNCHANGED ledger
  <2>1. /\ u \in TurnType /\ u.pc = "checking" /\ u.target = c /\ u.message = receipt
        /\ u.at = t.at /\ u.draft = t.draft /\ u.todo = t.todo /\ u.failed = t.failed
    <3>1. t \in TurnType
      BY TurnFacts
    <3> HIDE DEF receipt
    <3> QED BY <1>2, <3>1 DEF TurnType
  <2> HIDE DEF u
  <2>2. Pending(u) \subseteq Pending(t) /\ Apart(u)
    BY <1>1, <1>5, <2>1, TurnFacts DEF Pending, Apart
  <2>3. DraftPart'
    BY <1>1, <1>5, <2>1, <2>2, DraftsKept
  <2>4. u.at <= now
    BY <2>1, TurnFacts
  <2>5. /\ Sound(ledger') /\ channel' \in ChannelType /\ delivered' \subseteq DeliveredType
        /\ drafts' \in [Drafts -> DraftType]
    BY <1>1, <1>5, SoundLedger, Types
  <2> QED BY <1>1, <1>5, <2>1, <2>3, <2>4, <2>5, NothingTaken, TurnFrame
<1> QED BY <1>1, <1>3, <1>4, <1>5

LEMMA ReceiptCheckedSound ==
  ASSUME BroadcastIndInv, NEW h \in Homes, ReceiptChecked(h)
  PROVE  BroadcastIndInv'
<1> DEFINE t == turns[h]
<1>1. /\ t.pc = "checking" /\ Confirming(h)
      /\ UNCHANGED <<now, drafts, passes, channel, gone, delivered>>
      /\ \/ ReserveOn(h, t.target, Forget(ledger, t.target, t.message))
         \/ ReserveOn(h, t.target, ledger)
  BY DEF ReceiptChecked, world, Confirming
<1>2. t.target \in t.todo /\ t.target \in Channels /\ t.message \in Nat \ {0}
  BY <1>1, TurnFacts DEF Apart, TurnType
<1>3. Lightened(Forget(ledger, t.target, t.message)) /\ Lightened(ledger)
  BY <1>2, ForgottenIsLight, LedgerIsLight
<1> QED BY <1>1, <1>2, <1>3, ReserveOnSound

LEMMA SendDraftSound ==
  ASSUME BroadcastIndInv, NEW h \in Homes, SendDraft(h)
  PROVE  BroadcastIndInv'
<1> DEFINE t == turns[h]
           n == Len(channel[t.target]) + 1
           u == [t EXCEPT !.pc = "answering", !.message = n]
<1>1. /\ t.pc = "sending" /\ Confirming(h) /\ Post(t.target, t.draft)
      /\ turns' = [turns EXCEPT ![h].pc = "answering", ![h].message = n]
      /\ UNCHANGED <<now, ledger, drafts, passes, gone, delivered>>
  BY DEF SendDraft, history, Confirming
<1>2. t \in TurnType /\ t.at <= now /\ Apart(t) /\ t.draft \in Tokens /\ t.target \in Channels
  BY <1>1, TurnFacts DEF Apart, Tokens
<1>3. channel' \in ChannelType /\ n \in Nat
  BY <1>1, <1>2, PostType
<1>4. /\ u \in TurnType /\ u.pc = "answering" /\ u.target = t.target
      /\ u.at = t.at /\ u.draft = t.draft /\ u.todo = t.todo /\ u.failed = t.failed
  <2> HIDE DEF n
  <2> QED BY <1>2, <1>3 DEF TurnType
<1>5. turns' = [turns EXCEPT ![h] = u]
  BY <1>1, Types
<1> HIDE DEF u
<1>6. Pending(u) \subseteq Pending(t) /\ Apart(u)
  BY <1>1, <1>2, <1>4 DEF Pending, Apart
<1>7. DraftPart'
  BY <1>1, <1>4, <1>5, <1>6, DraftsKept
<1>8. LET held == ledger'.rows[u.target] IN held.token = u.draft => held.at = u.at
  BY <1>1, <1>4 DEF BroadcastIndInv, RowsAreTheTurns, AtTarget
<1>9. /\ Sound(ledger') /\ delivered' \subseteq DeliveredType
      /\ drafts' \in [Drafts -> DraftType] /\ u.at <= now
  BY <1>1, <1>2, <1>4, SoundLedger, Types
<1> QED BY <1>1, <1>3, <1>4, <1>5, <1>7, <1>8, <1>9, NothingTaken, TurnFrame

\* After an answer the turn goes on with the channels that are left.
LEMMA GoOnSound ==
  ASSUME BroadcastIndInv, NEW h \in Homes, AtTarget(h),
         NEW failed \in SUBSET {turns[h].target}, GoOn(h, failed),
         delivered' \subseteq DeliveredType, Sound(ledger'),
         \A x \in delivered' \ delivered :
           /\ x[1] = turns[h].draft /\ x[2] = turns[h].target /\ failed = {},
         \A c \in Channels : ledger'.rows[c].token \in Drafts =>
           /\ ledger'.rows[c].token = ledger.rows[c].token
           /\ ledger'.rows[c].at = ledger.rows[c].at,
         \A q \in Passes : ~Takes(q, ledger, ledger')
  PROVE  BroadcastIndInv'
<1> DEFINE t == turns[h]
           u == [t EXCEPT !.pc = "next", !.failed = @ \cup failed, !.target = None,
                          !.message = 0]
<1>1. /\ turns' = [turns EXCEPT ![h].pc = "next", ![h].failed = @ \cup failed,
                                ![h].target = None, ![h].message = 0]
      /\ UNCHANGED <<now, drafts, passes, channel, gone>>
  BY DEF GoOn, world
<1>2. /\ t \in TurnType /\ t.at <= now /\ Confirming(h) /\ Apart(t)
      /\ t.target \in Channels \ (t.todo \cup t.failed)
  BY TurnFacts DEF Apart, AtTarget, Confirming
<1>3. /\ u \in TurnType /\ u.pc = "next" /\ u.at = t.at /\ u.draft = t.draft
      /\ u.todo = t.todo /\ u.failed = t.failed \cup failed
  BY <1>2 DEF TurnType
<1>4. turns' = [turns EXCEPT ![h] = u]
  BY <1>1, Types
<1> HIDE DEF u
<1>5. Pending(u) \subseteq Pending(t) /\ Apart(u)
  BY <1>2, <1>3 DEF Pending, Apart, AtTarget
<1>6. ASSUME NEW x \in delivered' \ delivered
      PROVE  Confirming(h) /\ x[1] = t.draft /\ x[2] \notin Pending(u)
  BY <1>2, <1>3 DEF Pending
<1>7. DraftPart'
  BY <1>1, <1>2, <1>3, <1>4, <1>5, <1>6, DraftsKept
<1>8. channel' \in ChannelType /\ drafts' \in [Drafts -> DraftType] /\ u.at <= now
  BY <1>1, <1>2, <1>3, Types
<1> QED BY <1>1, <1>3, <1>4, <1>7, <1>8, TurnFrame

LEMMA DraftPostedSound ==
  ASSUME BroadcastIndInv, NEW h \in Homes, DraftPosted(h)
  PROVE  BroadcastIndInv'
<1> USE BroadcastAssumption
<1> DEFINE t == turns[h]
<1>1. /\ AtTarget(h) /\ Confirming(h) /\ GoOn(h, {})
      /\ ledger' = Finish(ledger, t.target, t.draft, t.message, t.at)
      /\ delivered' = delivered \cup {<<t.draft, t.target, t.message>>}
  BY DEF DraftPosted, AtTarget, Confirming
<1>2. /\ t \in TurnType /\ t.draft \in Drafts /\ t.draft \in Tokens
      /\ t.target \in Channels /\ t.message \in Nat /\ t.at \in Time
  BY <1>1, TurnFacts DEF Apart, AtTarget, Tokens, TurnType
<1>3. ledger.rows[t.target].token = t.draft => ledger.rows[t.target].at = t.at
  BY <1>1 DEF BroadcastIndInv, RowsAreTheTurns
<1>4. /\ Sound(ledger')
      /\ \A x \in Channels : ledger'.rows[x].token = ledger.rows[x].token
                             /\ ledger'.rows[x].at = ledger.rows[x].at
      /\ \A x \in Channels : ledger'.rows[x] # ledger.rows[x] =>
           x = t.target /\ ledger.rows[t.target].token = t.draft
      /\ ledger'.daily # ledger.daily =>
           t.target = Announce /\ ledger.rows[t.target].token = t.draft
  BY <1>1, <1>2, <1>3, SoundLedger, FinishSound
<1>5. ASSUME NEW q \in Passes PROVE ~Takes(q, ledger, ledger')
  <2>1. passes[q].pc = "sending" => ledger.rows[Announce].token = q
    BY DEF BroadcastIndInv, PassesHold
  <2> QED BY <1>2, <1>4, <2>1 DEF Takes
<1>6. delivered' \subseteq DeliveredType
  BY <1>1, <1>2, Types DEF DeliveredType
<1>7. ASSUME NEW x \in delivered' \ delivered
      PROVE  x[1] = t.draft /\ x[2] = t.target
  BY <1>1
<1> QED BY <1>1, <1>4, <1>5, <1>6, <1>7, GoOnSound

LEMMA DraftNotSentSound ==
  ASSUME BroadcastIndInv, NEW h \in Homes, DraftNotSent(h)
  PROVE  BroadcastIndInv'
<1> USE BroadcastAssumption
<1> DEFINE t == turns[h]
<1>1. /\ AtTarget(h) /\ Confirming(h) /\ GoOn(h, {t.target})
      /\ ledger' = Release(ledger, t.target, t.draft) /\ UNCHANGED delivered
  BY DEF DraftNotSent, AtTarget, Confirming
<1>2. t.draft \in Drafts /\ t.draft \in Tokens /\ t.target \in Channels
  BY <1>1, TurnFacts DEF Apart, AtTarget, Tokens
<1>3. /\ Sound(ledger') /\ ledger'.daily = ledger.daily
      /\ \A x \in Channels : \/ ledger'.rows[x] = ledger.rows[x]
                             \/ ledger.rows[x].token = t.draft /\ ledger'.rows[x] = NoRow
  <2> DEFINE M == Release(ledger, t.target, t.draft)
  <2>1. Sound(ledger)
    BY SoundLedger
  <2>2. /\ Sound(M) /\ M.daily = ledger.daily
        /\ \A x \in Channels :
             \/ M.rows[x] = ledger.rows[x]
             \/ x = t.target /\ ledger.rows[x].token = t.draft /\ M.rows[x] = NoRow
    <3>1. ASSUME NEW c \in Channels, NEW token \in Tokens
          PROVE  LET N == Release(ledger, c, token) IN
                 /\ Sound(N) /\ N.daily = ledger.daily
                 /\ \A x \in Channels :
                      \/ N.rows[x] = ledger.rows[x]
                      \/ x = c /\ ledger.rows[x].token = token /\ N.rows[x] = NoRow
      BY <2>1, ReleaseSound
    <3>2. t.target \in Channels /\ t.draft \in Tokens
      BY <1>2
    <3> HIDE DEF t
    <3> QED BY <3>1, <3>2
  <2>3. ledger' = M
    BY <1>1
  <2> HIDE DEF M
  <2> QED BY <2>2, <2>3
<1>4. ASSUME NEW q \in Passes PROVE ~Takes(q, ledger, ledger')
  <2>1. passes[q].pc = "sending" => ledger.rows[Announce].token = q
    BY DEF BroadcastIndInv, PassesHold
  <2> QED BY <1>2, <1>3, <2>1 DEF Takes, NoRow, Tokens
<1>5. ASSUME NEW c \in Channels, ledger'.rows[c].token \in Drafts
      PROVE  ledger'.rows[c] = ledger.rows[c]
  BY <1>3, <1>5 DEF NoRow, Tokens
<1> QED BY <1>1, <1>3, <1>4, <1>5, Types, GoOnSound

LEMMA DraftUnconfirmedSound ==
  ASSUME BroadcastIndInv, NEW h \in Homes, DraftUnconfirmed(h)
  PROVE  BroadcastIndInv'
<1>1. /\ AtTarget(h) /\ GoOn(h, {turns[h].target}) /\ UNCHANGED <<ledger, delivered>>
  BY DEF DraftUnconfirmed, AtTarget
<1> QED BY <1>1, SoundLedger, NothingTaken, Types, GoOnSound

\* What remains of the draft is what failed: nothing of that was delivered.
LEMMA DraftDoneSound ==
  ASSUME BroadcastIndInv, NEW h \in Homes, DraftDone(h)
  PROVE  BroadcastIndInv'
<1> DEFINE t == turns[h]
           d == t.draft
           u == [t EXCEPT !.pc = "thinking", !.draft = None, !.failed = {}]
           e == IF t.failed = {} THEN drafts[d]
                ELSE [drafts[d] EXCEPT !.state = "parked", !.targets = t.failed]
<1>1. /\ Confirming(h) /\ drafts' = [drafts EXCEPT ![d] = e]
      /\ turns' = [turns EXCEPT ![h].pc = "thinking", ![h].draft = None, ![h].failed = {}]
      /\ UNCHANGED <<now, ledger, passes, channel, gone, delivered>>
  BY Types, TurnFacts DEF DraftDone, Confirming, world, history, Retryable
<1>2. /\ t \in TurnType /\ d \in Drafts /\ drafts[d] \in DraftType
      /\ drafts[d].state = "spent" /\ drafts[d].home = h /\ t.at <= now
  BY <1>1, TurnFacts, Types
<1>3. u \in TurnType /\ u.pc = "thinking" /\ u.at = t.at
  <2>1. {} \in SUBSET Channels
    OBVIOUS
  <2> QED BY <1>2, <2>1 DEF TurnType
<1>4. /\ e \in DraftType /\ e.state \in {"spent", "parked"} /\ e.home = h
      /\ e.state = "parked" => e.targets = t.failed
  <2>1. t.failed \in SUBSET Channels
    BY <1>2 DEF TurnType
  <2> QED BY <1>2, <2>1 DEF DraftType
<1>5. turns' = [turns EXCEPT ![h] = u]
  BY <1>1, Types
<1> HIDE DEF u, e
<1>6. /\ drafts' \in [Drafts -> DraftType]
      /\ \A x \in Drafts : drafts'[x] = IF x = d THEN e ELSE drafts[x]
      /\ \A g \in Homes : turns'[g] = IF g = h THEN u ELSE turns[g]
  BY <1>1, <1>2, <1>4, <1>5, Types
<1>7. ASSUME NEW g \in Homes, Confirming(g)'
      PROVE  g # h /\ Confirming(g) /\ turns'[g] = turns[g] /\ turns[g].draft # d
  <2>1. g # h /\ turns'[g] = turns[g] /\ Confirming(g)
    BY <1>3, <1>6, <1>7 DEF Confirming
  <2> QED BY <1>2, <2>1, TurnFacts
<1>8. TurnsOwnDrafts' /\ TargetsApart'
  BY <1>6, <1>7, TurnFacts DEF TurnsOwnDrafts, TargetsApart
<1>9. DeliveredIsDone'
  <2> SUFFICES ASSUME NEW x \in delivered, x[1] \in Drafts
      PROVE /\ drafts'[x[1]].state # "none"
            /\ drafts'[x[1]].state = "parked" => x[2] \notin drafts'[x[1]].targets
            /\ \A g \in Homes : Confirming(g)' /\ turns'[g].draft = x[1]
                 => x[2] \notin Pending(turns'[g])
    BY <1>1 DEF DeliveredIsDone
  <2>1. /\ drafts[x[1]].state # "none"
        /\ drafts[x[1]].state = "parked" => x[2] \notin drafts[x[1]].targets
        /\ \A g \in Homes : Confirming(g) /\ turns[g].draft = x[1]
                 => x[2] \notin Pending(turns[g])
    BY DEF BroadcastIndInv, DeliveredIsDone
  <2>2. x[1] = d => x[2] \notin t.failed
    BY <1>1, <2>1 DEF Pending
  <2>3. /\ drafts'[x[1]].state # "none"
        /\ drafts'[x[1]].state = "parked" => x[2] \notin drafts'[x[1]].targets
    BY <1>4, <1>6, <2>1, <2>2
  <2> QED BY <1>7, <2>1, <2>3
<1>10. DraftPart'
  BY <1>8, <1>9 DEF DraftPart
<1>11. /\ UNCHANGED <<now, ledger, passes, gone>> /\ Sound(ledger') /\ u.at <= now
       /\ channel' \in ChannelType /\ delivered' \subseteq DeliveredType
  BY <1>1, <1>2, <1>3, SoundLedger, Types
<1> QED BY <1>3, <1>5, <1>6, <1>10, <1>11, NothingTaken, TurnFrame

-----------------------------------------------------------------------------
(* The theorems.                                                           *)

LEMMA StepSound ==
  ASSUME BroadcastIndInv, [BroadcastNext]_vars PROVE BroadcastIndInv'
<1>1. CASE UNCHANGED vars
  BY <1>1, StutterSound
<1>2. CASE Tick
  BY <1>2, TickSound
<1>3. CASE Crash
  BY <1>3, CrashSound
<1>4. ASSUME NEW c \in Channels, NEW i \in 1..Len(channel[c]), DeletePost(c, i)
      PROVE  BroadcastIndInv'
  BY <1>4, DeletePostSound
<1>5. ASSUME NEW p \in Passes, PassStep(p) PROVE BroadcastIndInv'
  BY <1>5, StartPassSound, ReservePassSound, WrittenSound, SendPassSound,
     PassPostedSound, PassFailedSound DEF PassStep
<1>6. ASSUME NEW h \in Homes, TurnStep(h) PROVE BroadcastIndInv'
  BY <1>6, StartTurnSound, EndTurnSound, SaveDraftSound, SpendDraftSound,
     NextTargetSound, ReceiptCheckedSound, SendDraftSound, DraftPostedSound,
     DraftNotSentSound, DraftUnconfirmedSound, DraftDoneSound DEF TurnStep
<1> QED BY <1>1, <1>2, <1>3, <1>4, <1>5, <1>6 DEF BroadcastNext

\* The ledger, the drafts, the turns and the passes of store.ts, source.ts and
\* announcer.ts stay related as BroadcastIndInv says.
THEOREM AnnouncementInvariant == BroadcastSpec => []BroadcastIndInv
<1>1. BroadcastInit => BroadcastIndInv
  BY InitSound
<1>2. BroadcastIndInv /\ [BroadcastNext]_vars => BroadcastIndInv'
  BY StepSound
<1> QED BY <1>1, <1>2, PTL DEF BroadcastSpec

\* finishBroadcast writes both ledgers or none, and nothing takes them apart.
THEOREM DeliveryFulfilsTheDay == BroadcastSpec => []DailyFollowsDelivery
<1>1. BroadcastIndInv => DailyFollowsDelivery
  BY DEF BroadcastIndInv
<1> QED BY <1>1, AnnouncementInvariant, PTL

\* Only these two actions post.
LEMMA WhoPosts ==
  ASSUME BroadcastIndInv, [BroadcastNext]_vars, NEW c \in Channels, Posts(c)
  PROVE  \/ \E p \in Passes : SendPass(p) /\ c = Announce /\ Sender(c) = p
         \/ \E h \in Homes : SendDraft(h) /\ c = turns[h].target
                             /\ Sender(c) = turns[h].draft
<1>1. channel \in ChannelType /\ Len(channel[c]) \in Nat
  <2> DEFINE P == [by : Tokens \cup {Legacy}, at : Time]
  <2>1. channel \in ChannelType /\ channel[c] \in Seq(P)
    BY Types DEF ChannelType
  <2> HIDE DEF P
  <2> QED BY <2>1
<1>2. channel' # channel
  BY <1>1 DEF Posts
<1>3. ASSUME NEW x \in Channels, NEW token \in Tokens, Post(x, token)
      PROVE  x = c /\ Sender(c) = token
  <2> DEFINE post == [by |-> token, at |-> now]
  <2>1. channel' = [channel EXCEPT ![x] = Append(channel[x], post)]
    BY <1>3 DEF Post
  <2>2. x = c
    BY <1>1, <2>1 DEF Posts, ChannelType
  <2>3. channel'[c] = Append(channel[c], post) /\ channel[c] \in Seq([by : Tokens \cup {Legacy}, at : Time])
    BY <1>1, <2>1, <2>2 DEF ChannelType
  <2>4. channel'[c][Len(channel'[c])] = post
    <3> HIDE DEF post
    <3> QED BY <2>3
  <2> QED BY <2>2, <2>4 DEF Sender
<1>4. ASSUME NEW p \in Passes, PassStep(p)
      PROVE  SendPass(p) /\ c = Announce /\ Sender(c) = p
  <2>1. SendPass(p)
    BY <1>2, <1>4 DEF PassStep, StartPass, ReservePass, Written, PassPosted, PassFailed,
       world
  <2>2. Post(Announce, p) /\ p \in Tokens
    BY <2>1 DEF SendPass, Tokens
  <2> QED BY <1>3, <2>1, <2>2, BroadcastAssumption
<1>5. ASSUME NEW h \in Homes, TurnStep(h)
      PROVE  SendDraft(h) /\ c = turns[h].target /\ Sender(c) = turns[h].draft
  <2>1. SendDraft(h)
    BY <1>2, <1>5 DEF TurnStep, StartTurn, EndTurn, SaveDraft, SpendDraft, NextTarget,
       ReceiptChecked, DraftPosted, DraftNotSent, DraftUnconfirmed, DraftDone, GoOn, world
  <2>2. /\ Post(turns[h].target, turns[h].draft)
        /\ turns[h].target \in Channels /\ turns[h].draft \in Tokens
    BY <2>1, TurnFacts DEF SendDraft, Confirming, Apart, Tokens
  <2> QED BY <1>3, <2>1, <2>2
<1> QED BY <1>2, <1>4, <1>5 DEF BroadcastNext, vars, world, Tick, Crash, DeletePost

\* Spending a draft once and reopening only what failed is enough for no retry
\* to post it where it is known to be.
THEOREM NothingIsReplayed == BroadcastSpec => NoReplay
<1> DEFINE A == \A c \in Channels, d \in Drafts : Posts(c) /\ Sender(c) = d
                  => \A i \in 1..Len(channel[c]) : <<d, c, i>> \notin delivered
<1>1. BroadcastIndInv /\ [BroadcastNext]_vars => A
  <2> SUFFICES ASSUME BroadcastIndInv, [BroadcastNext]_vars, NEW c \in Channels,
                      NEW d \in Drafts, Posts(c), Sender(c) = d,
                      NEW i \in 1..Len(channel[c]), <<d, c, i>> \in delivered
               PROVE  FALSE
    OBVIOUS
  <2>1. \A p \in Passes : Sender(c) # p
    BY BroadcastAssumption
  <2>2. PICK h \in Homes : SendDraft(h) /\ c = turns[h].target /\ d = turns[h].draft
    BY <2>1, WhoPosts
  <2>3. Confirming(h) /\ c \in Pending(turns[h])
    BY <2>2 DEF SendDraft, Confirming, Pending
  <2> QED BY <2>2, <2>3 DEF BroadcastIndInv, DeliveredIsDone
<1> QED BY <1>1, AnnouncementInvariant, PTL DEF BroadcastSpec, NoReplay

\* Renewing the reservation after the text is written is enough for a pass that
\* was overtaken while it wrote to post nothing.
THEOREM PassDefersToReceipts == BroadcastSpec => AutomaticDefers
<1> DEFINE A == \A p \in Passes :
                  Posts(Announce) /\ Sender(Announce) = p /\ ~passes[p].repost
                    => ledger.daily = NoDaily /\ ledger.rows[Announce].message = 0
<1>1. BroadcastIndInv /\ [BroadcastNext]_vars => A
  <2> SUFFICES ASSUME BroadcastIndInv, [BroadcastNext]_vars, NEW p \in Passes,
                      Posts(Announce), Sender(Announce) = p, ~passes[p].repost
               PROVE  ledger.daily = NoDaily /\ ledger.rows[Announce].message = 0
    OBVIOUS
  <2>1. \A h \in Homes : SendDraft(h) => turns[h].draft # p
    BY TurnFacts, BroadcastAssumption DEF SendDraft, Confirming
  <2>2. SendPass(p)
    BY <2>1, WhoPosts, BroadcastAssumption
  <2> QED BY <2>2 DEF SendPass, BroadcastIndInv, PassesHold
<1> QED BY <1>1, AnnouncementInvariant, PTL DEF BroadcastSpec, AutomaticDefers

-----------------------------------------------------------------------------
(* How far apart they are (Broadcast).                                     *)

\* A post that no new one can come too near to.
LongAgo(c, i) == <<c, i>> \in waived \/ now - channel[c][i].at >= Lease - Patience
AllLongAgo(c, m) == \A i \in 1..Len(channel[c]) : i = m \/ LongAgo(c, i)

\* A post that the row of its channel stands for.
Guarded(r, c, i) ==
  r.token # None /\ channel[c][i].at <= r.at + Patience /\ r.message \in {0, i}

OwnOfTurn(t) == IF t.pc = "sending" THEN 0 ELSE t.message
OwnOfPass(u) == IF u.pc = "sweeping" THEN u.message ELSE 0

\* A turn is young, and one that sends has the row of its channel over nothing
\* but its own post.
TurnHolds(h) ==
  /\ turns[h].pc # "idle" => now - turns[h].at <= Patience
  /\ AtTarget(h) =>
       LET r == ledger.rows[turns[h].target] IN
       /\ r.token = turns[h].draft /\ r.at = turns[h].at /\ r.message = 0
       /\ AllLongAgo(turns[h].target, OwnOfTurn(turns[h]))
PassHolds(p) ==
  passes[p].pc \in {"writing", "sending", "sweeping"} /\ ledger.rows[Announce].token = p
    => AllLongAgo(Announce, OwnOfPass(passes[p]))
PostsGuarded(c) ==
  \A i \in 1..Len(channel[c]) : LongAgo(c, i) \/ Guarded(ledger.rows[c], c, i)

ApartInv ==
  /\ \A h \in Homes : TurnHolds(h)
  /\ \A p \in Passes : PassHolds(p)
  /\ \A c \in Channels : PostsGuarded(c)

LEMMA PostTimes ==
  ASSUME BroadcastIndInv, NEW c \in Channels
  PROVE  /\ Len(channel[c]) \in Nat /\ \A i \in 1..Len(channel[c]) : channel[c][i].at \in Nat
         /\ ledger.rows[c].at \in Nat /\ ledger.rows[c].message \in Nat
         /\ now \in Nat /\ Lease \in Nat /\ Patience \in Nat /\ Patience < Lease
<1> DEFINE P == [by : Tokens \cup {Legacy}, at : Time]
<1>1. channel[c] \in Seq(P)
  BY Types DEF ChannelType
<1>2. \A x \in P : x.at \in Nat
  BY BroadcastAssumption DEF Time
<1> HIDE DEF P
<1>3. Len(channel[c]) \in Nat /\ \A i \in 1..Len(channel[c]) : channel[c][i] \in P
  BY <1>1
<1>4. ledger.rows[c].at \in Nat /\ ledger.rows[c].message \in Nat
  BY SoundLedger, LedgerParts, BroadcastAssumption DEF Sound, RowType, Time
<1>5. QED
  BY <1>2, <1>3, <1>4, Clock, BroadcastAssumption

LEMMA ApartStarts == BroadcastInit => ApartInv
<1> SUFFICES ASSUME BroadcastInit PROVE ApartInv
  OBVIOUS
<1> PICK old \in BOOLEAN :
      /\ now = IF old THEN Dawn ELSE 0
      /\ ledger = [rows  |-> [c \in Channels |->
                                IF old /\ c = Announce
                                THEN [token |-> Legacy, at |-> Dawn, message |-> 1]
                                ELSE NoRow],
                   daily |-> NoDaily]
      /\ channel = [c \in Channels |->
                      IF old /\ c = Announce
                      THEN <<[by |-> Legacy, at |-> Dawn]>> ELSE <<>>]
  BY DEF BroadcastInit
<1>1. \A h \in Homes : turns[h].pc = "idle"
  BY DEF BroadcastInit, NoTurn
<1>2. \A p \in Passes : passes[p].pc = "idle"
  BY DEF BroadcastInit, NoPass
<1>3. ASSUME NEW c \in Channels PROVE PostsGuarded(c)
  <2>1. CASE old /\ c = Announce
    <3>1. /\ Len(channel[c]) = 1 /\ channel[c][1].at = Dawn
          /\ ledger.rows[c] = [token |-> Legacy, at |-> Dawn, message |-> 1]
      BY <2>1
    <3>2. Dawn \in Nat /\ Patience \in Nat /\ Legacy # None
      BY BroadcastAssumption
    <3>3. Guarded(ledger.rows[c], c, 1)
      BY <3>1, <3>2 DEF Guarded
    <3>4. QED
      BY <3>1, <3>3 DEF PostsGuarded
  <2>2. CASE ~(old /\ c = Announce)
    <3>1. channel[c] = <<>>
      BY <2>2
    <3>2. Len(channel[c]) = 0
      BY <3>1
    <3>3. QED
      BY <3>2 DEF PostsGuarded
  <2>3. QED
    BY <2>1, <2>2
<1>4. QED
  BY <1>1, <1>2, <1>3 DEF ApartInv, TurnHolds, PassHolds, AtTarget

-----------------------------------------------------------------------------
(* What a step that posts nothing keeps.                                   *)

Quietly == UNCHANGED channel /\ waived \subseteq waived' /\ now <= now' /\ now' \in Nat

LEMMA AgoStays ==
  ASSUME BroadcastIndInv, Quietly, NEW c \in Channels
  PROVE  /\ \A i \in 1..Len(channel[c]) : LongAgo(c, i) => LongAgo(c, i)'
         /\ \A m : AllLongAgo(c, m) => AllLongAgo(c, m)'
<1>1. ASSUME NEW i \in 1..Len(channel[c]), LongAgo(c, i) PROVE LongAgo(c, i)'
  <2>1. channel[c][i].at \in Nat /\ now \in Nat
    BY PostTimes
  <2>2. QED
    BY <1>1, <2>1, PostTimes DEF LongAgo, Quietly
<1>2. QED
  BY <1>1 DEF AllLongAgo, Quietly

\* What may become of a row.
RowFine(c) ==
  \/ ledger'.rows[c] = ledger.rows[c]
  \/ AllLongAgo(c, 0)'
  \/ /\ ledger'.rows[c].token = ledger.rows[c].token
     /\ ledger'.rows[c].at = ledger.rows[c].at
     /\ AllLongAgo(c, ledger'.rows[c].message)

LEMMA GuardStays ==
  ASSUME BroadcastIndInv, ApartInv, Quietly, NEW c \in Channels, RowFine(c)
  PROVE  PostsGuarded(c)'
<1> PICK r : r = ledger'.rows[c]
  OBVIOUS
<1> DEFINE Kept(i) == /\ r.token # None /\ channel[c][i].at <= r.at + Patience
                      /\ r.message \in {0, i}
<1> SUFFICES ASSUME NEW i \in 1..Len(channel[c]) PROVE LongAgo(c, i)' \/ Kept(i)
  BY DEF PostsGuarded, Guarded, Quietly
<1>1. LongAgo(c, i) \/ Guarded(ledger.rows[c], c, i)
  BY DEF ApartInv, PostsGuarded
<1>2. LongAgo(c, i) => LongAgo(c, i)'
  BY AgoStays
<1>3. CASE r = ledger.rows[c]
  BY <1>1, <1>2, <1>3 DEF Guarded
<1>4. CASE AllLongAgo(c, 0)'
  BY <1>4 DEF AllLongAgo, Quietly
<1>6. CASE /\ r.token = ledger.rows[c].token
           /\ r.at = ledger.rows[c].at
           /\ AllLongAgo(c, r.message)
  <2>1. i = r.message \/ LongAgo(c, i)
    BY <1>6 DEF AllLongAgo
  <2>2. QED
    BY <1>1, <1>2, <1>6, <2>1 DEF Guarded
<1>7. QED
  BY <1>3, <1>4, <1>6 DEF RowFine

LEMMA TurnStays ==
  ASSUME BroadcastIndInv, NEW g \in Homes, TurnHolds(g), Quietly, now' = now,
         turns'[g] = turns[g],
         AtTarget(g) => ledger'.rows[turns[g].target] = ledger.rows[turns[g].target]
  PROVE  TurnHolds(g)'
<1>1. CASE AtTarget(g)
  <2>1. PICK c \in Channels : c = turns[g].target
    BY <1>1, TurnFacts DEF AtTarget, Confirming, Apart
  <2> PICK m : m = OwnOfTurn(turns[g])
    OBVIOUS
  <2>2. AllLongAgo(c, m)'
    BY <1>1, <2>1, AgoStays DEF TurnHolds
  <2>3. QED
    BY <1>1, <2>1, <2>2 DEF TurnHolds, AtTarget, OwnOfTurn, AllLongAgo, LongAgo
<1>2. CASE ~AtTarget(g)
  BY <1>2 DEF TurnHolds, AtTarget
<1>3. QED
  BY <1>1, <1>2

LEMMA PassStays ==
  ASSUME BroadcastIndInv, NEW q \in Passes, PassHolds(q), Quietly,
         passes'[q] = passes[q],
         ledger'.rows[Announce].token = q => ledger.rows[Announce].token = q
  PROVE  PassHolds(q)'
<1> PICK m : m = OwnOfPass(passes[q])
  OBVIOUS
<1>1. ASSUME passes[q].pc \in {"writing", "sending", "sweeping"},
             ledger.rows[Announce].token = q
      PROVE  AllLongAgo(Announce, m)'
  BY <1>1, AgoStays, BroadcastAssumption DEF PassHolds
<1>2. QED
  BY <1>1 DEF PassHolds, OwnOfPass, AllLongAgo, LongAgo

\* One turn moves, or none.
LEMMA TurnMoves ==
  ASSUME BroadcastIndInv, ApartInv, Quietly, now' = now, UNCHANGED passes,
         NEW h \in Homes, \A g \in Homes \ {h} : turns'[g] = turns[g], TurnHolds(h)',
         \A c \in Channels : RowFine(c),
         \A g \in Homes \ {h} : AtTarget(g) =>
           ledger'.rows[turns[g].target] = ledger.rows[turns[g].target],
         \A q \in Passes : ledger'.rows[Announce].token = q => ledger.rows[Announce].token = q
  PROVE  ApartInv'
<1>1. \A g \in Homes : TurnHolds(g)'
  BY TurnStays DEF ApartInv
<1>2. \A q \in Passes : PassHolds(q)'
  BY PassStays DEF ApartInv
<1>3. \A c \in Channels : PostsGuarded(c)'
  BY GuardStays
<1>4. QED
  BY <1>1, <1>2, <1>3 DEF ApartInv

LEMMA PassMoves ==
  ASSUME BroadcastIndInv, ApartInv, Quietly, now' = now, UNCHANGED turns,
         NEW p \in Passes, \A q \in Passes \ {p} : passes'[q] = passes[q], PassHolds(p)',
         \A c \in Channels : RowFine(c),
         \A g \in Homes : AtTarget(g) =>
           ledger'.rows[turns[g].target] = ledger.rows[turns[g].target],
         \A q \in Passes \ {p} :
           ledger'.rows[Announce].token = q => ledger.rows[Announce].token = q
  PROVE  ApartInv'
<1>1. \A g \in Homes : TurnHolds(g)'
  BY TurnStays DEF ApartInv
<1>2. \A q \in Passes : PassHolds(q)'
  BY PassStays DEF ApartInv
<1>3. \A c \in Channels : PostsGuarded(c)'
  BY GuardStays
<1>4. QED
  BY <1>1, <1>2, <1>3 DEF ApartInv

-----------------------------------------------------------------------------
(* Rows that are held, and rows that may be replaced.                      *)

LEMMA HeldRefuses ==
  ASSUME BroadcastIndInv, NEW c \in Channels, NEW at \in Nat, at <= now, NEW opts,
         ledger.rows[c].token # None, ledger.rows[c].message = 0,
         now - ledger.rows[c].at <= Patience
  PROVE  LeaseRefuses(ledger, c, at, opts)
<1>1. at - ledger.rows[c].at < Lease
  BY PostTimes
<1>2. QED
  BY <1>1 DEF LeaseRefuses

\* Where a lease may begin, every post is of long ago, but for the receipt of a
\* repost.
LEMMA FreeIsLongAgo ==
  ASSUME BroadcastIndInv, ApartInv, NEW c \in Channels, NEW at \in Nat, at <= now, NEW opts,
         ~LeaseRefuses(ledger, c, at, opts), NEW i \in 1..Len(channel[c])
  PROVE  LongAgo(c, i) \/ (opts.repost /\ ledger.rows[c].message = i)
<1>1. LongAgo(c, i) \/ Guarded(ledger.rows[c], c, i)
  BY DEF ApartInv, PostsGuarded
<1>2. /\ channel[c][i].at \in Nat /\ ledger.rows[c].at \in Nat /\ now \in Nat
      /\ Lease \in Nat /\ Patience \in Nat
  BY PostTimes
<1>3. CASE at - ledger.rows[c].at >= Lease /\ Guarded(ledger.rows[c], c, i)
  <2>1. channel[c][i].at <= ledger.rows[c].at + Patience
    BY <1>3 DEF Guarded
  <2>2. now - channel[c][i].at >= Lease - Patience
    <3>0. PICK a, r, n : a = channel[c][i].at /\ r = ledger.rows[c].at /\ n = now
      OBVIOUS
    <3>1. /\ a \in Nat /\ r \in Nat /\ n \in Nat /\ at <= n
          /\ at - r >= Lease /\ a <= r + Patience /\ Lease \in Nat /\ Patience \in Nat
      BY <1>2, <1>3, <2>1, <3>0
    <3>2. n - a >= Lease - Patience
      BY <3>1
    <3>3. QED
      BY <3>0, <3>2
  <2>3. QED
    BY <2>2 DEF LongAgo
<1>4. CASE ~(at - ledger.rows[c].at >= Lease) /\ Guarded(ledger.rows[c], c, i)
  <2>1. at - ledger.rows[c].at < Lease
    BY <1>2, <1>4
  <2>2. opts.repost /\ ledger.rows[c].message # 0
    BY <1>4, <2>1 DEF Guarded, LeaseRefuses
  <2>3. QED
    BY <1>4, <2>2 DEF Guarded
<1>5. QED
  BY <1>1, <1>3, <1>4

LEMMA NoneApart ==
  ASSUME NEW c, \A i \in 1..Len(channel[c]) : LongAgo(c, i)
  PROVE  AllLongAgo(c, 0)
BY DEF AllLongAgo

Held(c) == ledger.rows[c].token # None /\ ledger.rows[c].message = 0

\* The ledger L from which a reservation of channel c is made.
Eased(L, c) ==
  \A x \in Channels :
    \/ L.rows[x] = ledger.rows[x]
    \/ x = c /\ ~Held(x) /\ L.rows[x] = NoRow /\ AllLongAgo(x, 0)'

\* The receipt that is given up is the one that its row stands for.
LEMMA ForgetEases ==
  ASSUME BroadcastIndInv, ApartInv, Quietly, NEW c \in Channels, NEW m \in Nat \ {0},
         Forgotten(ledger, c, m) \subseteq waived'
  PROVE  Eased(Forget(ledger, c, m), c)
<1>1. CASE ~MayForget(ledger, c, m)
  BY <1>1 DEF Forget, Eased
<1>2. CASE MayForget(ledger, c, m)
  <2>1. /\ \A x \in Channels \ {c} : Forget(ledger, c, m).rows[x] = ledger.rows[x]
        /\ Forget(ledger, c, m).rows[c] = NoRow
    BY <1>2, SoundLedger, LedgerParts DEF Forget, Sound
  <2>2. <<c, m>> \in waived'
    BY <1>2 DEF Forgotten
  <2>3. ~Held(c)
    BY <1>2 DEF MayForget, Held
  <2>4. ASSUME NEW i \in 1..Len(channel[c]) PROVE LongAgo(c, i)'
    <3>1. CASE LongAgo(c, i)
      BY <3>1, AgoStays
    <3>2. CASE ~LongAgo(c, i)
      <4>1. Guarded(ledger.rows[c], c, i)
        BY <3>2 DEF ApartInv, PostsGuarded
      <4>2. i = m
        BY <1>2, <4>1 DEF Guarded, MayForget
      <4>3. QED
        BY <2>2, <4>2 DEF LongAgo
    <3>3. QED
      BY <3>1, <3>2
  <2>5. AllLongAgo(c, 0)'
    BY <2>4 DEF AllLongAgo, Quietly
  <2>6. QED
    BY <2>1, <2>3, <2>5 DEF Eased
<1>3. QED
  BY <1>1, <1>2

\* What a reservation does to the rows, and over what it begins.
LEMMA ReserveApart ==
  ASSUME BroadcastIndInv, ApartInv, Quietly, NEW c \in Channels, NEW token \in Tokens,
         NEW at \in Time, at <= now, NEW opts \in [auto : BOOLEAN, repost : BOOLEAN],
         opts.auto => c = Announce, NEW L, Sound(L), Eased(L, c),
         ledger' = Reserve(L, c, token, at, opts),
         opts.repost /\ ~Refuses(L, c, at, opts) => <<c, ledger.rows[c].message>> \in waived'
                                                     \/ ledger.rows[c].message = 0
  PROVE  /\ \A x \in Channels : RowFine(x)
         /\ \A x \in Channels : Held(x) /\ now - ledger.rows[x].at <= Patience
              => ledger'.rows[x] = ledger.rows[x]
         /\ \A x \in Channels : \/ ledger'.rows[x].token = token
                                \/ ledger'.rows[x].token = ledger.rows[x].token
                                \/ ledger'.rows[x].token = None
         /\ ~Refuses(L, c, at, opts) =>
              /\ ledger'.rows[c] = [token |-> token, at |-> at, message |-> 0]
              /\ AllLongAgo(c, 0)'
         /\ Refuses(L, c, at, opts) =>
              \A x \in Channels : \/ ledger'.rows[x].token = ledger.rows[x].token
                                  \/ ledger'.rows[x].token = None
<1> DEFINE refused == Refuses(L, c, at, opts)
<1>1. /\ \A x \in Channels \ {c} : ledger'.rows[x] = L.rows[x]
      /\ ~refused => ledger'.rows[c] = [token |-> token, at |-> at, message |-> 0]
      /\ refused => ledger'.rows = L.rows
  BY ReserveSound
<1>2. at \in Nat
  BY BroadcastAssumption DEF Time
<1>3. ASSUME ~refused PROVE AllLongAgo(c, 0)'
  <2>1. CASE L.rows[c] = ledger.rows[c]
    <3>1. ~LeaseRefuses(ledger, c, at, opts)
      BY <1>3, <2>1 DEF Refuses, LeaseRefuses
    <3>2. ASSUME NEW i \in 1..Len(channel[c]) PROVE LongAgo(c, i)'
      <4>1. CASE LongAgo(c, i)
        BY <4>1, AgoStays
      <4>2. CASE ~LongAgo(c, i)
        <5>1. opts.repost /\ ledger.rows[c].message = i
          BY <1>2, <3>1, <4>2, FreeIsLongAgo
        <5>2. i # 0
          BY PostTimes
        <5>3. <<c, i>> \in waived'
          BY <1>3, <5>1, <5>2
        <5>4. QED
          BY <5>3 DEF LongAgo
      <4>3. QED
        BY <4>1, <4>2
    <3>3. QED
      BY <3>2 DEF AllLongAgo, Quietly
  <2>2. CASE L.rows[c] # ledger.rows[c]
    BY <2>2 DEF Eased
  <2>3. QED
    BY <2>1, <2>2
<1>4. ASSUME NEW x \in Channels, ledger'.rows[x] # ledger.rows[x]
      PROVE  x = c /\ AllLongAgo(x, 0)'
  BY <1>1, <1>3, <1>4 DEF Eased
<1>5. \A x \in Channels : RowFine(x)
  BY <1>4 DEF RowFine
<1>6. ASSUME NEW x \in Channels, Held(x), now - ledger.rows[x].at <= Patience
      PROVE  ledger'.rows[x] = ledger.rows[x]
  <2>1. L.rows[x] = ledger.rows[x]
    BY <1>6 DEF Eased
  <2>2. CASE x = c
    <3>1. LeaseRefuses(ledger, c, at, opts)
      BY <1>2, <1>6, <2>2, HeldRefuses DEF Held
    <3>2. refused
      BY <2>1, <2>2, <3>1 DEF Refuses, LeaseRefuses
    <3>3. QED
      BY <1>1, <2>1, <3>2
  <2>3. CASE x # c
    BY <1>1, <2>1, <2>3
  <2>4. QED
    BY <2>2, <2>3
<1>7. \A x \in Channels : L.rows[x].token = ledger.rows[x].token \/ L.rows[x].token = None
  BY DEF Eased, NoRow
<1>8. QED
  BY <1>1, <1>3, <1>5, <1>6, <1>7

-----------------------------------------------------------------------------
(* The steps that post nothing.                                            *)

\* The rows of the other turns at their targets are held.
LEMMA TurnsHold ==
  ASSUME BroadcastIndInv, ApartInv, NEW g \in Homes, AtTarget(g)
  PROVE  /\ turns[g].target \in Channels /\ Held(turns[g].target)
         /\ ledger.rows[turns[g].target].token = turns[g].draft
         /\ turns[g].draft \in Drafts /\ drafts[turns[g].draft].home = g
         /\ now - ledger.rows[turns[g].target].at <= Patience
<1>1. /\ turns[g].target \in Channels /\ turns[g].draft \in Drafts
      /\ drafts[turns[g].draft].home = g
  BY TurnFacts DEF AtTarget, Confirming, Apart
<1>2. /\ ledger.rows[turns[g].target].token = turns[g].draft
      /\ ledger.rows[turns[g].target].message = 0
      /\ now - ledger.rows[turns[g].target].at <= Patience
  BY DEF ApartInv, TurnHolds, AtTarget
<1>3. QED
  BY <1>1, <1>2, BroadcastAssumption DEF Held, Tokens

LEMMA TurnAway ==
  ASSUME BroadcastIndInv, NEW h \in Homes, TurnHolds(h), now' = now,
         turns'[h].pc \notin {"sending", "answering"},
         turns'[h].pc # "idle" =>
           \/ turns[h].pc # "idle" /\ turns'[h].at = turns[h].at
           \/ turns'[h].at = now
  PROVE  TurnHolds(h)'
<1>1. now - now <= Patience
  BY Clock, BroadcastAssumption
<1>2. QED
  BY <1>1 DEF TurnHolds, AtTarget

LEMMA NothingMoves ==
  ASSUME BroadcastIndInv, ApartInv, Quietly, now' = now, UNCHANGED <<turns, passes, ledger>>
  PROVE  ApartInv'
<1>1. \A g \in Homes : TurnHolds(g)'
  BY TurnStays DEF ApartInv
<1>2. \A q \in Passes : PassHolds(q)'
  BY PassStays DEF ApartInv
<1>3. \A c \in Channels : PostsGuarded(c)'
  BY GuardStays DEF RowFine
<1>4. QED
  BY <1>1, <1>2, <1>3 DEF ApartInv

LEMMA TickApart == ASSUME BroadcastIndInv, ApartInv, Tick PROVE ApartInv'
<1>1. /\ now' = now + 1 /\ UNCHANGED <<ledger, turns, passes, channel, waived>>
      /\ \A h \in Homes : turns[h].pc # "idle" => now - turns[h].at < Patience
  BY DEF Tick, world, history
<1>2. Quietly
  BY <1>1, Clock DEF Quietly
<1>3. ASSUME NEW g \in Homes PROVE TurnHolds(g)'
  <2>1. turns[g].at \in Nat
    BY TurnFacts, BroadcastAssumption DEF Time
  <2>2. turns[g].pc # "idle" => now' - turns'[g].at <= Patience
    BY <1>1, <2>1, Clock, BroadcastAssumption
  <2>3. CASE AtTarget(g)
    <3>1. PICK c \in Channels : c = turns[g].target
      BY <2>3, TurnsHold
    <3> PICK m : m = OwnOfTurn(turns[g])
      OBVIOUS
    <3>2. AllLongAgo(c, m)'
      BY <1>2, <2>3, <3>1, AgoStays DEF ApartInv, TurnHolds
    <3>3. QED
      BY <1>1, <2>2, <2>3, <3>1, <3>2
         DEF ApartInv, TurnHolds, AtTarget, OwnOfTurn, AllLongAgo, LongAgo
  <2>4. CASE ~AtTarget(g)
    BY <1>1, <2>2, <2>4 DEF TurnHolds, AtTarget
  <2>5. QED
    BY <2>3, <2>4
<1>4. \A q \in Passes : PassHolds(q)'
  BY <1>1, <1>2, PassStays DEF ApartInv
<1>5. \A c \in Channels : PostsGuarded(c)'
  BY <1>1, <1>2, GuardStays DEF RowFine
<1>6. QED
  BY <1>3, <1>4, <1>5 DEF ApartInv

LEMMA CrashApart == ASSUME BroadcastIndInv, ApartInv, Crash PROVE ApartInv'
<1>1. /\ UNCHANGED <<now, ledger, channel, waived>>
      /\ turns' = [h \in Homes |-> NoTurn]
      /\ passes' = [p \in Passes |->
                      IF InFlight(p) THEN [NoPass EXCEPT !.pc = "over"] ELSE passes[p]]
  BY DEF Crash, world, history
<1>2. Quietly
  BY <1>1, Clock DEF Quietly
<1>3. \A g \in Homes : turns'[g].pc = "idle"
  BY <1>1 DEF NoTurn
<1>4. \A q \in Passes : passes'[q].pc \in {"idle", "over"}
  BY <1>1 DEF InFlight, NoPass
<1>5. \A c \in Channels : PostsGuarded(c)'
  BY <1>1, <1>2, GuardStays DEF RowFine
<1>6. QED
  BY <1>3, <1>4, <1>5 DEF ApartInv, TurnHolds, PassHolds, AtTarget

-----------------------------------------------------------------------------
(* A new post.                                                             *)

\* Channel c has one post more, of now.
PostedAt(c) ==
  /\ Len(channel'[c]) = Len(channel[c]) + 1
  /\ \A i \in 1..Len(channel[c]) : channel'[c][i] = channel[c][i]
  /\ channel'[c][Len(channel[c]) + 1].at = now
  /\ \A x \in Channels \ {c} : channel'[x] = channel[x]

LEMMA PostAppends ==
  ASSUME BroadcastIndInv, NEW c \in Channels, NEW token \in Tokens, Post(c, token)
  PROVE  PostedAt(c)
<1> DEFINE post == [by |-> token, at |-> now]
           P == [by : Tokens \cup {Legacy}, at : Time]
<1>1. channel \in ChannelType /\ channel[c] \in Seq(P)
  BY Types DEF ChannelType
<1>2. channel' = [channel EXCEPT ![c] = Append(channel[c], post)]
  BY DEF Post
<1>3. /\ channel'[c] = Append(channel[c], post)
      /\ \A x \in Channels \ {c} : channel'[x] = channel[x]
  BY <1>1, <1>2 DEF ChannelType
<1>4. post.at = now
  OBVIOUS
<1> HIDE DEF post, P
<1>5. /\ Len(channel'[c]) = Len(channel[c]) + 1
      /\ \A i \in 1..Len(channel[c]) : channel'[c][i] = channel[c][i]
      /\ channel'[c][Len(channel[c]) + 1] = post
  BY <1>1, <1>3
<1>6. QED
  BY <1>3, <1>4, <1>5 DEF PostedAt

\* The new post is the one exception.
LEMMA PostedAgo ==
  ASSUME BroadcastIndInv, NEW c \in Channels, PostedAt(c), now' = now, waived' = waived,
         \A i \in 1..Len(channel[c]) : LongAgo(c, i), NEW m, m = Len(channel[c]) + 1
  PROVE  AllLongAgo(c, m)'
<1>1. \A i \in 1..Len(channel'[c]) : i = m \/ i \in 1..Len(channel[c])
  BY PostTimes DEF PostedAt
<1>2. ASSUME NEW i \in 1..Len(channel[c]) PROVE LongAgo(c, i)'
  BY <1>2 DEF LongAgo, PostedAt
<1>3. QED
  BY <1>1, <1>2 DEF AllLongAgo

\* ... and its row stands for it.
LEMMA PostedGuarded ==
  ASSUME BroadcastIndInv, ApartInv, NEW c \in Channels, PostedAt(c), now' = now,
         waived' = waived, ledger' = ledger, Held(c),
         now - ledger.rows[c].at <= Patience,
         \A i \in 1..Len(channel[c]) : LongAgo(c, i)
  PROVE  \A x \in Channels : PostsGuarded(x)'
<1>1. ASSUME NEW x \in Channels \ {c} PROVE PostsGuarded(x)'
  BY DEF PostedAt, ApartInv, PostsGuarded, LongAgo, Guarded
<1>2. PostsGuarded(c)'
  <2> PICK m : m = Len(channel[c]) + 1
    OBVIOUS
  <2>1. AllLongAgo(c, m)'
    BY PostedAgo
  <2>2. ASSUME NEW i \in 1..Len(channel'[c]), i = m
        PROVE  Guarded(ledger.rows[c], c, i)'
    <3>1. channel'[c][i].at = now
      BY <2>2 DEF PostedAt
    <3>2. now <= ledger.rows[c].at + Patience
      BY PostTimes
    <3>3. QED
      BY <3>1, <3>2 DEF Guarded, Held
  <2>3. QED
    BY <2>1, <2>2 DEF PostsGuarded, AllLongAgo
<1>3. QED
  BY <1>1, <1>2

LEMMA ElsewhereTurnStays ==
  ASSUME BroadcastIndInv, NEW c \in Channels, PostedAt(c), now' = now, waived' = waived,
         ledger' = ledger, NEW g \in Homes, turns'[g] = turns[g], TurnHolds(g),
         AtTarget(g) => turns[g].target # c
  PROVE  TurnHolds(g)'
<1>1. AtTarget(g) => channel'[turns[g].target] = channel[turns[g].target]
  BY TurnFacts DEF AtTarget, Confirming, Apart, PostedAt
<1>2. QED
  BY <1>1 DEF TurnHolds, AtTarget, OwnOfTurn, AllLongAgo, LongAgo

-----------------------------------------------------------------------------
(* The passes.                                                             *)

\* Where a turn has its row, no pass has it.
LEMMA PassLeavesTurns ==
  ASSUME BroadcastIndInv, ApartInv, NEW p \in Passes, NEW g \in Homes, AtTarget(g),
         turns[g].target = Announce
  PROVE  ledger.rows[Announce].token # p
BY TurnsHold, BroadcastAssumption

LEMMA PassAway ==
  ASSUME NEW p \in Passes, passes'[p].pc \notin {"writing", "sending", "sweeping"}
  PROVE  PassHolds(p)'
BY DEF PassHolds

LEMMA GoneTo ==
  ASSUME BroadcastIndInv, NEW p \in Passes, NEW pc \in {"writing", "over"}, GoTo(p, pc)
  PROVE  passes'[p].pc = pc /\ \A q \in Passes \ {p} : passes'[q] = passes[q]
BY GoToType, Types

LEMMA StartPassApart ==
  ASSUME BroadcastIndInv, ApartInv, NEW p \in Passes, NEW repost \in BOOLEAN,
         StartPass(p, repost)
  PROVE  ApartInv'
<1>1. /\ UNCHANGED <<now, ledger, turns, channel, waived>>
      /\ passes'[p].pc = "resolving" /\ \A q \in Passes \ {p} : passes'[q] = passes[q]
  BY Types DEF StartPass, world, history, NoPass
<1>2. Quietly
  BY <1>1, Clock DEF Quietly
<1>3. PassHolds(p)' /\ \A c \in Channels : RowFine(c)
  BY <1>1, PassAway DEF RowFine
<1>4. QED
  BY <1>1, <1>2, <1>3, PassMoves

LEMMA ReservePassApart ==
  ASSUME BroadcastIndInv, ApartInv, NEW p \in Passes, ReservePass(p)
  PROVE  ApartInv'
<1> PICK at, opts : at = passes[p].at /\ opts = Automatic(passes[p].repost)
  OBVIOUS
<1> DEFINE refused == Refuses(ledger, Announce, at, opts)
<1>1. /\ ledger' = Reserve(ledger, Announce, p, at, opts)
      /\ GoTo(p, IF refused THEN "over" ELSE "writing")
      /\ opts.repost /\ ~refused =>
           ledger.rows[Announce].message = 0 \/ <<Announce, ledger.rows[Announce].message>> \in waived'
      /\ waived \subseteq waived'
      /\ UNCHANGED <<now, turns, channel>>
  BY DEF ReservePass, world
<1>2. Quietly
  BY <1>1, Clock DEF Quietly
<1>3. /\ at \in Time /\ at <= now /\ opts \in [auto : BOOLEAN, repost : BOOLEAN]
      /\ p \in Tokens /\ Announce \in Channels
  BY Types, BroadcastAssumption
     DEF PassType, Automatic, BroadcastIndInv, NothingFromTheFuture, Tokens
<1>4. Sound(ledger) /\ Eased(ledger, Announce)
  BY SoundLedger DEF Eased
<1>5. /\ \A x \in Channels : RowFine(x)
      /\ \A x \in Channels : Held(x) /\ now - ledger.rows[x].at <= Patience
           => ledger'.rows[x] = ledger.rows[x]
      /\ \A x \in Channels : \/ ledger'.rows[x].token = p
                             \/ ledger'.rows[x].token = ledger.rows[x].token
                             \/ ledger'.rows[x].token = None
      /\ ~refused => AllLongAgo(Announce, 0)'
  BY <1>1, <1>2, <1>3, <1>4, ReserveApart
<1>6. /\ passes'[p].pc = (IF refused THEN "over" ELSE "writing")
      /\ \A q \in Passes \ {p} : passes'[q] = passes[q]
  BY <1>1, GoneTo
<1>7. PassHolds(p)'
  <2>1. CASE refused
    BY <1>6, <2>1, PassAway
  <2>2. CASE ~refused
    <3>1. passes'[p].pc = "writing"
      BY <1>6, <2>2
    <3>2. QED
      BY <1>5, <2>2, <3>1 DEF PassHolds, OwnOfPass, AllLongAgo, LongAgo
  <2>3. QED
    BY <2>1, <2>2
<1>8. \A q \in Passes \ {p} :
        ledger'.rows[Announce].token = q => ledger.rows[Announce].token = q
  BY <1>3, <1>5, BroadcastAssumption DEF Tokens
<1>9. \A g \in Homes : AtTarget(g) =>
        ledger'.rows[turns[g].target] = ledger.rows[turns[g].target]
  BY <1>5, TurnsHold
<1>10. QED
  BY <1>1, <1>2, <1>5, <1>6, <1>7, <1>8, <1>9, PassMoves

\* A pass that still has its row renews it, over the same posts.
LEMMA WrittenApart ==
  ASSUME BroadcastIndInv, ApartInv, NEW p \in Passes, Written(p)
  PROVE  ApartInv'
<1>1. /\ passes[p].pc = "writing" /\ ledger' = Renew(ledger, Announce, p, now)
      /\ UNCHANGED <<now, turns, channel, waived>>
      /\ IF Holds(ledger, Announce, p)
         THEN passes' = [passes EXCEPT ![p].pc = "sending", ![p].since = now]
         ELSE GoTo(p, "over")
  BY DEF Written, world, history
<1>2. Quietly
  BY <1>1, Clock DEF Quietly
<1>3. p \in Tokens /\ Announce \in Channels /\ Sound(ledger) /\ now \in Time
  BY SoundLedger, Clock, BroadcastAssumption DEF Tokens
<1>4. /\ \A x \in Channels \ {Announce} : ledger'.rows[x] = ledger.rows[x]
      /\ ~Holds(ledger, Announce, p) => ledger' = ledger
      /\ Holds(ledger, Announce, p) =>
           ledger'.rows[Announce] = [token |-> p, at |-> now, message |-> 0]
  BY <1>1, <1>3, RenewSound
<1>5. CASE ~Holds(ledger, Announce, p)
  <2>1. /\ passes'[p].pc = "over" /\ \A q \in Passes \ {p} : passes'[q] = passes[q]
        /\ ledger' = ledger
    BY <1>1, <1>4, <1>5, GoneTo
  <2>2. PassHolds(p)' /\ \A c \in Channels : RowFine(c)
    BY <2>1, PassAway DEF RowFine
  <2>3. QED
    BY <1>1, <1>2, <2>1, <2>2, PassMoves
<1>6. CASE Holds(ledger, Announce, p)
  <2>1. ledger.rows[Announce].token = p /\ ledger.rows[Announce].message = 0
    BY <1>6 DEF Holds
  <2>2. passes'[p].pc = "sending" /\ \A q \in Passes \ {p} : passes'[q] = passes[q]
    BY <1>1, <1>6, Types DEF PassType
  <2>5. AllLongAgo(Announce, 0)'
    <3>1. AllLongAgo(Announce, 0)
      BY <1>1, <2>1 DEF ApartInv, PassHolds, OwnOfPass
    <3>2. QED
      BY <1>2, <1>3, <3>1, AgoStays
  <2>4. \A x \in Channels : RowFine(x)
    BY <1>4, <2>5 DEF RowFine
  <2>6. PassHolds(p)'
    BY <2>2, <2>5 DEF PassHolds, OwnOfPass, AllLongAgo, LongAgo
  <2>7. \A g \in Homes : AtTarget(g) =>
          ledger'.rows[turns[g].target] = ledger.rows[turns[g].target]
    BY <1>4, <2>1, PassLeavesTurns, TurnsHold
  <2>8. \A q \in Passes \ {p} :
          ledger'.rows[Announce].token = q => ledger.rows[Announce].token = q
    BY <1>4, <1>6
  <2>9. QED
    BY <1>1, <1>2, <2>2, <2>4, <2>6, <2>7, <2>8, PassMoves
<1>7. QED
  BY <1>5, <1>6

LEMMA PassPostedApart ==
  ASSUME BroadcastIndInv, ApartInv, NEW p \in Passes, PassPosted(p)
  PROVE  ApartInv'
<1> PICK m, at : m = passes[p].message /\ at = passes[p].at
  OBVIOUS
<1>1. /\ passes[p].pc = "sweeping" /\ GoTo(p, "over")
      /\ ledger' = Finish(ledger, Announce, p, m, at)
      /\ UNCHANGED <<now, turns, channel, waived>>
  BY DEF PassPosted, world
<1>2. Quietly
  BY <1>1, Clock DEF Quietly
<1>3. passes'[p].pc = "over" /\ \A q \in Passes \ {p} : passes'[q] = passes[q]
  BY <1>1, GoneTo
<1>4. PassHolds(p)'
  BY <1>3, PassAway
<1>5. /\ ledger.rows[Announce].token # p => ledger' = ledger
      /\ ledger.rows[Announce].token = p =>
           ledger'.rows = [ledger.rows EXCEPT ![Announce].message = m]
  BY <1>1 DEF Finish
<1>6. CASE ledger.rows[Announce].token # p
  BY <1>1, <1>2, <1>3, <1>4, <1>5, <1>6, PassMoves DEF RowFine
<1>7. CASE ledger.rows[Announce].token = p
  <2>1. AllLongAgo(Announce, m)
    BY <1>1, <1>7 DEF ApartInv, PassHolds, OwnOfPass
  <2>2. ledger.rows \in [Channels -> RowType] /\ Announce \in Channels
    BY SoundLedger, LedgerParts, BroadcastAssumption DEF Sound
  <2>3. /\ \A x \in Channels \ {Announce} : ledger'.rows[x] = ledger.rows[x]
        /\ ledger'.rows[Announce].token = p /\ ledger'.rows[Announce].message = m
        /\ ledger'.rows[Announce].at = ledger.rows[Announce].at
    BY <1>5, <1>7, <2>2 DEF RowType
  <2>4. \A x \in Channels : RowFine(x)
    BY <1>7, <2>1, <2>3 DEF RowFine
  <2>5. \A g \in Homes : AtTarget(g) =>
          ledger'.rows[turns[g].target] = ledger.rows[turns[g].target]
    BY <1>7, <2>3, PassLeavesTurns, TurnsHold
  <2>6. QED
    BY <1>1, <1>2, <1>3, <1>4, <1>7, <2>3, <2>4, <2>5, PassMoves
<1>8. QED
  BY <1>6, <1>7

LEMMA PassFailedApart ==
  ASSUME BroadcastIndInv, ApartInv, NEW p \in Passes, PassFailed(p)
  PROVE  ApartInv'
<1>1. GoTo(p, "over") /\ UNCHANGED <<now, ledger, turns, channel, waived>>
  BY DEF PassFailed, world, history
<1>2. Quietly
  BY <1>1, Clock DEF Quietly
<1>3. passes'[p].pc = "over" /\ \A q \in Passes \ {p} : passes'[q] = passes[q]
  BY <1>1, GoneTo
<1>4. PassHolds(p)' /\ \A c \in Channels : RowFine(c)
  BY <1>1, <1>3, PassAway DEF RowFine
<1>5. QED
  BY <1>1, <1>2, <1>3, <1>4, PassMoves

\* The post of a pass, over none that is not of long ago.
LEMMA SendPassApart ==
  ASSUME BroadcastIndInv, ApartInv, NEW p \in Passes, SendPass(p)
  PROVE  /\ \A i \in 1..Len(channel[Announce]) : LongAgo(Announce, i)
         /\ ApartInv'
<1>1. /\ passes[p].pc = "sending" /\ Post(Announce, p)
      /\ passes' = [passes EXCEPT ![p].pc = "sweeping",
                                  ![p].message = Len(channel[Announce]) + 1]
      /\ UNCHANGED <<now, ledger, turns, waived>>
  BY DEF SendPass, history
<1>2. /\ ledger.rows[Announce].token = p /\ p # None /\ ledger.rows[Announce].message = 0
      /\ now - ledger.rows[Announce].at <= Patience
  BY <1>1, BroadcastAssumption DEF BroadcastIndInv, PassesHold, Tokens
<1>3. AllLongAgo(Announce, 0)
  BY <1>1, <1>2 DEF ApartInv, PassHolds, OwnOfPass
<1>4. /\ passes'[p].pc = "sweeping" /\ passes'[p].message = Len(channel[Announce]) + 1
      /\ \A q \in Passes \ {p} : passes'[q] = passes[q]
  BY <1>1, Types DEF PassType
<1>5. Announce \in Channels /\ \A g \in Homes : AtTarget(g) => turns[g].target # Announce
  BY <1>2, PassLeavesTurns, BroadcastAssumption
<1>6. PostedAt(Announce)
  BY <1>1, <1>5, PostAppends, BroadcastAssumption DEF Tokens
<1>7. \A i \in 1..Len(channel[Announce]) : LongAgo(Announce, i)
  BY <1>3, <1>5, PostTimes DEF AllLongAgo
<1>8. \A c \in Channels : PostsGuarded(c)'
  BY <1>1, <1>2, <1>5, <1>6, <1>7, PostedGuarded DEF Held
<1>9. \A g \in Homes : TurnHolds(g)'
  BY <1>1, <1>5, <1>6, ElsewhereTurnStays DEF ApartInv
<1>10. ASSUME NEW q \in Passes PROVE PassHolds(q)'
  <2>1. CASE q = p
    <3> PICK m : m = Len(channel[Announce]) + 1
      OBVIOUS
    <3>1. AllLongAgo(Announce, m)'
      BY <1>1, <1>5, <1>6, <1>7, PostedAgo
    <3>2. OwnOfPass(passes[p])' = m
      BY <1>4 DEF OwnOfPass
    <3>3. QED
      BY <1>4, <2>1, <3>1, <3>2 DEF PassHolds, AllLongAgo, LongAgo
  <2>2. CASE q # p
    BY <1>1, <1>2, <1>4, <2>2 DEF PassHolds
  <2>3. QED
    BY <2>1, <2>2
<1>11. QED
  BY <1>7, <1>8, <1>9, <1>10 DEF ApartInv

-----------------------------------------------------------------------------
(* The turns.                                                              *)

\* Two turns never have the same row.
LEMMA TurnLeavesTurns ==
  ASSUME BroadcastIndInv, ApartInv, NEW h \in Homes, Confirming(h),
         NEW g \in Homes \ {h}, AtTarget(g)
  PROVE  ledger.rows[turns[g].target].token # turns[h].draft
<1>1. turns[h].draft \in Drafts /\ drafts[turns[h].draft].home = h
  BY TurnFacts
<1>2. QED
  BY <1>1, TurnsHold

\* A turn goes where it sends nothing, and the ledger stays.
LEMMA AwayApart ==
  ASSUME BroadcastIndInv, ApartInv, NEW h \in Homes, NEW u, turns' = [turns EXCEPT ![h] = u],
         u.pc \notin {"sending", "answering"},
         u.pc # "idle" => (turns[h].pc # "idle" /\ u.at = turns[h].at) \/ u.at = now,
         UNCHANGED <<now, ledger, passes, channel>>, waived \subseteq waived'
  PROVE  ApartInv'
<1>1. Quietly
  BY Clock DEF Quietly
<1>2. turns'[h] = u /\ \A g \in Homes \ {h} : turns'[g] = turns[g]
  BY Types
<1>3. TurnHolds(h)'
  BY <1>2, TurnAway DEF ApartInv
<1>4. \A c \in Channels : RowFine(c)
  BY DEF RowFine
<1>5. QED
  BY <1>1, <1>2, <1>3, <1>4, TurnMoves

LEMMA ThinkingApart ==
  ASSUME BroadcastIndInv, ApartInv, NEW h \in Homes,
         StartTurn(h) \/ EndTurn(h) \/ DraftDone(h) \/ (\E d \in Drafts : SpendDraft(h, d))
  PROVE  ApartInv'
<1>1. UNCHANGED <<now, ledger, passes, channel, waived>>
  BY DEF StartTurn, EndTurn, DraftDone, SpendDraft, world, history
<1>2. turns[h] \in TurnType
  BY TurnFacts
<1>3. PICK u : /\ turns' = [turns EXCEPT ![h] = u] /\ u.pc \notin {"sending", "answering"}
               /\ u.pc # "idle" =>
                    (turns[h].pc # "idle" /\ u.at = turns[h].at) \/ u.at = now
  <2>1. CASE StartTurn(h)
    <3> DEFINE u == [NoTurn EXCEPT !.pc = "thinking", !.at = now]
    <3>1. turns' = [turns EXCEPT ![h] = u] /\ u.pc = "thinking" /\ u.at = now
      BY <2>1 DEF StartTurn, NoTurn
    <3> HIDE DEF u
    <3>2. QED
      BY <3>1
  <2>2. CASE EndTurn(h)
    <3>1. turns' = [turns EXCEPT ![h] = NoTurn] /\ NoTurn.pc = "idle"
      BY <2>2 DEF EndTurn, NoTurn
    <3>2. QED
      BY <3>1
  <2>3. CASE DraftDone(h)
    <3> DEFINE u == [turns[h] EXCEPT !.pc = "thinking", !.draft = None, !.failed = {}]
    <3>1. turns' = [turns EXCEPT ![h] = u]
      BY <2>3, Types DEF DraftDone
    <3>2. u.pc = "thinking" /\ u.at = turns[h].at /\ turns[h].pc # "idle"
      BY <1>2, <2>3 DEF DraftDone, TurnType
    <3> HIDE DEF u
    <3>3. QED
      BY <3>1, <3>2
  <2>4. ASSUME NEW d \in Drafts, SpendDraft(h, d)
        PROVE  \E u : /\ turns' = [turns EXCEPT ![h] = u]
                      /\ u.pc \notin {"sending", "answering"}
                      /\ turns[h].pc # "idle" /\ u.at = turns[h].at
    <3> DEFINE u == [turns[h] EXCEPT !.pc = "next", !.draft = d,
                                     !.todo = drafts[d].targets, !.failed = {}]
    <3>1. turns' = [turns EXCEPT ![h] = u]
      BY <2>4, Types DEF SpendDraft
    <3>2. u.pc = "next" /\ u.at = turns[h].at /\ turns[h].pc # "idle"
      BY <1>2, <2>4 DEF SpendDraft, TurnType
    <3> HIDE DEF u
    <3>3. QED
      BY <3>1, <3>2
  <2>5. QED
    BY <2>1, <2>2, <2>3, <2>4
<1>4. QED
  BY <1>1, <1>3, AwayApart

\* The reservation of a turn: over posts of long ago, or not at all.
LEMMA ReserveOnApart ==
  ASSUME BroadcastIndInv, ApartInv, Quietly, NEW h \in Homes, NEW c \in Channels, NEW L,
         Confirming(h), Sound(L), Eased(L, c), UNCHANGED <<now, passes>>,
         ledger' = Reserve(L, c, turns[h].draft, turns[h].at, Requested),
         NEW u, turns' = [turns EXCEPT ![h] = u], u.at = turns[h].at,
         u.pc = IF Refuses(L, c, turns[h].at, Requested) THEN "next" ELSE "sending",
         ~Refuses(L, c, turns[h].at, Requested) => u.target = c /\ u.draft = turns[h].draft
  PROVE  ApartInv'
<1> PICK token, at : token = turns[h].draft /\ at = turns[h].at
  OBVIOUS
<1> DEFINE refused == Refuses(L, c, at, Requested)
<1>1. token \in Tokens /\ token \in Drafts /\ at \in Time /\ at <= now
  BY TurnFacts DEF Tokens
<1>2. /\ Requested \in [auto : BOOLEAN, repost : BOOLEAN] /\ ~Requested.auto /\ ~Requested.repost
  BY DEF Requested
<1>3. /\ \A x \in Channels : RowFine(x)
      /\ \A x \in Channels : Held(x) /\ now - ledger.rows[x].at <= Patience
           => ledger'.rows[x] = ledger.rows[x]
      /\ \A x \in Channels : \/ ledger'.rows[x].token = token
                             \/ ledger'.rows[x].token = ledger.rows[x].token
                             \/ ledger'.rows[x].token = None
      /\ ~refused => /\ ledger'.rows[c] = [token |-> token, at |-> at, message |-> 0]
                     /\ AllLongAgo(c, 0)'
  BY <1>1, <1>2, ReserveApart
<1>4. turns'[h] = u /\ \A g \in Homes \ {h} : turns'[g] = turns[g]
  BY Types
<1>5. turns[h].pc # "idle" /\ TurnHolds(h)
  BY DEF Confirming, ApartInv
<1>6. TurnHolds(h)'
  <2>1. CASE refused
    BY <1>4, <1>5, <2>1, TurnAway
  <2>2. CASE ~refused
    <3>1. /\ turns'[h].pc = "sending" /\ turns'[h].target = c /\ turns'[h].draft = token
          /\ turns'[h].at = at
      BY <1>4, <2>2
    <3>2. now' - turns'[h].at <= Patience
      BY <1>5, <3>1 DEF TurnHolds
    <3>3. QED
      BY <1>3, <2>2, <3>1, <3>2 DEF TurnHolds, AtTarget, OwnOfTurn, AllLongAgo, LongAgo
  <2>3. QED
    BY <2>1, <2>2
<1>7. \A g \in Homes \ {h} : AtTarget(g) =>
        ledger'.rows[turns[g].target] = ledger.rows[turns[g].target]
  BY <1>3, TurnsHold
<1>8. \A q \in Passes : ledger'.rows[Announce].token = q => ledger.rows[Announce].token = q
  BY <1>1, <1>3, BroadcastAssumption DEF Tokens
<1>9. QED
  BY <1>3, <1>4, <1>6, <1>7, <1>8, TurnMoves

LEMMA ReserveOnMoves ==
  ASSUME BroadcastIndInv, ApartInv, Quietly, NEW h \in Homes, NEW c \in Channels, NEW L,
         Confirming(h), Sound(L), Eased(L, c), UNCHANGED <<now, passes>>,
         ReserveOn(h, c, L)
  PROVE  ApartInv'
<1> DEFINE t == turns[h]
           refused == Refuses(L, c, t.at, Requested)
           receipt == Receipt(L, c, t.at, Requested)
           u == [t EXCEPT !.pc = IF refused THEN "next" ELSE "sending",
                          !.todo = @ \ {c}, !.tried = @ \cup {c},
                          !.target = IF refused THEN None ELSE c, !.message = 0,
                          !.failed = IF refused /\ receipt = 0 THEN @ \cup {c} ELSE @]
<1>1. /\ ledger' = Reserve(L, c, t.draft, t.at, Requested)
      /\ turns' = [turns EXCEPT ![h] = u]
  BY DEF ReserveOn
<1>2. t \in TurnType
  BY TurnFacts
<1>3. /\ u.at = t.at /\ u.draft = t.draft /\ u.pc = (IF refused THEN "next" ELSE "sending")
      /\ ~refused => u.target = c
  BY <1>2 DEF TurnType
<1> HIDE DEF u
<1>4. QED
  BY <1>1, <1>3, ReserveOnApart

LEMMA ForgetFirst ==
  ASSUME BroadcastIndInv, ApartInv, NEW c \in Channels, NEW m \in Nat \ {0},
         UNCHANGED <<now, channel>>, waived' = waived \cup Forgotten(ledger, c, m)
  PROVE  /\ Sound(Forget(ledger, c, m)) /\ Eased(Forget(ledger, c, m), c) /\ Quietly
<1>1. Quietly
  BY Clock DEF Quietly
<1>2. QED
  BY <1>1, SoundLedger, ForgetSound, ForgetEases

LEMMA NextTargetApart ==
  ASSUME BroadcastIndInv, ApartInv, NEW h \in Homes, NEW c \in Channels, NextTarget(h, c)
  PROVE  ApartInv'
<1> DEFINE t == turns[h]
<1> PICK receipt : receipt = Receipt(ledger, c, t.at, Requested)
  OBVIOUS
<1>1. /\ t.pc = "next" /\ Confirming(h) /\ UNCHANGED <<now, passes, channel>>
      /\ \/ ReserveOn(h, c, ledger) /\ UNCHANGED waived
         \/ /\ receipt # 0 /\ ReserveOn(h, c, Forget(ledger, c, receipt))
            /\ waived' = waived \cup Forgotten(ledger, c, receipt)
         \/ /\ turns' = [turns EXCEPT ![h] = [t EXCEPT !.pc = "checking", !.target = c,
                                                       !.tried = @ \cup {c},
                                                       !.message = receipt]]
            /\ UNCHANGED <<ledger, waived>>
  BY DEF NextTarget, world, Confirming
<1>2. receipt \in Nat
  BY ReceiptType
<1>3. CASE ReserveOn(h, c, ledger) /\ UNCHANGED waived
  <2>1. Quietly /\ Sound(ledger) /\ Eased(ledger, c)
    BY <1>1, <1>3, SoundLedger, Clock DEF Quietly, Eased
  <2>2. QED
    BY <1>1, <1>3, <2>1, ReserveOnMoves
<1>4. CASE /\ receipt # 0 /\ ReserveOn(h, c, Forget(ledger, c, receipt))
           /\ waived' = waived \cup Forgotten(ledger, c, receipt)
  BY <1>1, <1>2, <1>4, ForgetFirst, ReserveOnMoves
<1>5. CASE /\ turns' = [turns EXCEPT ![h] = [t EXCEPT !.pc = "checking", !.target = c,
                                                     !.tried = @ \cup {c},
                                                     !.message = receipt]]
           /\ UNCHANGED <<ledger, waived>>
  <2> DEFINE u == [t EXCEPT !.pc = "checking", !.target = c, !.tried = @ \cup {c},
                            !.message = receipt]
  <2>1. t \in TurnType
    BY TurnFacts
  <2>2. u.pc = "checking" /\ u.at = t.at
    BY <2>1 DEF TurnType
  <2> HIDE DEF u
  <2>3. QED
    BY <1>1, <1>5, <2>2, AwayApart DEF u
<1>6. QED
  BY <1>1, <1>3, <1>4, <1>5

LEMMA ReceiptCheckedApart ==
  ASSUME BroadcastIndInv, ApartInv, NEW h \in Homes, ReceiptChecked(h)
  PROVE  ApartInv'
<1>1. turns[h].pc = "checking" /\ Confirming(h) /\ UNCHANGED <<now, passes, channel>>
  BY DEF ReceiptChecked, world, Confirming
<1>2. PICK c, m : c = turns[h].target /\ m = turns[h].message
  OBVIOUS
<1>3. c \in Channels /\ m \in Nat \ {0}
  BY <1>1, <1>2, TurnFacts DEF Apart, TurnType
<1>4. \/ /\ ReserveOn(h, c, Forget(ledger, c, m))
         /\ waived' = waived \cup Forgotten(ledger, c, m)
      \/ ReserveOn(h, c, ledger) /\ UNCHANGED waived
  BY <1>2 DEF ReceiptChecked, ReserveOn
<1>5. CASE ReserveOn(h, c, ledger) /\ UNCHANGED waived
  <2>1. Quietly /\ Sound(ledger) /\ Eased(ledger, c)
    BY <1>1, <1>5, SoundLedger, Clock DEF Quietly, Eased
  <2>2. QED
    BY <1>1, <1>3, <1>5, <2>1, ReserveOnMoves
<1>6. CASE /\ ReserveOn(h, c, Forget(ledger, c, m))
           /\ waived' = waived \cup Forgotten(ledger, c, m)
  BY <1>1, <1>3, <1>6, ForgetFirst, ReserveOnMoves
<1>7. QED
  BY <1>4, <1>5, <1>6

\* The answer of a send, or none: the turn leaves its row behind.
LEMMA LeavingApart ==
  ASSUME BroadcastIndInv, ApartInv, NEW h \in Homes, AtTarget(h), NEW failed, GoOn(h, failed),
         NEW c \in Channels, c = turns[h].target,
         \A x \in Channels \ {c} : ledger'.rows[x] = ledger.rows[x],
         ledger'.rows[c].token \in {ledger.rows[c].token, None}, RowFine(c)
  PROVE  ApartInv'
<1>1. /\ UNCHANGED <<now, passes, channel, waived>>
      /\ turns' = [turns EXCEPT ![h].pc = "next", ![h].failed = @ \cup failed,
                                ![h].target = None, ![h].message = 0]
  BY DEF GoOn, world
<1>2. Quietly
  BY <1>1, Clock DEF Quietly
<1>3. /\ turns'[h].pc = "next" /\ turns'[h].at = turns[h].at /\ turns[h].pc # "idle"
      /\ \A g \in Homes \ {h} : turns'[g] = turns[g]
  BY <1>1, Types DEF TurnType, AtTarget
<1>4. TurnHolds(h)'
  BY <1>1, <1>3, TurnAway DEF ApartInv
<1>5. \A x \in Channels : RowFine(x)
  BY DEF RowFine
<1>6. Confirming(h) /\ ledger.rows[c].token = turns[h].draft
  BY TurnsHold DEF AtTarget, Confirming
<1>7. \A g \in Homes \ {h} : AtTarget(g) =>
        ledger'.rows[turns[g].target] = ledger.rows[turns[g].target]
  BY <1>6, TurnLeavesTurns, TurnsHold
<1>8. \A q \in Passes : ledger'.rows[Announce].token = q => ledger.rows[Announce].token = q
  BY BroadcastAssumption DEF Tokens
<1>9. QED
  BY <1>1, <1>2, <1>3, <1>4, <1>5, <1>7, <1>8, TurnMoves

LEMMA DraftPostedApart ==
  ASSUME BroadcastIndInv, ApartInv, NEW h \in Homes, DraftPosted(h)
  PROVE  ApartInv'
<1> PICK c, token, m, at :
      c = turns[h].target /\ token = turns[h].draft /\ m = turns[h].message /\ at = turns[h].at
  OBVIOUS
<1>1. /\ turns[h].pc = "answering" /\ AtTarget(h) /\ GoOn(h, {})
      /\ ledger' = Finish(ledger, c, token, m, at)
  BY DEF DraftPosted, AtTarget
<1>2. c \in Channels /\ ledger.rows[c].token = token
  BY <1>1, TurnsHold
<1>3. AllLongAgo(c, m)
  BY <1>1 DEF ApartInv, TurnHolds, OwnOfTurn
<1>4. ledger.rows \in [Channels -> RowType]
  BY SoundLedger, LedgerParts DEF Sound
<1>5. ledger'.rows = [ledger.rows EXCEPT ![c].message = m]
  BY <1>1, <1>2 DEF Finish
<1>6. /\ \A x \in Channels \ {c} : ledger'.rows[x] = ledger.rows[x]
      /\ ledger'.rows[c].token = token /\ ledger'.rows[c].message = m
      /\ ledger'.rows[c].at = ledger.rows[c].at
  BY <1>2, <1>4, <1>5 DEF RowType
<1>7. RowFine(c)
  BY <1>2, <1>3, <1>6 DEF RowFine
<1>8. QED
  BY <1>1, <1>2, <1>6, <1>7, LeavingApart

LEMMA DraftNotSentApart ==
  ASSUME BroadcastIndInv, ApartInv, NEW h \in Homes, DraftNotSent(h)
  PROVE  ApartInv'
<1> PICK c, token : c = turns[h].target /\ token = turns[h].draft
  OBVIOUS
<1>1. /\ turns[h].pc = "sending" /\ AtTarget(h) /\ GoOn(h, {c})
      /\ ledger' = Release(ledger, c, token)
  BY DEF DraftNotSent, AtTarget
<1>2. c \in Channels /\ token \in Tokens
  BY <1>1, TurnsHold DEF Tokens
<1>3. \A x \in Channels : \/ ledger'.rows[x] = ledger.rows[x]
                          \/ x = c /\ ledger'.rows[x] = NoRow
  BY <1>1, <1>2, SoundLedger, ReleaseSound
<1>4. AllLongAgo(c, 0)'
  <2>1. AllLongAgo(c, 0)
    BY <1>1 DEF ApartInv, TurnHolds, OwnOfTurn
  <2>2. Quietly
    BY <1>1, Clock DEF Quietly, GoOn, world
  <2>3. QED
    BY <1>2, <2>1, <2>2, AgoStays
<1>5. RowFine(c)
  BY <1>4 DEF RowFine
<1>6. ledger'.rows[c].token \in {ledger.rows[c].token, None}
  BY <1>2, <1>3 DEF NoRow
<1>7. \A x \in Channels \ {c} : ledger'.rows[x] = ledger.rows[x]
  BY <1>3
<1>8. QED
  BY <1>1, <1>2, <1>5, <1>6, <1>7, LeavingApart

LEMMA DraftUnconfirmedApart ==
  ASSUME BroadcastIndInv, ApartInv, NEW h \in Homes, DraftUnconfirmed(h)
  PROVE  ApartInv'
<1> PICK c : c = turns[h].target
  OBVIOUS
<1>1. AtTarget(h) /\ GoOn(h, {c}) /\ ledger' = ledger
  BY DEF DraftUnconfirmed, AtTarget
<1>2. c \in Channels
  BY <1>1, TurnsHold
<1>3. RowFine(c)
  BY <1>1 DEF RowFine
<1>4. QED
  BY <1>1, <1>2, <1>3, LeavingApart

\* The post of a draft, over none that is not of long ago.
LEMMA SendDraftApart ==
  ASSUME BroadcastIndInv, ApartInv, NEW h \in Homes, SendDraft(h)
  PROVE  /\ \A i \in 1..Len(channel[turns[h].target]) : LongAgo(turns[h].target, i)
         /\ ApartInv'
<1> PICK c, token : c = turns[h].target /\ token = turns[h].draft
  OBVIOUS
<1>1. /\ turns[h].pc = "sending" /\ AtTarget(h) /\ Confirming(h) /\ Post(c, token)
      /\ turns' = [turns EXCEPT ![h].pc = "answering", ![h].message = Len(channel[c]) + 1]
      /\ UNCHANGED <<now, ledger, passes, waived>>
  BY DEF SendDraft, history, AtTarget, Confirming
<1>2. /\ c \in Channels /\ Held(c) /\ ledger.rows[c].token = token
      /\ token \in Drafts /\ token \in Tokens /\ now - ledger.rows[c].at <= Patience
  BY <1>1, TurnsHold DEF Tokens
<1>3. AllLongAgo(c, 0)
  BY <1>1 DEF ApartInv, TurnHolds, OwnOfTurn
<1>4. \A i \in 1..Len(channel[c]) : LongAgo(c, i)
  BY <1>2, <1>3, PostTimes DEF AllLongAgo
<1>5. PostedAt(c)
  BY <1>1, <1>2, PostAppends
<1>6. \A x \in Channels : PostsGuarded(x)'
  BY <1>1, <1>2, <1>4, <1>5, PostedGuarded
<1>7. /\ turns'[h].pc = "answering" /\ turns'[h].message = Len(channel[c]) + 1
      /\ turns'[h].at = turns[h].at /\ turns'[h].target = c /\ turns'[h].draft = token
      /\ \A g \in Homes \ {h} : turns'[g] = turns[g]
  BY <1>1, Types DEF TurnType
<1>8. ASSUME NEW g \in Homes PROVE TurnHolds(g)'
  <2>1. CASE g = h
    <3> PICK m : m = Len(channel[c]) + 1
      OBVIOUS
    <3>1. AllLongAgo(c, m)'
      BY <1>1, <1>2, <1>4, <1>5, PostedAgo
    <3>2. now - turns[h].at <= Patience /\ ledger.rows[c].at = turns[h].at
      BY <1>1 DEF ApartInv, TurnHolds, AtTarget
    <3>3. /\ OwnOfTurn(turns'[h]) = m /\ turns'[h].target = c /\ turns'[h].draft = token
          /\ turns'[h].at = turns[h].at
      BY <1>7 DEF OwnOfTurn
    <3>4. ledger' = ledger /\ now' = now
          /\ ledger.rows[c].token = token /\ ledger.rows[c].message = 0
      BY <1>1, <1>2 DEF Held
    <3>5. QED
      BY <2>1, <3>1, <3>2, <3>3, <3>4 DEF TurnHolds
  <2>2. CASE g # h
    <3>1. AtTarget(g) => turns[g].target # c
      BY <1>1, <1>2, <2>2, TurnLeavesTurns
    <3>2. QED
      BY <1>1, <1>2, <1>5, <1>7, <2>2, <3>1, ElsewhereTurnStays DEF ApartInv
  <2>3. QED
    BY <2>1, <2>2
<1>9. ASSUME NEW q \in Passes PROVE PassHolds(q)'
  <2>1. CASE c = Announce
    BY <1>1, <1>2, <2>1, BroadcastAssumption DEF PassHolds
  <2>2. CASE c # Announce
    <3>1. channel'[Announce] = channel[Announce]
      BY <1>5, <2>2, BroadcastAssumption DEF PostedAt
    <3>2. QED
      BY <1>1, <3>1 DEF ApartInv, PassHolds, OwnOfPass, AllLongAgo, LongAgo
  <2>3. QED
    BY <2>1, <2>2
<1>10. QED
  BY <1>4, <1>6, <1>8, <1>9 DEF ApartInv

-----------------------------------------------------------------------------

LEMMA ApartStep ==
  ASSUME BroadcastIndInv, ApartInv, [BroadcastNext]_vars PROVE ApartInv'
<1>1. CASE UNCHANGED vars
  <2>1. Quietly /\ UNCHANGED <<now, turns, passes, ledger>>
    BY <1>1, Clock DEF vars, world, history, Quietly
  <2>2. QED
    BY <2>1, NothingMoves
<1>2. CASE Tick \/ Crash
  BY <1>2, TickApart, CrashApart
<1>3. ASSUME NEW c \in Channels, NEW i \in 1..Len(channel[c]), DeletePost(c, i)
      PROVE  ApartInv'
  <2>1. Quietly /\ UNCHANGED <<now, turns, passes, ledger>>
    BY <1>3, Clock DEF DeletePost, history, Quietly
  <2>2. QED
    BY <2>1, NothingMoves
<1>4. ASSUME NEW p \in Passes, PassStep(p) PROVE ApartInv'
  BY <1>4, StartPassApart, ReservePassApart, WrittenApart, SendPassApart, PassPostedApart,
     PassFailedApart DEF PassStep
<1>5. ASSUME NEW h \in Homes, TurnStep(h) PROVE ApartInv'
  <2>1. ASSUME NEW d \in Drafts, SaveDraft(h, d) PROVE ApartInv'
    <3>1. Quietly /\ UNCHANGED <<now, turns, passes, ledger>>
      BY <2>1, Clock DEF SaveDraft, world, history, Quietly
    <3>2. QED
      BY <3>1, NothingMoves
  <2>2. QED
    BY <1>5, <2>1, ThinkingApart, NextTargetApart, ReceiptCheckedApart, SendDraftApart,
       DraftPostedApart, DraftNotSentApart, DraftUnconfirmedApart DEF TurnStep
<1>6. QED
  BY <1>1, <1>2, <1>3, <1>4, <1>5 DEF BroadcastNext

\* Every post is replaced on purpose, or old, or the row of its channel stands for
\* it and refuses who comes.
THEOREM ApartInvariant == BroadcastSpec => []ApartInv
<1>1. BroadcastInit => ApartInv
  BY ApartStarts
<1>2. BroadcastIndInv /\ ApartInv /\ [BroadcastNext]_vars => ApartInv'
  BY ApartStep
<1>3. QED
  BY <1>1, <1>2, AnnouncementInvariant, PTL DEF BroadcastSpec

\* The row before and the receipt after are enough, with turns and renewals that
\* end in time, for two announcements of an occurrence in a channel to be a lease
\* apart, whoever sends them and whatever crashed or was lost in between.
THEOREM AnnouncementsApart == BroadcastSpec => SendsApart
<1> DEFINE A == \A c \in Channels : Posts(c) =>
                  \A i \in 1..Len(channel[c]) :
                    <<c, i>> \in waived \/ now - channel[c][i].at >= Lease - Patience
<1>1. BroadcastIndInv /\ ApartInv /\ [BroadcastNext]_vars => A
  <2> SUFFICES ASSUME BroadcastIndInv, ApartInv, [BroadcastNext]_vars,
                      NEW c \in Channels, Posts(c), NEW i \in 1..Len(channel[c])
               PROVE  LongAgo(c, i)
    BY DEF LongAgo
  <2>1. CASE \E p \in Passes : SendPass(p) /\ c = Announce
    BY <2>1, SendPassApart
  <2>2. CASE \E h \in Homes : SendDraft(h) /\ c = turns[h].target
    BY <2>2, SendDraftApart
  <2>3. QED
    BY <2>1, <2>2, WhoPosts
<1>2. QED
  BY <1>1, AnnouncementInvariant, ApartInvariant, PTL DEF BroadcastSpec, SendsApart

-----------------------------------------------------------------------------
(* The sweep of a banner (AnnounceSweep).                                  *)

(* Least and greatest of a set of positions.                               *)

LEMMA LeastOf ==
  ASSUME NEW S \in SUBSET Nat, S # {}
  PROVE  Min(S) \in S /\ \A y \in S : Min(S) <= y
<1> DEFINE R == OpToRel(<, Nat)
<1>1. \A x, y \in Nat : y < x => <<y, x>> \in R
  BY DEF OpToRel
<1>2. IsWellFoundedOn(R, Nat)
  BY NatLessThanWellFounded
<1> HIDE DEF R
<1>3. PICK x \in S : \A y \in S : ~ (<<y, x>> \in R)
  BY <1>2, WFMin
<1>4. ASSUME NEW y \in S PROVE x <= y
  <2>1. x \in Nat /\ y \in Nat
    OBVIOUS
  <2>2. ~(y < x)
    BY <1>1, <1>3, <2>1
  <2>3. QED
    BY <2>1, <2>2
<1>5. QED
  BY <1>4 DEF Min

LEMMA GreatestOf ==
  ASSUME NEW n \in Nat, NEW S \in SUBSET (0..n), S # {}
  PROVE  Max(S) \in S /\ \A y \in S : Max(S) >= y
<1> DEFINE T == {n - y : y \in S}
<1>1. T \in SUBSET Nat /\ T # {}
  <2>1. \A y \in S : y \in 0..n /\ n - y \in Nat
    OBVIOUS
  <2>2. QED
    BY <2>1
<1>2. Min(T) \in T /\ \A y \in T : Min(T) <= y
  BY <1>1, LeastOf
<1>3. PICK x \in S : n - x = Min(T)
  BY <1>2
<1>4. ASSUME NEW y \in S PROVE x >= y
  <2>1. n - y \in T
    OBVIOUS
  <2>2. Min(T) <= n - y
    BY <1>2, <2>1
  <2>3. x \in Int /\ y \in Int
    OBVIOUS
  <2>4. n - x <= n - y
    BY <1>3, <2>2
  <2> HIDE DEF T
  <2>5. QED
    BY <2>3, <2>4
<1>5. QED
  BY <1>4 DEF Max

-----------------------------------------------------------------------------
(* The sweep.                                                              *)

SendRec == [pc : {"idle", "sending", "answered", "sweeping", "over"},
            mark : Nat, sent : Nat, extra : SUBSET Nat, kept : Nat]
Writers == Sends \cup {"bot", "member"}

SweepTypes ==
  /\ feed \in Seq(Writers) /\ removed \subseteq DOMAIN feed
  /\ send \in [Sends -> SendRec]
  /\ \A i \in removed : feed[i] # "member"

\* Until it looks back, a send has its copies after its mark, and nobody but a
\* pass that mixed it up has deleted one.
Before(s) ==
  /\ send[s].pc = "idle" => CopiesOf(s) = {}
  /\ send[s].pc \in {"sending", "answered"} =>
       /\ send[s].mark <= Len(feed)
       /\ \A i \in CopiesOf(s) : i > send[s].mark
       /\ s \in Announces /\ s \notin blind => send[s].mark # 0
  /\ send[s].pc = "answered" => send[s].sent = 0 \/ send[s].sent \in CopiesOf(s)
  /\ send[s].pc \in {"idle", "sending", "answered"} /\ s \notin mixed =>
       CopiesOf(s) \cap removed = {}

\* What an announcer's look would take for a copy of another is known as mixed.
Meets(s) ==
  s \in Announces /\ send[s].pc \in {"sending", "answered"} /\ send[s].mark # 0 =>
    \A i \in Standing :
      i > send[s].mark /\ feed[i] # "member" /\ feed[i] # s =>
        s \in mixed /\ (feed[i] \in Sends => feed[i] \in mixed)

\* What a sweep still has to delete is its own, or of one that is mixed.
After(s) ==
  send[s].pc \in {"sweeping", "over"} =>
    /\ send[s].extra \subseteq DOMAIN feed
    /\ \A i \in send[s].extra :
         feed[i] # "member" /\ (feed[i] \in Sends \ {s} => feed[i] \in mixed)
    /\ send[s].pc = "sweeping" <=> send[s].extra # {}
    /\ s \notin blind \cup mixed =>
         /\ StandingOf(s) =
              (IF send[s].kept = 0 THEN {} ELSE {send[s].kept}) \cup send[s].extra
         /\ send[s].kept \notin send[s].extra

SweepInv == SweepTypes /\ \A s \in Sends : Before(s) /\ Meets(s) /\ After(s)

LEMMA SweepStarts == SweepInit => SweepInv
<1> SUFFICES ASSUME SweepInit PROVE SweepInv
  OBVIOUS
<1>1. /\ feed \in Seq(Writers) /\ \A i \in DOMAIN feed : feed[i] = "member"
  <2>1. feed = <<>> \/ feed = <<"member">>
    BY DEF SweepInit
  <2>2. "member" \in Writers
    BY DEF Writers
  <2>3. QED
    <3>1. CASE feed = <<>>
      BY <3>1
    <3>2. CASE feed = <<"member">>
      BY <2>2, <3>2
    <3>3. QED
      BY <2>1, <3>1, <3>2
<1>2. \A s \in Sends : send[s] = NewSend /\ CopiesOf(s) = {}
  BY <1>1, SweepAssumption DEF SweepInit, CopiesOf, SweepAssumption
<1>3. SweepTypes
  BY <1>1 DEF SweepInit, SweepTypes, NewSend, SendRec
<1>4. QED
  BY <1>2, <1>3 DEF SweepInv, Before, Meets, After, NewSend

\* One more message at the end of the channel.
LEMMA Grown ==
  ASSUME SweepTypes, NEW x \in Writers, feed' = Append(feed, x), removed' = removed
  PROVE  /\ Len(feed) \in Nat /\ Len(feed') = Len(feed) + 1
         /\ feed' \in Seq(Writers) /\ feed'[Len(feed) + 1] = x
         /\ DOMAIN feed = 1..Len(feed)
         /\ DOMAIN feed' = DOMAIN feed \cup {Len(feed) + 1}
         /\ \A i \in DOMAIN feed : feed'[i] = feed[i]
         /\ \A s \in Sends \ {x} : CopiesOf(s)' = CopiesOf(s)
         /\ CopiesOf(x)' = CopiesOf(x) \cup {Len(feed) + 1}
         /\ Standing' = Standing \cup {Len(feed) + 1}
         /\ Len(feed) + 1 \notin DOMAIN feed
<1>1. /\ Len(feed) \in Nat /\ Len(feed') = Len(feed) + 1
      /\ feed' \in Seq(Writers) /\ feed'[Len(feed) + 1] = x
      /\ DOMAIN feed = 1..Len(feed)
      /\ DOMAIN feed' = 1..Len(feed')
      /\ \A i \in DOMAIN feed : feed'[i] = feed[i]
  BY DEF SweepTypes
<1>2. /\ DOMAIN feed' = DOMAIN feed \cup {Len(feed) + 1}
      /\ Len(feed) + 1 \notin DOMAIN feed
  BY <1>1
<1>3. /\ \A s \in Sends \ {x} : CopiesOf(s)' = CopiesOf(s)
      /\ CopiesOf(x)' = CopiesOf(x) \cup {Len(feed) + 1}
  BY <1>1, <1>2 DEF CopiesOf
<1>4. Standing' = Standing \cup {Len(feed) + 1}
  BY <1>2 DEF Standing, SweepTypes
<1>5. QED
  BY <1>1, <1>2, <1>3, <1>4

LEMMA WriteKeeps ==
  ASSUME SweepInv, NEW x \in Writers, feed' = Append(feed, x),
         UNCHANGED <<removed, send>>, blind \subseteq blind',
         x \in Sends =>
           send[x].pc # "idle" /\ (send[x].pc \in {"sending", "answered"} \/ x \in blind'),
         mixed \subseteq mixed',
         x # "member" =>
           mixed' = mixed \cup Sweepers(x)
                          \cup (IF Sweepers(x) = {} THEN {} ELSE {x} \cap Sends)
  PROVE  SweepInv'
<1>1. /\ SweepTypes /\ send \in [Sends -> SendRec] /\ removed \subseteq DOMAIN feed
  BY DEF SweepInv, SweepTypes
<1>2. /\ Len(feed) \in Nat /\ Len(feed') = Len(feed) + 1
      /\ feed' \in Seq(Writers) /\ feed'[Len(feed) + 1] = x
      /\ DOMAIN feed = 1..Len(feed)
      /\ DOMAIN feed' = DOMAIN feed \cup {Len(feed) + 1}
      /\ \A i \in DOMAIN feed : feed'[i] = feed[i]
      /\ \A s \in Sends \ {x} : CopiesOf(s)' = CopiesOf(s)
      /\ CopiesOf(x)' = CopiesOf(x) \cup {Len(feed) + 1}
      /\ Standing' = Standing \cup {Len(feed) + 1}
      /\ Len(feed) + 1 \notin DOMAIN feed
  BY <1>1, Grown
<1>3. SweepTypes'
  BY <1>1, <1>2 DEF SweepTypes
<1>4. ASSUME NEW s \in Sends PROVE Before(s)' /\ Meets(s)' /\ After(s)'
  <2>1. Before(s) /\ Meets(s) /\ After(s) /\ send[s] \in SendRec
    BY <1>1 DEF SweepInv
  <2>2. Before(s)'
    <3>1. send[s].mark \in Nat /\ send[s].sent \in Nat
      BY <2>1 DEF SendRec
    <3>2. CASE s = x
      <4>1. send[s].pc # "idle" /\ CopiesOf(s)' = CopiesOf(s) \cup {Len(feed) + 1}
        BY <1>2, <3>2
      <4>2. CopiesOf(s)' \cap removed' = CopiesOf(s) \cap removed
        BY <1>1, <1>2, <4>1
      <4>3. send[s].pc \in {"sending", "answered"} => \A i \in CopiesOf(s)' : i > send[s].mark
        BY <1>2, <2>1, <3>1, <4>1 DEF Before
      <4>4. QED
        BY <1>2, <2>1, <3>1, <4>1, <4>2, <4>3 DEF Before
    <3>3. CASE s # x
      <4>1. CopiesOf(s)' = CopiesOf(s)
        BY <1>2, <3>3
      <4>2. QED
        BY <1>2, <2>1, <3>1, <4>1 DEF Before
    <3>4. QED
      BY <3>2, <3>3
  <2>3. Meets(s)'
    <3>1. SUFFICES ASSUME s \in Announces, send[s].pc \in {"sending", "answered"},
                          send[s].mark # 0, NEW i \in Standing', i > send[s].mark,
                          feed'[i] # "member", feed'[i] # s
                   PROVE  s \in mixed' /\ (feed'[i] \in Sends => feed'[i] \in mixed')
      BY DEF Meets
    <3>2. CASE i \in Standing
      <4>1. feed'[i] = feed[i]
        BY <1>2, <3>2 DEF Standing
      <4>2. QED
        BY <2>1, <3>1, <3>2, <4>1 DEF Meets
    <3>3. CASE i = Len(feed) + 1
      <4>1. feed'[i] = x
        BY <1>2, <3>3
      <4>2. s \in Sweepers(x)
        BY <3>1, <4>1 DEF Sweepers
      <4>3. QED
        BY <3>1, <4>1, <4>2
    <3>4. QED
      BY <1>2, <3>1, <3>2, <3>3
  <2>4. After(s)'
    <3>1. SUFFICES ASSUME send[s].pc \in {"sweeping", "over"} PROVE After(s)'
      BY DEF After
    <3>2. s \notin blind' => s \notin blind /\ CopiesOf(s)' = CopiesOf(s)
      BY <1>2, <3>1
    <3>3. \A i \in send[s].extra : i \in DOMAIN feed /\ i \in DOMAIN feed' /\ feed'[i] = feed[i]
      BY <1>2, <2>1, <3>1 DEF After
    <3>4. QED
      BY <2>1, <3>1, <3>2, <3>3 DEF After, StandingOf
  <2>5. QED
    BY <2>2, <2>3, <2>4
<1>5. QED
  BY <1>3, <1>4 DEF SweepInv

\* A step of one send alone, that deletes nothing of what is not mixed.
LEMMA OthersKeep ==
  ASSUME SweepInv, NEW s \in Sends, NEW t \in Sends, t # s,
         send'[t] = send[t], UNCHANGED <<feed, mixed>>,
         blind \subseteq blind', blind' \subseteq blind \cup {s},
         removed \subseteq removed',
         \A i \in removed' \ removed : feed[i] = t => t \in mixed
  PROVE  Before(t)' /\ Meets(t)' /\ After(t)'
<1>1. Before(t) /\ Meets(t) /\ After(t)
  BY DEF SweepInv
<1>2. CopiesOf(t)' = CopiesOf(t) /\ Standing' \subseteq Standing
  BY DEF CopiesOf, Standing
<1>3. t \notin mixed => /\ CopiesOf(t)' \cap removed' = CopiesOf(t) \cap removed
                        /\ StandingOf(t)' = StandingOf(t)
  BY <1>2 DEF CopiesOf, StandingOf
<1>4. Before(t)'
  BY <1>1, <1>2, <1>3 DEF Before
<1>5. Meets(t)'
  BY <1>1, <1>2 DEF Meets
<1>6. After(t)'
  BY <1>1, <1>2, <1>3 DEF After
<1>7. QED
  BY <1>4, <1>5, <1>6

LEMMA MarkKeeps ==
  ASSUME SweepInv, NEW s \in Sends, Mark(s) PROVE SweepInv'
<1>1. /\ SweepTypes /\ send \in [Sends -> SendRec] /\ Before(s) /\ send[s].pc = "idle"
      /\ UNCHANGED <<feed, removed, mixed>>
  BY DEF SweepInv, SweepTypes, Mark
<1>2. Len(feed) \in Nat /\ DOMAIN feed = 1..Len(feed)
  BY <1>1 DEF SweepTypes
<1>3. /\ Max(Standing \cup {0}) \in 0..Len(feed)
      /\ \A i \in Standing : Max(Standing \cup {0}) >= i
  <2>1. Standing \cup {0} \in SUBSET (0..Len(feed)) /\ Standing \cup {0} # {}
    BY <1>2 DEF Standing
  <2>2. /\ Max(Standing \cup {0}) \in Standing \cup {0}
        /\ \A i \in Standing \cup {0} : Max(Standing \cup {0}) >= i
    BY <1>2, <2>1, GreatestOf
  <2>3. QED
    BY <2>1, <2>2
<1>4. PICK m \in 0..Len(feed) :
        /\ send' = [send EXCEPT ![s].pc = "sending", ![s].mark = m]
        /\ m = 0 \/ s \notin Announces \/ \A i \in Standing : m >= i
  <2>1. \/ send' = [send EXCEPT ![s].pc = "sending", ![s].mark = Max(Standing \cup {0})]
        \/ send' = [send EXCEPT ![s].pc = "sending",
                      ![s].mark = IF s \in Announces THEN 0 ELSE Len(feed)]
    BY DEF Mark
  <2>2. CASE send' = [send EXCEPT ![s].pc = "sending", ![s].mark = Max(Standing \cup {0})]
    BY <1>3, <2>2
  <2>3. CASE send' = [send EXCEPT ![s].pc = "sending",
                        ![s].mark = IF s \in Announces THEN 0 ELSE Len(feed)]
    <3> DEFINE m == IF s \in Announces THEN 0 ELSE Len(feed)
    <3>1. m \in 0..Len(feed) /\ (m = 0 \/ s \notin Announces)
      BY <1>2
    <3>2. send' = [send EXCEPT ![s].pc = "sending", ![s].mark = m]
      BY <2>3
    <3> HIDE DEF m
    <3>3. QED
      BY <3>1, <3>2
  <2>4. QED
    BY <2>1, <2>2, <2>3
<1>5. /\ send'[s].pc = "sending" /\ send'[s].mark = m
      /\ send' \in [Sends -> SendRec] /\ \A t \in Sends \ {s} : send'[t] = send[t]
  <2> DEFINE g == [send[s] EXCEPT !.pc = "sending", !.mark = m]
  <2>1. g \in SendRec /\ g.pc = "sending" /\ g.mark = m
    <3>1. send[s] \in SendRec /\ m \in Nat
      BY <1>1, <1>2
    <3>2. QED
      BY <3>1 DEF SendRec
  <2>2. send' = [send EXCEPT ![s] = g]
    BY <1>4
  <2> HIDE DEF g
  <2>3. QED
    BY <1>1, <2>1, <2>2
<1>6. /\ blind \subseteq blind' /\ blind' \subseteq blind \cup {s}
      /\ s \in Announces /\ m = 0 => s \in blind'
  BY <1>5 DEF Mark
<1>7. CopiesOf(s) = {} /\ CopiesOf(s)' = {}
  BY <1>1 DEF Before, CopiesOf
<1>8. Before(s)'
  BY <1>1, <1>2, <1>4, <1>5, <1>6, <1>7 DEF Before
<1>9. Meets(s)'
  <2>1. SUFFICES ASSUME s \in Announces, m # 0, NEW i \in Standing', i > m
                 PROVE  FALSE
    BY <1>5 DEF Meets
  <2>2. i \in Standing /\ m >= i /\ i \in Nat
    BY <1>1, <1>2, <1>4, <2>1 DEF Standing
  <2>3. QED
    BY <2>1, <2>2
<1>10. After(s)'
  BY <1>5 DEF After
<1>11. \A t \in Sends \ {s} : Before(t)' /\ Meets(t)' /\ After(t)'
  BY <1>1, <1>5, <1>6, OthersKeep
<1>12. SweepTypes'
  BY <1>1, <1>5 DEF SweepTypes
<1>13. QED
  BY <1>8, <1>9, <1>10, <1>11, <1>12 DEF SweepInv

LEMMA AnsweredKeeps ==
  ASSUME SweepInv, NEW s \in Sends, NEW i, i = 0 \/ i \in CopiesOf(s), Answered(s, i)
  PROVE  SweepInv'
<1>1. /\ SweepTypes /\ send \in [Sends -> SendRec] /\ Before(s) /\ Meets(s)
      /\ send[s].pc = "sending" /\ UNCHANGED <<feed, removed, mixed, blind>>
      /\ send' = [send EXCEPT ![s].pc = "answered", ![s].sent = i]
  BY DEF SweepInv, SweepTypes, Answered
<1>2. i \in Nat
  BY <1>1 DEF CopiesOf, SweepTypes
<1>3. /\ send'[s].pc = "answered" /\ send'[s].sent = i /\ send'[s].mark = send[s].mark
      /\ send' \in [Sends -> SendRec] /\ \A t \in Sends \ {s} : send'[t] = send[t]
  BY <1>1, <1>2 DEF SendRec
<1>4. CopiesOf(s)' = CopiesOf(s) /\ Standing' = Standing
  BY <1>1 DEF CopiesOf, Standing
<1>5. Before(s)'
  BY <1>1, <1>3, <1>4 DEF Before
<1>6. Meets(s)'
  BY <1>1, <1>3, <1>4 DEF Meets
<1>7. After(s)'
  BY <1>3 DEF After
<1>8. \A t \in Sends \ {s} : Before(t)' /\ Meets(t)' /\ After(t)'
  BY <1>1, <1>3, OthersKeep
<1>9. SweepTypes'
  BY <1>1, <1>3 DEF SweepTypes
<1>10. QED
  BY <1>5, <1>6, <1>7, <1>8, <1>9 DEF SweepInv

\* A look that held everything finds each copy of the send that stands.
LEMMA LooksAtAll ==
  ASSUME SweepInv, NEW s \in Sends, send[s].pc = "answered", s \notin mixed,
         s \in Announces =>
           /\ send[s].mark # 0
           /\ Cardinality({i \in Standing : i > send[s].mark}) <= Page
  PROVE  Landed(s) = CopiesOf(s) /\ CopiesOf(s) \cap removed = {}
<1>1. SweepTypes /\ Before(s) /\ Meets(s) /\ send[s] \in SendRec
  BY DEF SweepInv, SweepTypes
<1> DEFINE after == {i \in Standing : i > send[s].mark}
           page == {i \in after : Cardinality({j \in after : j <= i}) <= Page}
<1>2. /\ CopiesOf(s) \cap removed = {} /\ CopiesOf(s) \subseteq after
      /\ \A i \in after : i \in CopiesOf(s) <=> feed[i] = s
  BY <1>1 DEF Before, CopiesOf, Standing
<1>3. CASE s \in Texts
  <2>1. s \notin Announces
    BY <1>3, SweepAssumption DEF SweepAssumption
  <2>2. Landed(s) = {i \in after : feed[i] = s}
    BY <2>1 DEF Landed, By
  <2>3. QED
    BY <1>2, <2>2
<1>4. CASE s \in Announces
  <2>1. page = after
    <3>1. IsFiniteSet(after)
      <4>1. Len(feed) \in Nat /\ DOMAIN feed = 1..Len(feed)
        BY <1>1 DEF SweepTypes
      <4>2. IsFiniteSet(1..Len(feed)) /\ after \subseteq 1..Len(feed)
        BY <4>1, FS_Interval DEF Standing
      <4>3. QED
        BY <4>2, FS_Subset
    <3>2. ASSUME NEW i \in after PROVE Cardinality({j \in after : j <= i}) <= Page
      <4>1. /\ {j \in after : j <= i} \subseteq after
            /\ Cardinality({j \in after : j <= i}) <= Cardinality(after)
            /\ IsFiniteSet({j \in after : j <= i})
        BY <3>1, FS_Subset
      <4>2. Cardinality(after) \in Nat /\ Cardinality({j \in after : j <= i}) \in Nat
        BY <3>1, <4>1, FS_CardinalityType
      <4>3. Cardinality(after) <= Page /\ Page \in Nat
        BY <1>4, SweepAssumption DEF SweepAssumption
      <4> HIDE DEF after
      <4>4. QED
        BY <4>1, <4>2, <4>3
    <3>3. QED
      BY <3>2
  <2>2. Landed(s) = {i \in after : feed[i] \in {"bot"} \cup Sends}
    BY <1>4, <2>1 DEF Landed, By
  <2>3. ASSUME NEW i \in after, feed[i] \in {"bot"} \cup Sends PROVE feed[i] = s
    BY <1>1, <1>4, <2>3, SweepAssumption DEF Meets, SweepAssumption
  <2>4. QED
    BY <1>2, <2>2, <2>3
<1>5. QED
  BY <1>3, <1>4 DEF Sends

\* Whatever the look held, it takes for a copy what is its own or is mixed.
LEMMA LooksAtOwn ==
  ASSUME SweepInv, NEW s \in Sends, send[s].pc = "answered",
         s \in Texts \/ send[s].mark # 0, NEW i \in Landed(s)
  PROVE  /\ i \in DOMAIN feed /\ i \in Nat /\ i # 0 /\ feed[i] # "member"
         /\ feed[i] \in Sends \ {s} => feed[i] \in mixed
<1>1. SweepTypes /\ Meets(s)
  BY DEF SweepInv
<1>2. i \in Standing /\ i > send[s].mark /\ feed[i] \in By(s)
  BY DEF Landed
<1>3. i \in DOMAIN feed /\ i \in Nat /\ i # 0
  BY <1>1, <1>2 DEF Standing, SweepTypes
<1>4. feed[i] # "member"
  BY <1>2, SweepAssumption DEF By, SweepAssumption
<1>5. feed[i] \in Sends \ {s} => feed[i] \in mixed
  <2>1. CASE s \in Announces
    BY <1>1, <1>2, <1>4, <2>1, SweepAssumption DEF Meets, SweepAssumption
  <2>2. CASE s \notin Announces
    BY <1>2, <2>2 DEF By
  <2>3. QED
    BY <2>1, <2>2
<1>6. QED
  BY <1>3, <1>4, <1>5

LEMMA SettleKeeps ==
  ASSUME SweepInv, NEW s \in Sends, send[s].pc = "answered",
         NEW found, Settle(s, found), UNCHANGED <<feed, removed, mixed>>,
         blind \subseteq blind', blind' \subseteq blind \cup {s},
         \A i \in found :
           /\ i \in DOMAIN feed /\ i \in Nat /\ i # 0 /\ feed[i] # "member"
           /\ feed[i] \in Sends \ {s} => feed[i] \in mixed,
         s \notin blind' \cup mixed =>
           found = CopiesOf(s) /\ CopiesOf(s) \cap removed = {}
  PROVE  SweepInv'
<1>1. SweepTypes /\ send \in [Sends -> SendRec] /\ Before(s) /\ send[s] \in SendRec
  BY DEF SweepInv, SweepTypes
<1> DEFINE kept == IF found = {} THEN send[s].sent ELSE Min(found)
           extra == found \ {kept}
<1>2. /\ found = {} => kept = send[s].sent
      /\ found # {} => kept \in found
      /\ kept \in Nat /\ found \in SUBSET Nat
  <2>1. found \in SUBSET Nat
    OBVIOUS
  <2>2. found # {} => Min(found) \in found
    BY <2>1, LeastOf
  <2>3. send[s].sent \in Nat
    BY <1>1 DEF SendRec
  <2>4. QED
    BY <2>1, <2>2, <2>3
<1>3. send' = [send EXCEPT ![s] = Sweeping(kept, extra)]
  BY DEF Settle
<1>4. extra \in SUBSET found /\ kept \notin extra /\ (kept \in found => found = {kept} \cup extra)
  OBVIOUS
<1> HIDE DEF kept, extra
<1>5. /\ send'[s].pc = IF extra = {} THEN "over" ELSE "sweeping"
      /\ send'[s].kept = kept /\ send'[s].extra = extra
      /\ send' \in [Sends -> SendRec] /\ \A t \in Sends \ {s} : send'[t] = send[t]
  <2>1. Sweeping(kept, extra) \in SendRec
    BY <1>2, <1>4 DEF Sweeping, NewSend, SendRec
  <2>2. /\ Sweeping(kept, extra).pc = IF extra = {} THEN "over" ELSE "sweeping"
        /\ Sweeping(kept, extra).kept = kept /\ Sweeping(kept, extra).extra = extra
    BY DEF Sweeping, NewSend
  <2>3. QED
    BY <1>1, <1>3, <2>1, <2>2
<1>6. After(s)'
  <2>1. /\ extra \subseteq DOMAIN feed
        /\ \A i \in extra :
             feed[i] # "member" /\ (feed[i] \in Sends \ {s} => feed[i] \in mixed)
    BY <1>4
  <2>2. ASSUME s \notin blind' \cup mixed
        PROVE  StandingOf(s)' = (IF kept = 0 THEN {} ELSE {kept}) \cup extra
    <3>1. found = CopiesOf(s) /\ StandingOf(s)' = found
      BY <2>2 DEF StandingOf, CopiesOf
    <3>2. CASE found = {}
      BY <1>1, <1>2, <1>4, <3>1, <3>2 DEF Before
    <3>3. CASE found # {}
      BY <1>2, <1>4, <3>1, <3>3
    <3>4. QED
      BY <3>2, <3>3
  <2>3. QED
    BY <1>4, <1>5, <2>1, <2>2 DEF After
<1>7. Before(s)' /\ Meets(s)'
  BY <1>5 DEF Before, Meets
<1>8. \A t \in Sends \ {s} : Before(t)' /\ Meets(t)' /\ After(t)'
  BY <1>5, OthersKeep
<1>9. SweepTypes'
  BY <1>1, <1>5 DEF SweepTypes
<1>10. QED
  BY <1>6, <1>7, <1>8, <1>9 DEF SweepInv

LEMMA LookBackKeeps ==
  ASSUME SweepInv, NEW s \in Sends, LookBack(s) PROVE SweepInv'
<1> DEFINE look == s \in Texts \/ send[s].mark # 0
           unread == Cardinality({i \in Standing : i > send[s].mark}) > Page
<1>1. send[s].pc = "answered" /\ UNCHANGED <<feed, removed, mixed>>
  BY DEF LookBack
<1>2. CASE /\ Settle(s, IF look THEN Landed(s) ELSE {})
           /\ blind' = IF s \in Announces /\ unread THEN blind \cup {s} ELSE blind
  <2> DEFINE found == IF look THEN Landed(s) ELSE {}
  <2>1. \A i \in found :
           /\ i \in DOMAIN feed /\ i \in Nat /\ i # 0 /\ feed[i] # "member"
           /\ feed[i] \in Sends \ {s} => feed[i] \in mixed
    BY <1>1, LooksAtOwn
  <2>2. ASSUME s \notin blind' \cup mixed
        PROVE  found = CopiesOf(s) /\ CopiesOf(s) \cap removed = {}
    <3>1. s \notin blind /\ (s \in Announces => send[s].mark # 0)
      BY <1>1, <1>2, <2>2 DEF SweepInv, Before
    <3>2. look
      BY <3>1 DEF Sends
    <3>3. ASSUME s \in Announces
          PROVE  Cardinality({i \in Standing : i > send[s].mark}) <= Page
      <4>1. ~unread
        BY <1>2, <2>2, <3>3
      <4>2. Page \in Nat /\ Cardinality({i \in Standing : i > send[s].mark}) \in Nat
        <5>1. SweepTypes
          BY DEF SweepInv
        <5>2. Len(feed) \in Nat /\ DOMAIN feed = 1..Len(feed)
          BY <5>1 DEF SweepTypes
        <5>3. IsFiniteSet({i \in Standing : i > send[s].mark})
          BY <5>2, FS_Interval, FS_Subset, IsFiniteSet(1..Len(feed)) DEF Standing
        <5>4. QED
          BY <5>3, FS_CardinalityType, SweepAssumption DEF SweepAssumption
      <4>3. QED
        BY <4>1, <4>2
    <3>4. QED
      BY <1>1, <2>2, <3>1, <3>2, <3>3, LooksAtAll
  <2>3. blind \subseteq blind' /\ blind' \subseteq blind \cup {s}
    BY <1>2
  <2> HIDE DEF found
  <2>4. Settle(s, found)
    BY <1>2 DEF found
  <2>5. QED
    BY <1>1, <2>1, <2>2, <2>3, <2>4, SettleKeeps
<1>3. CASE Settle(s, {}) /\ blind' = blind \cup {s}
  BY <1>1, <1>3, SettleKeeps
<1>4. QED
  BY <1>2, <1>3 DEF LookBack

LEMMA SweepKeeps ==
  ASSUME SweepInv, NEW s \in Sends, Sweep(s) PROVE SweepInv'
<1>1. /\ SweepTypes /\ send \in [Sends -> SendRec] /\ After(s) /\ send[s] \in SendRec
      /\ send[s].pc = "sweeping" /\ UNCHANGED <<feed, mixed>>
  BY DEF SweepInv, SweepTypes, Sweep
<1> DEFINE k == send[s].kept
           i == Min(send[s].extra)
           rest == send[s].extra \ {i}
<1>2. i \in send[s].extra
  <2>1. send[s].extra \in SUBSET Nat /\ send[s].extra # {}
    BY <1>1 DEF SendRec, After
  <2>2. QED
    BY <2>1, LeastOf
<1>3. /\ i \in DOMAIN feed /\ feed[i] # "member"
      /\ feed[i] \in Sends \ {s} => feed[i] \in mixed
  BY <1>1, <1>2 DEF After
<1>4. send' = [send EXCEPT ![s] = Sweeping(k, rest)]
  BY DEF Sweep
<1>5. \/ removed' = removed \cup {i} /\ blind' = blind
      \/ blind' = blind \cup {s} /\ removed' = removed
  BY DEF Sweep
<1>6. rest \subseteq send[s].extra /\ i \notin rest /\ send[s].extra = rest \cup {i}
  BY <1>2
<1> HIDE DEF k, i, rest
<1>7. /\ send'[s].pc = IF rest = {} THEN "over" ELSE "sweeping"
      /\ send'[s].kept = k /\ send'[s].extra = rest
      /\ send' \in [Sends -> SendRec] /\ \A t \in Sends \ {s} : send'[t] = send[t]
  <2>1. Sweeping(k, rest) \in SendRec
    BY <1>1, <1>6 DEF Sweeping, NewSend, SendRec, k
  <2>2. /\ Sweeping(k, rest).pc = IF rest = {} THEN "over" ELSE "sweeping"
        /\ Sweeping(k, rest).kept = k
        /\ Sweeping(k, rest).extra = rest
    BY DEF Sweeping, NewSend
  <2>3. QED
    BY <1>1, <1>4, <2>1, <2>2
<1>8. After(s)'
  <2>1. /\ rest \subseteq DOMAIN feed
        /\ \A j \in rest :
             feed[j] # "member" /\ (feed[j] \in Sends \ {s} => feed[j] \in mixed)
    BY <1>1, <1>6 DEF After
  <2>2. ASSUME s \notin blind' \cup mixed
        PROVE  /\ StandingOf(s)' =
                    (IF k = 0 THEN {} ELSE {k}) \cup rest
               /\ k \notin rest
    <3>1. removed' = removed \cup {i} /\ s \notin blind \cup mixed
      BY <1>1, <1>5, <2>2
    <3>2. /\ StandingOf(s) = (IF k = 0 THEN {} ELSE {k})
                               \cup send[s].extra
          /\ k \notin send[s].extra
      BY <1>1, <3>1 DEF After, k
    <3>3. StandingOf(s)' = StandingOf(s) \ {i}
      BY <1>1, <3>1 DEF StandingOf, CopiesOf
    <3>4. k # i
      BY <1>2, <3>2
    <3>5. QED
      BY <1>6, <3>2, <3>3, <3>4
  <2>3. QED
    BY <1>1, <1>7, <2>1, <2>2 DEF After
<1>9. Before(s)' /\ Meets(s)'
  BY <1>7 DEF Before, Meets
<1>10. \A t \in Sends \ {s} : Before(t)' /\ Meets(t)' /\ After(t)'
  <2>1. ASSUME NEW t \in Sends \ {s}
        PROVE  \A j \in removed' \ removed : feed[j] = t => t \in mixed
    BY <1>3, <1>5
  <2>2. QED
    BY <1>1, <1>5, <1>7, <2>1, OthersKeep
<1>11. SweepTypes'
  BY <1>1, <1>3, <1>5, <1>7 DEF SweepTypes
<1>12. QED
  BY <1>8, <1>9, <1>10, <1>11 DEF SweepInv

LEMMA SweepInvKept ==
  ASSUME SweepInv, [SweepNext]_sweepVars PROVE SweepInv'
<1>1. ASSUME NEW who \in {"bot", "member"}, Others(who) PROVE SweepInv'
  <2>1. who \notin Sends /\ who \in Writers
    BY SweepAssumption DEF SweepAssumption, Writers
  <2>2. QED
    BY <1>1, <2>1, WriteKeeps DEF Others, Write
<1>2. ASSUME NEW s \in Sends, Land(s) \/ LandLate(s) PROVE SweepInv'
  <2>1. s \in Writers /\ s # "member"
    BY SweepAssumption DEF SweepAssumption, Writers
  <2>2. QED
    BY <1>2, <2>1, WriteKeeps DEF Land, LandLate, Write
<1>3. ASSUME NEW s \in Sends, SendAnswers(s) \/ SendFails(s) PROVE SweepInv'
  BY <1>3, AnsweredKeeps DEF SendAnswers, SendFails
<1>4. CASE UNCHANGED sweepVars
  BY <1>4 DEF sweepVars, SweepInv, SweepTypes, Before, Meets, After, CopiesOf, StandingOf,
              Standing
<1>5. QED
  BY <1>1, <1>2, <1>3, <1>4, MarkKeeps, LookBackKeeps, SweepKeeps DEF SweepNext

\* Wherever the copies of a post landed, what a sweep has yet to delete is a copy
\* of its own post, or of one it is known to have mixed up.
THEOREM SweepInvariant == SweepSpec => []SweepInv
  BY SweepStarts, SweepInvKept, PTL DEF SweepSpec

\* A send that saw the channel and that no pass mixed up leaves the one copy it
\* reports, and no message of a member is ever deleted.
THEOREM OneCopyIsLeft == SweepSpec => []SweptClean
<1>1. SweepInv => SweptClean
  <2>1. SUFFICES ASSUME SweepInv PROVE SweptClean
    OBVIOUS
  <2>2. ASSUME NEW s \in Sends \ (blind \cup mixed), Over(s)
        PROVE  StandingOf(s) = IF send[s].kept = 0 THEN {} ELSE {send[s].kept}
    BY <2>1, <2>2 DEF SweepInv, After, Over
  <2>3. QED
    BY <2>1, <2>2 DEF SweptClean, SweepInv, SweepTypes
<1>2. QED
  BY SweepInvariant, <1>1, PTL

-----------------------------------------------------------------------------
(* What the moderators are told (DailyPass).                               *)

Stages == {"idle", "listing", "resolving", "checking", "asking", "nudge", "nudged",
           "banner", "reminded"}
TellingStages == {"nudge", "nudged", "banner", "reminded"}

\* A run looks at sessions of two days and has news only while it tells them.
IsPass(x) ==
  /\ x \in [pc : Stages, at : Nat, force : BOOLEAN, again : BOOLEAN, day : {x.day},
            due : {x.due}, todo : SUBSET Rows, list : SUBSET Events,
            asked : SUBSET Events,
            target : {x.target}, news : {x.news}]
  /\ \A r \in x.todo : x.day[r] \in {DayAt(x.at), DayAt(x.at) + 1}
  /\ x.pc \notin TellingStages => x.news = {}
  /\ x.pc \in {"checking", "asking"} => x.todo # {}

First(x) == CHOOSE r \in x.todo : \A s \in x.todo : x.day[r] <= x.day[s]

\* The session has no event.
Unfound(t) == t = Unlinked(FALSE)

\* Of the rows that stay linked to a live event none is, or will be, thought
\* unlinked: at most the one that is being looked at is not resolved yet.
NagSafe(x, linked) ==
  /\ x.todo \cap DOMAIN x.target = {}
  /\ \A r \in DOMAIN x.target : r \in linked => ~Unfound(x.target[r])
  /\ linked \cap x.todo \subseteq IF x.pc = "checking" THEN {First(x)} ELSE {}
  /\ x.pc = "nudge" => x.news \cap linked = {}

RowsLinked ==
  /\ row \in [Rows -> [day : Nat, link : Events \cup {Nobody}]]
  /\ \A r \in Rows : row[r].day = 0 => row[r].link = Nobody

PassesSafe ==
  /\ clock \in Nat
  /\ DOMAIN pass = Runs /\ DOMAIN steady = Runs
  /\ \A p \in Runs : IsPass(pass[p]) /\ NagSafe(pass[p], steady[p])

\* What a run is telling.
Telling(p) == KeysOf(p, Kind(p))
News(x) ==
  {<<IF x.pc \in {"nudge", "nudged"} THEN "nudge" ELSE "banner", r, x.day[r]>> : r \in x.news}

\* But for the known repetitions, one run at a time tells a thing, it was not told
\* before, and what was told is recorded or about to be.
ToldApart ==
  /\ said \in [Keys -> Nat]
  /\ \A k \in Keys \ excused :
       /\ \A p, q \in Runs : k \in News(pass[p]) /\ k \in News(pass[q]) => p = q
       /\ \A p \in Runs : pass[p].pc \in {"nudge", "banner"} /\ k \in News(pass[p]) => said[k] = 0
       /\ said[k] # 0 =>
            /\ said[k] = 1
            /\ \/ k \in records
               \/ \E p \in Runs : pass[p].pc \in {"nudged", "reminded"} /\ k \in News(pass[p])

DailyInv == RowsLinked /\ PassesSafe /\ ToldApart

LEMMA IdleIsSafe ==
  /\ IsPass(IdlePass) /\ IdlePass.pc = "idle" /\ IdlePass.news = {}
  /\ \A linked : NagSafe(IdlePass, linked)
<1>1. /\ IdlePass.pc = "idle" /\ IdlePass.news = {} /\ IdlePass.todo = {}
      /\ IdlePass.target = <<>> /\ IdlePass.day = <<>>
  BY DEF IdlePass
<1>2. IsPass(IdlePass)
  BY DEF IdlePass, IsPass, Stages, TellingStages
<1>3. DOMAIN <<>> = {}
  OBVIOUS
<1>4. QED
  BY <1>1, <1>2, <1>3 DEF NagSafe

LEMMA DailyStarts == DailyInit => DailyInv
<1> SUFFICES ASSUME DailyInit PROVE DailyInv
  OBVIOUS
<1>1. RowsLinked
  BY DailyAssumption DEF DailyInit, RowsLinked, Deleted, Days
<1>2. PassesSafe
  BY IdleIsSafe DEF DailyInit, PassesSafe
<1>3. ToldApart
  BY IdleIsSafe DEF DailyInit, ToldApart, News
<1>4. QED
  BY <1>1, <1>2, <1>3 DEF DailyInv

LEMMA NewsIsTold == \A p \in Runs : Telling(p) = News(pass[p])
BY DEF Telling, KeysOf, Kind, News

\* Of the sessions that are left one is the first: they are of two days.
LEMMA FirstIsLeft ==
  ASSUME NEW x, IsPass(x), x.todo # {}
  PROVE  First(x) \in x.todo
<1> DEFINE D == DayAt(x.at)
<1>1. D \in Int /\ \A r \in x.todo : x.day[r] \in {D, D + 1}
  BY DEF IsPass, DayAt
<1> HIDE DEF D
<1>2. \E r \in x.todo : \A s \in x.todo : x.day[r] <= x.day[s]
  <2>1. CASE \E r \in x.todo : x.day[r] = D
    BY <1>1, <2>1
  <2>2. CASE \A r \in x.todo : x.day[r] # D
    BY <1>1, <2>2
  <2>3. QED
    BY <2>1, <2>2
<1>3. QED
  BY <1>2 DEF First

-----------------------------------------------------------------------------
(* What a step of one run leaves alone.                                    *)

\* Fewer linked rows are as safe.
LEMMA FewerAreSafe ==
  ASSUME NEW x, NEW s, NEW t \in SUBSET s, NagSafe(x, s)
  PROVE  NagSafe(x, t)
BY DEF NagSafe

LEMMA OneRunMoves ==
  ASSUME DailyInv, NEW p \in Runs, NEW x, pass' = [pass EXCEPT ![p] = x],
         IsPass(x), NagSafe(x, steady'[p]), DOMAIN steady' = Runs, clock' \in Nat,
         \A q \in Runs \ {p} : steady'[q] \subseteq steady[q]
  PROVE  PassesSafe'
<1>1. DOMAIN pass' = Runs /\ pass'[p] = x /\ \A q \in Runs \ {p} : pass'[q] = pass[q]
  BY DEF DailyInv, PassesSafe
<1>2. \A q \in Runs \ {p} : NagSafe(pass[q], steady'[q])
  BY FewerAreSafe DEF DailyInv, PassesSafe
<1>3. QED
  BY <1>1, <1>2 DEF DailyInv, PassesSafe

LEMMA QuietRunKeepsTold ==
  ASSUME DailyInv, NEW p \in Runs, NEW x, pass' = [pass EXCEPT ![p] = x],
         pass[p].news = {}, x.news = {}, UNCHANGED <<said, excused>>, records \subseteq records'
  PROVE  ToldApart'
<1>1. DOMAIN pass' = Runs /\ pass'[p] = x /\ \A q \in Runs \ {p} : pass'[q] = pass[q]
  BY DEF DailyInv, PassesSafe
<1>2. \A q \in Runs : News(pass'[q]) = News(pass[q]) /\ (News(pass[q]) # {} => pass'[q] = pass[q])
  BY <1>1 DEF News
<1>3. QED
  BY <1>2 DEF DailyInv, ToldApart

\* A step of the world.
LEMMA NoRunMoves ==
  ASSUME DailyInv, UNCHANGED <<pass, records, said, excused>>, clock' \in Nat,
         DOMAIN steady' = Runs, \A q \in Runs : steady'[q] \subseteq steady[q]
  PROVE  PassesSafe' /\ ToldApart'
<1>1. \A q \in Runs : NagSafe(pass[q], steady'[q])
  BY FewerAreSafe DEF DailyInv, PassesSafe
<1>2. QED
  BY <1>1 DEF DailyInv, PassesSafe, ToldApart

\* Rows stay steady only while they are linked.
LEMMA SteadyShrinks ==
  ASSUME DailyInv, StillSteady \/ (\E p \in Runs : Unsteady(p)) \/ UNCHANGED steady
  PROVE  DOMAIN steady' = Runs /\ \A q \in Runs : steady'[q] \subseteq steady[q]
<1>1. DOMAIN steady = Runs
  BY DEF DailyInv, PassesSafe
<1>2. CASE StillSteady
  BY <1>2 DEF StillSteady
<1>3. CASE \E p \in Runs : Unsteady(p)
  BY <1>1, <1>3 DEF Unsteady
<1>4. QED
  BY <1>1, <1>2, <1>3

LEMMA LinkKeepsRows ==
  ASSUME RowsLinked, NEW r \in Rows, NEW e \in Events \cup {Nobody}, Link(r, e)
  PROVE  /\ RowsLinked'
         /\ e = Nobody => row'[r].link = Nobody
<1>1. CASE row[r].day = 0
  BY <1>1 DEF RowsLinked, Link
<1>2. CASE row[r].day # 0
  <2>1. row' = [row EXCEPT ![r].link = e]
    BY <1>2 DEF Link
  <2>2. row' \in [Rows -> [day : Nat, link : Events \cup {Nobody}]]
    BY <2>1 DEF RowsLinked
  <2>3. row'[r].link = e /\ row'[r].day = row[r].day /\ \A s \in Rows \ {r} : row'[s] = row[s]
    BY <2>1 DEF RowsLinked
  <2>4. QED
    BY <1>2, <2>2, <2>3 DEF RowsLinked
<1>3. QED
  BY <1>1, <1>2

-----------------------------------------------------------------------------
(* The resolution of a session.                                            *)

\* The run goes on, safely, without telling.
MovesOn(p) ==
  \E x : /\ pass' = [pass EXCEPT ![p] = x]
        /\ IsPass(x) /\ x.news = {} /\ NagSafe(x, steady'[p])

\* The session that is looked at is resolved: to an event, or to nothing if its row
\* is not steady.
LEMMA FoundIsSafe ==
  ASSUME DailyInv, NEW p \in Runs, NEW r, r = First(pass[p]), NEW t,
         pass[p].pc \in {"resolving", "checking", "asking"}, pass[p].todo # {},
         Found(p, r, t),
         steady'[p] \subseteq steady[p] \cup {r},
         r \in steady'[p] => ~Unfound(t)
  PROVE  MovesOn(p)
<1> DEFINE linked == steady'[p]
           x == [pass[p] EXCEPT !.pc = "resolving", !.todo = @ \ {r},
                   !.target = [y \in DOMAIN @ \cup {r} |-> IF y = r THEN t ELSE @[y]],
                   !.asked = {}, !.list = IF pass[p].todo = {r} THEN {} ELSE @]
<1>1. IsPass(pass[p]) /\ p \in DOMAIN pass /\ pass[p].news = {}
  BY DEF DailyInv, PassesSafe, IsPass, TellingStages
<1>2. pass' = [pass EXCEPT ![p] = x]
  BY <1>1 DEF Found
<1>3. /\ x \in [pc : Stages, at : Nat, force : BOOLEAN, again : BOOLEAN, day : {pass[p].day},
                due : {pass[p].due}, todo : SUBSET Rows, list : SUBSET Events, asked : SUBSET Events,
                target : {[y \in DOMAIN pass[p].target \cup {r} |->
                             IF y = r THEN t ELSE pass[p].target[y]]}, news : {pass[p].news}]
      /\ x.todo = pass[p].todo \ {r} /\ x.pc = "resolving" /\ x.at = pass[p].at
  BY <1>1 DEF IsPass, Stages
<1>4. /\ x.day = pass[p].day /\ x.due = pass[p].due /\ x.asked = {} /\ x.news = {}
      /\ x.target = [y \in DOMAIN pass[p].target \cup {r} |->
                       IF y = r THEN t ELSE pass[p].target[y]]
  BY <1>1, <1>3
<1> HIDE DEF x
<1>5. IsPass(x)
  <2>1. x \in [pc : Stages, at : Nat, force : BOOLEAN, again : BOOLEAN, day : {x.day},
               due : {x.due}, todo : SUBSET Rows, list : SUBSET Events,
            asked : SUBSET Events,
               target : {x.target}, news : {x.news}]
    BY <1>1, <1>3, <1>4
  <2>2. QED
    BY <1>1, <1>3, <1>4, <2>1 DEF IsPass
<1>6. r \in pass[p].todo
  BY <1>1, FirstIsLeft
<1>7. NagSafe(pass[p], steady[p])
  BY DEF DailyInv, PassesSafe
<1>8. NagSafe(x, linked)
  <2>1. x.todo \cap DOMAIN x.target = {}
    BY <1>3, <1>4, <1>6, <1>7 DEF NagSafe
  <2>2. \A y \in DOMAIN x.target : y \in linked => ~Unfound(x.target[y])
    BY <1>4, <1>7 DEF NagSafe
  <2>3. linked \cap x.todo = {}
    BY <1>3, <1>7 DEF NagSafe
  <2>4. QED
    BY <1>3, <2>1, <2>2, <2>3 DEF NagSafe
<1>9. QED
  BY <1>2, <1>4, <1>5, <1>8 DEF MovesOn

\* Without a link that is good, the row is matched anew, given up or asked about.
LEMMA MatchIsSafe ==
  ASSUME DailyInv, NEW p \in Runs, NEW given \in BOOLEAN, NEW r, r = First(pass[p]),
         pass[p].pc \in {"resolving", "checking"}, pass[p].todo # {},
         Match(p, r, given), DOMAIN steady' = Runs,
         steady'[p] \subseteq steady[p],
         ~given => r \notin steady'[p],
         row'[r].link = Nobody => r \notin steady'[p]
  PROVE  /\ RowsLinked'
         /\ MovesOn(p)
<1>1. /\ IsPass(pass[p]) /\ p \in DOMAIN pass /\ pass[p].news = {} /\ r \in pass[p].todo
      /\ r \in Rows /\ RowsLinked
  <2>1. IsPass(pass[p]) /\ p \in DOMAIN pass /\ RowsLinked
    BY DEF DailyInv, PassesSafe
  <2>2. QED
    BY <2>1, FirstIsLeft DEF IsPass, TellingStages
<1>2. /\ NagSafe(pass[p], steady'[p]) /\ NagSafe(pass[p], steady'[p] \ {r})
      /\ steady'[p] \cap pass[p].todo \subseteq {r}
  <2>1. NagSafe(pass[p], steady[p])
    BY DEF DailyInv, PassesSafe
  <2>2. NagSafe(pass[p], steady'[p])
    BY <2>1, FewerAreSafe
  <2>3. NagSafe(pass[p], steady'[p] \ {r})
    BY <2>2, FewerAreSafe
  <2>4. QED
    BY <2>2, <2>3 DEF NagSafe
<1>3. ASSUME NEW e \in Matched(p, r), Found(p, r, Linked(e)), Link(r, e)
      PROVE  /\ RowsLinked'
             /\ MovesOn(p)
  <2>1. e \in Events /\ e # Nobody
    <3>1. pass[p].list \in SUBSET Events
      BY <1>1 DEF IsPass
    <3>2. e \in pass[p].list
      BY <1>3 DEF Matched, Candidates
    <3>3. QED
      BY <3>1, <3>2, DailyAssumption
  <2>2. ~Unfound(Linked(e))
    BY <2>1 DEF Linked, Unlinked, Unfound
  <2>3. RowsLinked'
    BY <1>1, <1>3, <2>1, LinkKeepsRows
  <2>4. /\ pass[p].pc \in {"resolving", "checking", "asking"}
        /\ steady'[p] \subseteq steady[p] \cup {r}
    OBVIOUS
  <2>5. PICK t : t = Linked(e) /\ ~Unfound(t)
    BY <2>2
  <2>6. Found(p, r, t)
    BY <1>3, <2>5 DEF Found
  <2>7. MovesOn(p)
    BY <1>2, <2>2, <2>4, <2>5, <2>6, FoundIsSafe
  <2>8. QED
    BY <2>3, <2>7
<1>4. ASSUME ~(Matched(p, r) # {})
      PROVE  RowsLinked' /\ r \notin steady'[p]
  <2>1. CASE given
    <3>1. Link(r, Nobody)
      BY <1>4, <2>1 DEF Match
    <3>2. QED
      BY <1>1, <3>1, LinkKeepsRows
  <2>2. CASE ~given
    <3>1. row' = row
      BY <1>4, <2>2 DEF Match
    <3>2. QED
      BY <1>1, <2>2, <3>1 DEF RowsLinked
  <2>3. QED
    BY <2>1, <2>2
<1>5. ASSUME ~(Matched(p, r) # {}), NEW m \in BOOLEAN, Found(p, r, Unlinked(m))
      PROVE  MovesOn(p)
  <2>1. r \notin steady'[p]
    BY <1>4, <1>5
  <2>2. /\ pass[p].pc \in {"resolving", "checking", "asking"}
        /\ steady'[p] \subseteq steady[p] \cup {r}
    OBVIOUS
  <2>3. PICK t : t = Unlinked(m)
    OBVIOUS
  <2>4. Found(p, r, t)
    BY <1>5, <2>3 DEF Found
  <2>5. QED
    BY <1>2, <2>1, <2>2, <2>4, FoundIsSafe
<1>6. ASSUME ~(Matched(p, r) # {}),
             pass' = [pass EXCEPT ![p].pc = "asking", ![p].asked = Candidates(p, r)]
      PROVE  MovesOn(p)
  <2> DEFINE x == [pass[p] EXCEPT !.pc = "asking", !.asked = Candidates(p, r)]
  <2>1. pass' = [pass EXCEPT ![p] = x]
    BY <1>1, <1>6
  <2>0. Candidates(p, r) \in SUBSET Events
    BY <1>1 DEF Candidates, IsPass
  <2>2. /\ x \in [pc : Stages, at : Nat, force : BOOLEAN, again : BOOLEAN, day : {pass[p].day},
                  due : {pass[p].due}, todo : SUBSET Rows, list : SUBSET Events,
                  asked : SUBSET Events, target : {pass[p].target}, news : {pass[p].news}]
        /\ x.todo = pass[p].todo /\ x.pc = "asking" /\ x.at = pass[p].at
        /\ x.day = pass[p].day /\ x.due = pass[p].due /\ x.asked = Candidates(p, r)
        /\ x.target = pass[p].target /\ x.news = pass[p].news
    BY <1>1, <2>0 DEF IsPass, Stages
  <2> HIDE DEF x
  <2>3. IsPass(x)
    BY <1>1, <2>2 DEF IsPass
  <2>4. NagSafe(x, steady'[p])
    <3>1. r \notin steady'[p]
      BY <1>4, <1>6
    <3>2. steady'[p] \cap pass[p].todo = {}
      BY <1>2, <3>1
    <3>3. QED
      BY <1>2, <2>2, <3>2 DEF NagSafe
  <2>5. QED
    BY <1>1, <2>1, <2>2, <2>3, <2>4 DEF MovesOn
<1>7. CASE Matched(p, r) # {}
  BY <1>3, <1>7 DEF Match
<1>8. CASE ~(Matched(p, r) # {})
  <2>1. \/ \E m \in BOOLEAN : Found(p, r, Unlinked(m))
        \/ pass' = [pass EXCEPT ![p].pc = "asking", ![p].asked = Candidates(p, r)]
    BY <1>8 DEF Match
  <2>2. QED
    BY <1>4, <1>5, <1>6, <1>8, <2>1
<1>9. QED
  BY <1>7, <1>8

-----------------------------------------------------------------------------
(* The steps of a run until it tells.                                      *)

LEMMA MoveKeeps ==
  ASSUME DailyInv, NEW p \in Runs, MovesOn(p), pass[p].news = {}, RowsLinked',
         UNCHANGED <<clock, said, excused>>, records \subseteq records',
         DOMAIN steady' = Runs, \A q \in Runs \ {p} : steady'[q] \subseteq steady[q]
  PROVE  DailyInv'
<1>1. PICK x : /\ pass' = [pass EXCEPT ![p] = x]
               /\ IsPass(x) /\ x.news = {} /\ NagSafe(x, steady'[p])
  BY DEF MovesOn
<1>2. clock' \in Nat
  BY DEF DailyInv, PassesSafe
<1>3. PassesSafe'
  BY <1>1, <1>2, OneRunMoves
<1>4. ToldApart'
  BY <1>1, QuietRunKeepsTold
<1>5. QED
  BY <1>3, <1>4 DEF DailyInv

LEMMA RowsStay == ASSUME DailyInv, UNCHANGED row PROVE RowsLinked'
BY DEF DailyInv, RowsLinked

LEMMA BeginKeeps ==
  ASSUME DailyInv, NEW p \in Runs, BeginPass(p) PROVE DailyInv'
<1> DEFINE near == {r \in Rows : row[r].day \in {DayAt(clock), DayAt(clock) + 1}}
           day == [r \in near |-> row[r].day]
<1>1. PICK force \in BOOLEAN, again \in BOOLEAN :
        pass' = [pass EXCEPT ![p] =
                   [IdlePass EXCEPT !.pc = "listing", !.at = clock, !.force = force,
                      !.again = again, !.day = day, !.todo = near,
                      !.due = Due(clock, force, again, day)]]
  BY DEF BeginPass
<1> DEFINE x == [IdlePass EXCEPT !.pc = "listing", !.at = clock, !.force = force,
                      !.again = again, !.day = day, !.todo = near,
                      !.due = Due(clock, force, again, day)]
<1>2. clock \in Nat /\ DOMAIN steady = Runs /\ IsPass(pass[p])
  BY DEF DailyInv, PassesSafe
<1>3. /\ x \in [pc : Stages, at : Nat, force : BOOLEAN, again : BOOLEAN, day : {day},
                due : {Due(clock, force, again, day)}, todo : SUBSET Rows,
                list : SUBSET Events, asked : SUBSET Events, target : {<<>>}, news : {{}}]
      /\ x.pc = "listing" /\ x.at = clock /\ x.todo = near /\ x.news = {}
      /\ x.target = <<>> /\ x.day = day /\ x.due = Due(clock, force, again, day)
  BY <1>2 DEF IdlePass, Stages
<1>4. \A r \in near : day[r] \in {DayAt(clock), DayAt(clock) + 1}
  OBVIOUS
<1>5. pass' = [pass EXCEPT ![p] = x]
  BY <1>1
<1> HIDE DEF x, near, day
<1>6. IsPass(x)
  BY <1>3, <1>4 DEF IsPass, Stages, TellingStages
<1>7. steady' = [steady EXCEPT ![p] = {}]
  BY DEF BeginPass, Unsteady
<1>8. DOMAIN steady' = Runs /\ steady'[p] = {} /\ \A q \in Runs \ {p} : steady'[q] = steady[q]
  BY <1>2, <1>7
<1>9. NagSafe(x, steady'[p])
  <2>1. DOMAIN <<>> = {}
    OBVIOUS
  <2>2. QED
    BY <1>3, <1>8, <2>1 DEF NagSafe
<1>10. MovesOn(p)
  BY <1>3, <1>5, <1>6, <1>9 DEF MovesOn
<1>11. pass[p].news = {} /\ UNCHANGED <<clock, row, records, said, excused>>
  BY <1>2 DEF BeginPass, IsPass, TellingStages
<1>12. QED
  BY <1>8, <1>10, <1>11, MoveKeeps, RowsStay

\* A change of a run's list or sessions to announce is safe.
GoesOn(p, list, due) ==
  pass' = [pass EXCEPT ![p].pc = "resolving", ![p].list = list, ![p].due = due]

LEMMA ListIsSafe ==
  ASSUME DailyInv, NEW p \in Runs, NEW list \in SUBSET Events, NEW due,
         GoesOn(p, list, due), pass[p].pc \in {"listing", "resolving"},
         steady'[p] \subseteq steady[p]
  PROVE  MovesOn(p)
<1> DEFINE x == [pass[p] EXCEPT !.pc = "resolving", !.list = list, !.due = due]
<1>1. IsPass(pass[p]) /\ NagSafe(pass[p], steady'[p]) /\ p \in DOMAIN pass
  BY FewerAreSafe DEF DailyInv, PassesSafe
<1>2. pass[p].news = {} /\ p \in DOMAIN pass
  BY <1>1 DEF IsPass, TellingStages
<1>3. pass' = [pass EXCEPT ![p] = x]
  BY <1>1 DEF GoesOn
<1>4. /\ x \in [pc : Stages, at : Nat, force : BOOLEAN, again : BOOLEAN, day : {pass[p].day},
                due : {due}, todo : SUBSET Rows, list : SUBSET Events,
                asked : SUBSET Events, target : {pass[p].target}, news : {{}}]
      /\ x.pc = "resolving" /\ x.at = pass[p].at /\ x.todo = pass[p].todo /\ x.news = {}
      /\ x.target = pass[p].target /\ x.day = pass[p].day /\ x.due = due
  BY <1>1, <1>2 DEF IsPass, Stages
<1> HIDE DEF x
<1>5. IsPass(x)
  BY <1>1, <1>4 DEF IsPass, TellingStages
<1>6. NagSafe(x, steady'[p])
  BY <1>1, <1>4 DEF NagSafe
<1>7. QED
  BY <1>3, <1>4, <1>5, <1>6 DEF MovesOn

LEMMA ListKeeps ==
  ASSUME DailyInv, NEW p \in Runs, ListEvents(p) PROVE DailyInv'
<1>1. /\ IsPass(pass[p]) /\ DOMAIN pass = Runs /\ DOMAIN steady = Runs
      /\ pass[p].pc = "listing"
  BY DEF DailyInv, PassesSafe, ListEvents
<1>2. DOMAIN steady' = Runs /\ \A q \in Runs : steady'[q] \subseteq steady[q]
  BY <1>1 DEF ListEvents, Unsteady
<1>3. PICK list \in SUBSET Events :
        pass' = [pass EXCEPT ![p].pc = "resolving", ![p].list = list]
  <2>1. CASE pass' = [pass EXCEPT ![p].pc = "resolving", ![p].list = {e \in Events : Up(e)}]
    BY <2>1
  <2>2. CASE pass' = [pass EXCEPT ![p].pc = "resolving"]
    <3>1. pass[p].list \in SUBSET Events
      BY <1>1 DEF IsPass
    <3>2. pass' = [pass EXCEPT ![p].pc = "resolving", ![p].list = pass[p].list]
      BY <1>1, <2>2 DEF IsPass
    <3>3. QED
      BY <3>1, <3>2
  <2>3. QED
    BY <2>1, <2>2 DEF ListEvents
<1>4. PICK due : due = pass[p].due
  OBVIOUS
<1>5. GoesOn(p, list, due)
  BY <1>1, <1>3, <1>4 DEF IsPass, GoesOn
<1>6. MovesOn(p)
  BY <1>1, <1>2, <1>5, ListIsSafe
<1>7. pass[p].news = {} /\ UNCHANGED <<clock, row, records, said, excused>>
  BY <1>1 DEF ListEvents, IsPass, TellingStages
<1>8. QED
  BY <1>2, <1>6, <1>7, MoveKeeps, RowsStay

LEMMA AnnounceKeeps ==
  ASSUME DailyInv, NEW p \in Runs, AnnounceDue(p) PROVE DailyInv'
<1>1. /\ IsPass(pass[p]) /\ DOMAIN pass = Runs /\ DOMAIN steady = Runs
      /\ pass[p].pc = "resolving" /\ steady' = steady
  BY DEF DailyInv, PassesSafe, AnnounceDue
<1>2. PICK r : pass' = [pass EXCEPT ![p].due = pass[p].due \ {r}]
  BY <1>1 DEF AnnounceDue
<1>3. PICK due : due = pass[p].due \ {r}
  OBVIOUS
<1>4. PICK list \in SUBSET Events : list = pass[p].list
  BY <1>1 DEF IsPass
<1>5. GoesOn(p, list, due)
  <2>1. pass[p] = [pass[p] EXCEPT !.pc = "resolving", !.list = list]
    BY <1>1, <1>4 DEF IsPass
  <2>2. [pass[p] EXCEPT !.due = due]
          = [pass[p] EXCEPT !.pc = "resolving", !.list = list, !.due = due]
    BY <1>1, <1>4, <2>1 DEF IsPass
  <2>3. QED
    BY <1>1, <1>2, <1>3, <2>2 DEF GoesOn
<1>6. MovesOn(p)
  BY <1>1, <1>5, ListIsSafe
<1>7. /\ pass[p].news = {} /\ UNCHANGED <<clock, row, said, excused>>
      /\ records \subseteq records'
  BY <1>1 DEF AnnounceDue, IsPass, TellingStages
<1>8. QED
  BY <1>1, <1>6, <1>7, MoveKeeps, RowsStay

\* Where a run comes to a session.
LEMMA ComesToFirst ==
  ASSUME DailyInv, NEW p \in Runs, pass[p].todo # {},
         pass[p].pc \in {"resolving", "checking", "asking"}
  PROVE  /\ First(pass[p]) \in pass[p].todo /\ First(pass[p]) \in Rows
         /\ Upcoming(p) = First(pass[p])
         /\ IsPass(pass[p]) /\ NagSafe(pass[p], steady[p]) /\ RowsLinked
         /\ DOMAIN pass = Runs /\ DOMAIN steady = Runs /\ pass[p].news = {}
         /\ pass[p].pc # "checking" => First(pass[p]) \notin steady[p]
<1>1. /\ IsPass(pass[p]) /\ NagSafe(pass[p], steady[p]) /\ RowsLinked
      /\ DOMAIN pass = Runs /\ DOMAIN steady = Runs
  BY DEF DailyInv, PassesSafe
<1>2. First(pass[p]) \in pass[p].todo
  BY <1>1, FirstIsLeft
<1>3. Upcoming(p) = First(pass[p])
  BY DEF Upcoming, First
<1>4. First(pass[p]) \in Rows /\ pass[p].news = {}
  BY <1>1, <1>2 DEF IsPass, TellingStages
<1>5. pass[p].pc # "checking" => First(pass[p]) \notin steady[p]
  BY <1>1, <1>2 DEF NagSafe
<1>6. QED
  BY <1>1, <1>2, <1>3, <1>4, <1>5

\* What the store links is an event.
LEMMA StoredIsFound ==
  ASSUME NEW e \in Events PROVE e # Nobody /\ ~Unfound(Linked(e))
BY DailyAssumption DEF Linked, Unlinked, Unfound

LEMMA ResolveKeeps ==
  ASSUME DailyInv, NEW p \in Runs, Resolve(p) PROVE DailyInv'
<1>1. pass[p].pc = "resolving" /\ pass[p].todo # {}
  BY DEF Resolve
<1>2. PICK r \in Rows :
        /\ r = First(pass[p])
        /\ LET stored == row[r].link IN
           /\ IF stored = Nobody THEN Match(p, r, FALSE)
              ELSE /\ UNCHANGED row
                   /\ IF stored \in pass[p].list THEN Found(p, r, Linked(stored))
                      ELSE pass' = [pass EXCEPT ![p].pc = "checking", ![p].asked = {stored}]
           /\ CameTo(p, r)
  BY <1>1, ComesToFirst DEF Resolve
<1>3. PICK stored : stored = row[r].link
  OBVIOUS
<1>4. /\ r \in pass[p].todo /\ r = Upcoming(p) /\ r \notin steady[p]
      /\ IsPass(pass[p]) /\ NagSafe(pass[p], steady[p]) /\ RowsLinked
      /\ DOMAIN pass = Runs /\ DOMAIN steady = Runs /\ pass[p].news = {}
  BY <1>1, <1>2, ComesToFirst
<1>5. stored \in Events \cup {Nobody}
  BY <1>3, <1>4 DEF RowsLinked
<1>6. steady' = [steady EXCEPT ![p] = IF Up(stored) THEN @ \cup {r} ELSE @]
  BY <1>2, <1>3 DEF CameTo
<1>7. /\ DOMAIN steady' = Runs /\ \A q \in Runs \ {p} : steady'[q] \subseteq steady[q]
      /\ steady'[p] \subseteq steady[p] \cup {r}
      /\ stored = Nobody => steady'[p] \subseteq steady[p] /\ r \notin steady'[p]
  BY <1>4, <1>6 DEF Up
<1>8. RowsLinked' /\ MovesOn(p)
  <2>1. CASE stored = Nobody
    <3>1. Match(p, r, FALSE)
      BY <1>2, <1>3, <2>1 DEF Match
    <3>2. PICK given \in BOOLEAN : given = FALSE
      OBVIOUS
    <3>3. Match(p, r, given)
      BY <3>1, <3>2 DEF Match
    <3>4. QED
      BY <1>1, <1>2, <1>7, <2>1, <3>3, MatchIsSafe
  <2>2. CASE stored # Nobody /\ stored \in pass[p].list
    <3>1. Found(p, r, Linked(stored)) /\ row' = row
      BY <1>2, <1>3, <2>2 DEF Found, Linked
    <3>2. PICK t : t = Linked(stored) /\ ~Unfound(t)
      BY <1>5, <2>2, StoredIsFound
    <3>3. Found(p, r, t)
      BY <3>1, <3>2 DEF Found
    <3>4. pass[p].pc \in {"resolving", "checking", "asking"}
      BY <1>1
    <3>5. MovesOn(p)
      BY <1>1, <1>2, <1>7, <3>2, <3>3, <3>4, FoundIsSafe
    <3>6. RowsLinked'
      BY <3>1, RowsStay
    <3>7. QED
      BY <3>5, <3>6
  <2>3. CASE stored # Nobody /\ stored \notin pass[p].list
    <3> DEFINE x == [pass[p] EXCEPT !.pc = "checking", !.asked = {stored}]
    <3>1. pass' = [pass EXCEPT ![p] = x] /\ row' = row
      BY <1>2, <1>3, <2>3
    <3>2. /\ x \in [pc : Stages, at : Nat, force : BOOLEAN, again : BOOLEAN, day : {pass[p].day},
                    due : {pass[p].due}, todo : SUBSET Rows, list : SUBSET Events,
                    asked : SUBSET Events, target : {pass[p].target}, news : {pass[p].news}]
          /\ x.todo = pass[p].todo /\ x.pc = "checking" /\ x.at = pass[p].at
          /\ x.day = pass[p].day /\ x.due = pass[p].due /\ x.target = pass[p].target
          /\ x.news = pass[p].news
      BY <1>4, <1>5, <2>3 DEF IsPass, Stages
    <3> HIDE DEF x
    <3>3. IsPass(x)
      BY <1>1, <1>4, <3>2 DEF IsPass
    <3>4. First(x) = r
      BY <1>2, <3>2 DEF First
    <3>5. r \notin DOMAIN pass[p].target
      BY <1>4 DEF NagSafe
    <3>6. NagSafe(x, steady'[p])
      BY <1>1, <1>4, <1>7, <3>2, <3>4, <3>5 DEF NagSafe
    <3>7. QED
      BY <1>4, <3>1, <3>2, <3>3, <3>6, RowsStay DEF MovesOn
  <2>4. QED
    BY <2>1, <2>2, <2>3
<1>9. UNCHANGED <<clock, records, said, excused>>
  BY DEF Resolve
<1>10. QED
  BY <1>4, <1>7, <1>8, <1>9, MoveKeeps

LEMMA CheckKeeps ==
  ASSUME DailyInv, NEW p \in Runs, CheckStored(p) PROVE DailyInv'
<1>1. pass[p].pc = "checking" /\ pass[p].todo # {}
  BY DEF CheckStored, DailyInv, PassesSafe, IsPass
<1>2. PICK r \in Rows, stored \in pass[p].asked :
        /\ r = First(pass[p])
        /\ \/ Up(stored) /\ Found(p, r, Linked(stored)) /\ UNCHANGED <<row, steady>>
           \/ Match(p, r, TRUE) /\ StillSteady
           \/ Match(p, r, TRUE) /\ Unsteady(p)
  BY <1>1, ComesToFirst DEF CheckStored
<1>3. /\ r \in pass[p].todo /\ r = Upcoming(p)
      /\ IsPass(pass[p]) /\ RowsLinked
      /\ DOMAIN pass = Runs /\ DOMAIN steady = Runs /\ pass[p].news = {}
  BY <1>1, <1>2, ComesToFirst
<1>4. DOMAIN steady' = Runs /\ \A q \in Runs : steady'[q] \subseteq steady[q]
  <2>1. StillSteady \/ (\E q \in Runs : Unsteady(q)) \/ UNCHANGED steady
    BY DEF CheckStored
  <2>2. QED
    BY <2>1, SteadyShrinks
<1>5. \/ Up(stored) /\ Found(p, r, Linked(stored)) /\ UNCHANGED <<row, steady>>
      \/ Match(p, r, TRUE) /\ (StillSteady \/ Unsteady(p))
  BY <1>2
<1>6. stored \in Events
  BY <1>3 DEF IsPass
<1>7. RowsLinked' /\ MovesOn(p)
  <2>1. CASE Up(stored) /\ Found(p, r, Linked(stored)) /\ UNCHANGED <<row, steady>>
    <3>1. PICK t : t = Linked(stored) /\ ~Unfound(t)
      BY <1>6, StoredIsFound
    <3>2. Found(p, r, t)
      BY <2>1, <3>1 DEF Found
    <3>3. pass[p].pc \in {"resolving", "checking", "asking"} /\ steady'[p] \subseteq steady[p] \cup {r}
      BY <1>1, <1>4
    <3>4. MovesOn(p)
      BY <1>1, <1>2, <3>1, <3>2, <3>3, FoundIsSafe
    <3>5. QED
      BY <2>1, <3>4, RowsStay
  <2>2. CASE Match(p, r, TRUE) /\ (StillSteady \/ Unsteady(p))
    <3>1. row'[r].link = Nobody => r \notin steady'[p]
      <4>1. CASE StillSteady
        BY <4>1 DEF StillSteady
      <4>2. CASE Unsteady(p)
        BY <1>3, <4>2 DEF Unsteady
      <4>3. QED
        BY <2>2, <4>1, <4>2
    <3>2. PICK given \in BOOLEAN : given = TRUE
      OBVIOUS
    <3>3. Match(p, r, given)
      BY <2>2, <3>2 DEF Match
    <3>4. QED
      BY <1>1, <1>2, <1>4, <3>1, <3>2, <3>3, MatchIsSafe
  <2>3. QED
    BY <1>5, <2>1, <2>2
<1>8. UNCHANGED <<clock, records, said, excused>>
  BY DEF CheckStored
<1>9. QED
  BY <1>3, <1>4, <1>7, <1>8, MoveKeeps

LEMMA ArbitrateKeeps ==
  ASSUME DailyInv, NEW p \in Runs, Arbitrate(p) PROVE DailyInv'
<1>1. pass[p].pc = "asking" /\ pass[p].todo # {}
  BY DEF Arbitrate, DailyInv, PassesSafe, IsPass
<1>2. PICK r \in Rows, e \in pass[p].asked \cup {Nobody} :
        /\ r = First(pass[p])
        /\ \/ e = Nobody /\ Found(p, r, Unlinked(FALSE)) /\ UNCHANGED row
           \/ e # Nobody /\ Found(p, r, Linked(e)) /\ Link(r, e)
  BY <1>1, ComesToFirst DEF Arbitrate
<1>3. /\ r \in pass[p].todo /\ r = Upcoming(p) /\ r \notin steady[p]
      /\ IsPass(pass[p]) /\ RowsLinked
      /\ DOMAIN pass = Runs /\ DOMAIN steady = Runs /\ pass[p].news = {}
  BY <1>1, <1>2, ComesToFirst
<1>4. DOMAIN steady' = Runs /\ \A q \in Runs : steady'[q] \subseteq steady[q]
  <2>1. StillSteady
    BY DEF Arbitrate
  <2>2. QED
    BY <2>1, SteadyShrinks
<1>6. pass[p].pc \in {"resolving", "checking", "asking"} /\ steady'[p] \subseteq steady[p] \cup {r}
  BY <1>1, <1>4
<1>7. r \notin steady'[p]
  BY <1>3, <1>4
<1>8. RowsLinked' /\ \E t : Found(p, r, t)
  <2>1. CASE e = Nobody /\ Found(p, r, Unlinked(FALSE)) /\ UNCHANGED row
    <3>1. PICK t : t = Unlinked(FALSE)
      OBVIOUS
    <3>2. Found(p, r, t)
      BY <2>1, <3>1 DEF Found
    <3>3. QED
      BY <2>1, <3>2, RowsStay
  <2>2. CASE e # Nobody /\ Found(p, r, Linked(e)) /\ Link(r, e)
    <3>1. PICK t : t = Linked(e)
      OBVIOUS
    <3>2. Found(p, r, t)
      BY <2>2, <3>1 DEF Found
    <3>3. e \in Events \cup {Nobody}
      BY <1>3 DEF IsPass
    <3>4. RowsLinked'
      BY <1>3, <2>2, <3>3, LinkKeepsRows
    <3>5. QED
      BY <3>2, <3>4
  <2>3. QED
    BY <1>2, <2>1, <2>2
<1>9. MovesOn(p)
  BY <1>1, <1>2, <1>6, <1>7, <1>8, FoundIsSafe
<1>10. UNCHANGED <<clock, records, said, excused>>
  BY DEF Arbitrate
<1>11. QED
  BY <1>3, <1>4, <1>8, <1>9, <1>10, MoveKeeps

-----------------------------------------------------------------------------
(* The telling.                                                            *)

\* A run that has something to tell: in the records it is not, and it is not told
\* by what is recorded in the same step.
LEMMA NotifyIsApart ==
  ASSUME DailyInv, NEW p \in Runs, NEW kind \in {"nudge", "banner"}, NEW sessions,
         Notify(p, kind, sessions), UNCHANGED said,
         \A r \in sessions : pass[p].again \/ <<kind, r, pass[p].day[r]>> \notin records,
         records' = records \cup News(pass[p]), \A k \in News(pass[p]) : k[1] # kind
  PROVE  ToldApart'
<1> DEFINE x == [pass[p] EXCEPT !.pc = kind, !.news = sessions]
<1>1. IsPass(pass[p]) /\ DOMAIN pass = Runs
  BY DEF DailyInv, PassesSafe
<1>2. pass' = [pass EXCEPT ![p] = x]
  BY <1>1 DEF Notify
<1>3. /\ DOMAIN pass' = Runs /\ pass'[p] = x /\ \A q \in Runs \ {p} : pass'[q] = pass[q]
      /\ x.pc = kind /\ x.news = sessions /\ x.day = pass[p].day
  BY <1>1, <1>2 DEF IsPass
<1> HIDE DEF x
<1>4. News(x) = {<<kind, r, pass[p].day[r]>> : r \in sessions}
  BY <1>3 DEF News
<1>5. /\ said \in [Keys -> Nat] /\ excused \subseteq excused'
      /\ \A k \in Keys : k \in excused' \/ k \in excused \/
           (k \in News(x) => /\ ~pass[p].again
                            /\ \A q \in Runs \ {p} : k \notin News(pass[q]))
  <2>1. \A q \in Runs : KeysOf(q, Kind(q)) = News(pass[q])
    BY NewsIsTold DEF Telling
  <2>2. \A k \in News(x) : k[1] = kind /\ k[2] \in sessions /\ k[3] = pass[p].day[k[2]]
    BY <1>4
  <2>3. excused' = excused \cup {k \in Keys :
          /\ k[1] = kind /\ k[2] \in sessions /\ k[3] = pass[p].day[k[2]]
          /\ \/ pass[p].again
             \/ \E q \in Runs \ {p} : k \in KeysOf(q, Kind(q))}
    BY DEF Notify
  <2>4. QED
    BY <2>1, <2>2, <2>3 DEF DailyInv, ToldApart
<1>6. ASSUME NEW k \in Keys \ excused'
      PROVE  /\ \A q, s \in Runs : k \in News(pass'[q]) /\ k \in News(pass'[s]) => q = s
             /\ \A q \in Runs :
                  pass'[q].pc \in {"nudge", "banner"} /\ k \in News(pass'[q]) => said'[k] = 0
             /\ said'[k] # 0 =>
                  /\ said'[k] = 1
                  /\ \/ k \in records'
                     \/ \E q \in Runs : /\ pass'[q].pc \in {"nudged", "reminded"}
                                      /\ k \in News(pass'[q])
  <2>1. /\ k \notin excused /\ said'[k] = said[k]
        /\ k \in News(x) => /\ ~pass[p].again
                            /\ \A q \in Runs \ {p} : k \notin News(pass[q])
    BY <1>5
  <2>2. /\ \A q, s \in Runs : k \in News(pass[q]) /\ k \in News(pass[s]) => q = s
        /\ \A q \in Runs :
             pass[q].pc \in {"nudge", "banner"} /\ k \in News(pass[q]) => said[k] = 0
        /\ said[k] # 0 =>
             /\ said[k] = 1
             /\ \/ k \in records
                \/ \E q \in Runs : pass[q].pc \in {"nudged", "reminded"} /\ k \in News(pass[q])
    BY <2>1 DEF DailyInv, ToldApart
  <2>3. k \in News(x) => k \notin records /\ k[1] = kind
    BY <1>4, <2>1
  <2>4. k \in News(x) => said[k] = 0
    BY <2>1, <2>2, <2>3
  <2>5. QED
    BY <1>3, <2>1, <2>2, <2>4
<1>7. QED
  BY <1>2, <1>5, <1>6 DEF ToldApart

LEMMA NotifyKeeps ==
  ASSUME DailyInv, NEW p \in Runs, NEW kind \in {"nudge", "banner"}, NEW sessions,
         Notify(p, kind, sessions), UNCHANGED <<clock, row, said, steady>>,
         \A r \in sessions : pass[p].again \/ <<kind, r, pass[p].day[r]>> \notin records,
         records' = records \cup News(pass[p]), \A k \in News(pass[p]) : k[1] # kind,
         kind = "nudge" => sessions \cap steady[p] = {},
         pass[p].pc # "checking"
  PROVE  DailyInv'
<1>1. /\ IsPass(pass[p]) /\ NagSafe(pass[p], steady[p]) /\ DOMAIN steady = Runs
      /\ clock \in Nat
  BY DEF DailyInv, PassesSafe
<1>2. PICK x : x = [pass[p] EXCEPT !.pc = kind, !.news = sessions]
  OBVIOUS
<1>3. pass' = [pass EXCEPT ![p] = x] /\ ToldApart'
  <2>1. ToldApart'
    BY NotifyIsApart
  <2>2. DOMAIN pass = Runs
    BY DEF DailyInv, PassesSafe
  <2>3. QED
    BY <1>1, <1>2, <2>1, <2>2 DEF Notify
<1>4. /\ x \in [pc : Stages, at : Nat, force : BOOLEAN, again : BOOLEAN, day : {pass[p].day},
                due : {pass[p].due}, todo : SUBSET Rows, list : SUBSET Events,
                asked : SUBSET Events, target : {pass[p].target}, news : {sessions}]
      /\ x.todo = pass[p].todo /\ x.pc = kind /\ x.at = pass[p].at
      /\ x.day = pass[p].day /\ x.due = pass[p].due /\ x.target = pass[p].target
      /\ x.news = sessions
  BY <1>1, <1>2 DEF IsPass, Stages
<1>5. IsPass(x)
  BY <1>1, <1>4 DEF IsPass, TellingStages
<1>6. NagSafe(x, steady[p])
  BY <1>1, <1>4 DEF NagSafe
<1>7. PassesSafe'
  BY <1>1, <1>3, <1>5, <1>6, OneRunMoves
<1>8. QED
  BY <1>3, <1>7, RowsStay DEF DailyInv

\* A run that ends has recorded what it told.
LEMMA EndKeeps ==
  ASSUME DailyInv, NEW p \in Runs, EndPass(p), UNCHANGED <<clock, row, said, steady>>,
         records' = records \cup News(pass[p])
  PROVE  DailyInv'
<1>1. DOMAIN pass = Runs /\ DOMAIN steady = Runs /\ clock \in Nat
  BY DEF DailyInv, PassesSafe
<1>2. pass' = [pass EXCEPT ![p] = IdlePass] /\ excused' = excused
  BY DEF EndPass
<1>3. PassesSafe'
  <2>1. IsPass(IdlePass) /\ NagSafe(IdlePass, steady'[p])
    BY IdleIsSafe
  <2>2. PICK x : x = IdlePass
    OBVIOUS
  <2>3. QED
    BY <1>1, <1>2, <2>1, <2>2, OneRunMoves
<1>4. ToldApart'
  <2>1. /\ DOMAIN pass' = Runs /\ pass'[p] = IdlePass
        /\ \A q \in Runs \ {p} : pass'[q] = pass[q]
    BY <1>1, <1>2
  <2>2. News(IdlePass) = {} /\ IdlePass.pc = "idle"
    BY IdleIsSafe DEF News
  <2>3. QED
    BY <1>2, <2>1, <2>2 DEF DailyInv, ToldApart
<1>5. QED
  BY <1>3, <1>4, RowsStay DEF DailyInv

LEMMA AfterKeeps ==
  ASSUME DailyInv, NEW p \in Runs, AfterAnnouncing(p) PROVE DailyInv'
<1>1. /\ IsPass(pass[p]) /\ NagSafe(pass[p], steady[p])
      /\ pass[p].pc = "resolving" /\ pass[p].todo = {}
  BY DEF DailyInv, PassesSafe, AfterAnnouncing
<1>2. News(pass[p]) = {} /\ records' = records \cup News(pass[p])
  BY <1>1 DEF AfterAnnouncing, IsPass, TellingStages, News
<1>3. UNCHANGED <<clock, row, said, steady>>
  BY DEF AfterAnnouncing
<1>4. CASE EndPass(p)
  BY <1>2, <1>3, <1>4, EndKeeps
<1>5. CASE Notify(p, "nudge", Missing(p))
  <2>1. PICK kind \in {"nudge", "banner"}, sessions \in SUBSET DOMAIN pass[p].target :
          kind = "nudge" /\ sessions = Missing(p) /\ Notify(p, kind, sessions)
    BY <1>5 DEF Notify, Missing
  <2>2. \A r \in sessions : pass[p].again \/ <<kind, r, pass[p].day[r]>> \notin records
    BY <2>1 DEF Missing, Untold
  <2>3. sessions \cap steady[p] = {}
    BY <1>1, <2>1 DEF Missing, NagSafe, Unfound
  <2>4. QED
    BY <1>1, <1>2, <1>3, <2>1, <2>2, <2>3, NotifyKeeps
<1>6. CASE Notify(p, "banner", Coverless(p))
  <2>1. PICK kind \in {"nudge", "banner"}, sessions \in SUBSET DOMAIN pass[p].target :
          kind = "banner" /\ sessions = Coverless(p) /\ Notify(p, kind, sessions)
    BY <1>6 DEF Notify, Coverless
  <2>2. \A r \in sessions : pass[p].again \/ <<kind, r, pass[p].day[r]>> \notin records
    BY <2>1 DEF Coverless, Untold
  <2>3. QED
    BY <1>1, <1>2, <1>3, <2>1, <2>2, NotifyKeeps
<1>7. QED
  BY <1>4, <1>5, <1>6 DEF AfterAnnouncing

LEMMA NoteKeeps ==
  ASSUME DailyInv, NEW p \in Runs, Note(p) PROVE DailyInv'
<1>1. pass[p].pc \in {"nudged", "reminded"}
  BY DEF Note
<1>2. records' = records \cup News(pass[p])
  BY NewsIsTold DEF Note, Telling
<1>3. UNCHANGED <<clock, row, said, steady>>
  BY DEF Note
<1>4. CASE EndPass(p)
  BY <1>2, <1>3, <1>4, EndKeeps
<1>5. CASE pass[p].pc = "nudged" /\ Notify(p, "banner", Coverless(p))
  <2>1. PICK kind \in {"nudge", "banner"}, sessions \in SUBSET DOMAIN pass[p].target :
          kind = "banner" /\ sessions = Coverless(p) /\ Notify(p, kind, sessions)
    BY <1>5 DEF Notify, Coverless
  <2>2. \A r \in sessions : pass[p].again \/ <<kind, r, pass[p].day[r]>> \notin records
    BY <2>1 DEF Coverless, Untold
  <2>3. \A k \in News(pass[p]) : k[1] # kind
    BY <1>5, <2>1 DEF News
  <2>4. QED
    BY <1>1, <1>2, <1>3, <2>1, <2>2, <2>3, NotifyKeeps
<1>6. QED
  BY <1>4, <1>5 DEF Note

LEMMA ToldKeeps ==
  ASSUME DailyInv, NEW p \in Runs, Told(p) PROVE DailyInv'
<1> DEFINE x == [pass[p] EXCEPT !.pc = IF @ = "nudge" THEN "nudged" ELSE "reminded"]
<1>1. /\ IsPass(pass[p]) /\ NagSafe(pass[p], steady[p]) /\ DOMAIN pass = Runs
      /\ DOMAIN steady = Runs /\ clock \in Nat /\ said \in [Keys -> Nat]
      /\ pass[p].pc \in {"nudge", "banner"}
  BY DEF DailyInv, PassesSafe, ToldApart, Told
<1>2. pass' = [pass EXCEPT ![p] = x]
  BY <1>1 DEF Told
<1>3. /\ x \in [pc : Stages, at : Nat, force : BOOLEAN, again : BOOLEAN, day : {pass[p].day},
                due : {pass[p].due}, todo : SUBSET Rows, list : SUBSET Events,
                asked : SUBSET Events, target : {pass[p].target}, news : {pass[p].news}]
      /\ x.pc = IF pass[p].pc = "nudge" THEN "nudged" ELSE "reminded"
      /\ x.todo = pass[p].todo /\ x.at = pass[p].at /\ x.day = pass[p].day
      /\ x.due = pass[p].due /\ x.target = pass[p].target /\ x.news = pass[p].news
  BY <1>1 DEF IsPass, Stages
<1> HIDE DEF x
<1>4. IsPass(x)
  BY <1>1, <1>3 DEF IsPass, TellingStages
<1>5. NagSafe(x, steady[p])
  BY <1>1, <1>3 DEF NagSafe
<1>6. UNCHANGED <<clock, row, records, steady>>
  BY DEF Told
<1>7. PassesSafe'
  BY <1>1, <1>2, <1>4, <1>5, <1>6, OneRunMoves
<1>8. /\ DOMAIN pass' = Runs /\ pass'[p] = x /\ \A q \in Runs \ {p} : pass'[q] = pass[q]
      /\ News(x) = News(pass[p]) /\ x.pc \in {"nudged", "reminded"}
  BY <1>1, <1>2, <1>3 DEF News
<1>9. ToldApart'
  <2>1. CASE /\ said' = [k \in Keys |-> IF k \in News(pass[p]) THEN said[k] + 1 ELSE said[k]]
             /\ excused' = excused
    BY <1>1, <1>6, <1>8, <2>1 DEF DailyInv, ToldApart
  <2>2. CASE excused' = excused \cup News(pass[p]) /\ said' = said
    BY <1>1, <1>6, <1>8, <2>2 DEF DailyInv, ToldApart
  <2>3. QED
    BY <2>1, <2>2, NewsIsTold DEF Told, Telling
<1>10. QED
  BY <1>6, <1>7, <1>9, RowsStay DEF DailyInv

-----------------------------------------------------------------------------
(* The world.                                                              *)

LEMMA RestartKeeps == ASSUME DailyInv, RestartPasses PROVE DailyInv'
<1>1. pass' = [p \in Runs |-> IdlePass] /\ UNCHANGED <<clock, row, records, said, steady>>
  BY DEF RestartPasses
<1>2. PassesSafe'
  BY <1>1, IdleIsSafe DEF DailyInv, PassesSafe
<1>3. ToldApart'
  <2>1. \A p \in Runs : pass[p].pc \in {"nudged", "reminded"} => News(pass[p]) \subseteq excused'
    BY NewsIsTold DEF RestartPasses, Telling
  <2>2. excused \subseteq excused'
    BY DEF RestartPasses
  <2>3. \A p \in Runs : pass'[p] = IdlePass /\ News(pass'[p]) = {} /\ pass'[p].pc = "idle"
    BY <1>1, IdleIsSafe DEF News
  <2>4. QED
    BY <1>1, <2>1, <2>2, <2>3 DEF DailyInv, ToldApart
<1>4. QED
  BY <1>1, <1>2, <1>3, RowsStay DEF DailyInv

LEMMA WorldKeeps ==
  ASSUME DailyInv, ChangeRow \/ ChangeEvent \/ Hours PROVE DailyInv'
<1>1. UNCHANGED <<pass, records, said, excused>> /\ clock' \in Nat
  BY DEF DailyInv, PassesSafe, ChangeRow, ChangeEvent, Hours
<1>2. StillSteady \/ UNCHANGED steady
  BY DEF ChangeRow, ChangeEvent, Hours
<1>3. DOMAIN steady' = Runs /\ \A q \in Runs : steady'[q] \subseteq steady[q]
  BY <1>2, SteadyShrinks
<1>4. RowsLinked'
  <2>1. CASE ChangeRow
    <3>1. PICK r \in Rows :
            /\ row[r].day # 0
            /\ \/ \E d \in Days : row' = [row EXCEPT ![r].day = d]
               \/ row' = [row EXCEPT ![r] = Deleted]
               \/ \E e \in Events : row' = [row EXCEPT ![r].link = e]
      BY <2>1 DEF ChangeRow
    <3>2. \A d \in Days : d \in Nat /\ d # 0
      BY DailyAssumption DEF Days
    <3>3. QED
      BY <3>1, <3>2 DEF DailyInv, RowsLinked, Deleted
  <2>2. CASE ChangeEvent
    <3>1. \/ UNCHANGED row
          \/ \E r \in Rows, e \in Events : row[r].day # 0 /\ row' = [row EXCEPT ![r].link = e]
      BY <2>2 DEF ChangeEvent
    <3>2. QED
      BY <3>1 DEF DailyInv, RowsLinked
  <2>3. CASE Hours
    BY <2>3, RowsStay DEF Hours
  <2>4. QED
    BY <2>1, <2>2, <2>3
<1>5. QED
  BY <1>1, <1>3, <1>4, NoRunMoves DEF DailyInv

LEMMA DailyStep == ASSUME DailyInv, [DailyNext]_dailyVars PROVE DailyInv'
<1>1. CASE UNCHANGED dailyVars
  BY <1>1 DEF dailyVars, DailyInv, RowsLinked, PassesSafe, ToldApart
<1>2. ASSUME NEW p \in Runs,
             \/ BeginPass(p) \/ ListEvents(p) \/ Resolve(p) \/ CheckStored(p)
             \/ Arbitrate(p) \/ AnnounceDue(p) \/ AfterAnnouncing(p) \/ Told(p) \/ Note(p)
      PROVE  DailyInv'
  BY <1>2, BeginKeeps, ListKeeps, ResolveKeeps, CheckKeeps, ArbitrateKeeps, AnnounceKeeps,
     AfterKeeps, ToldKeeps, NoteKeeps
<1>3. CASE ChangeRow \/ ChangeEvent \/ Hours
  BY <1>3, WorldKeeps
<1>4. CASE RestartPasses
  BY <1>4, RestartKeeps
<1>5. QED
  BY <1>1, <1>2, <1>3, <1>4 DEF DailyNext

\* In every state the runs think no live link missing and tell each thing apart
\* (announcer.ts, runPass).
THEOREM DailyInvariant == DailySpec => []DailyInv
<1>1. DailyInit => DailyInv
  BY DailyStarts
<1>2. DailyInv /\ [DailyNext]_dailyVars => DailyInv'
  BY DailyStep
<1>3. QED
  BY <1>1, <1>2, PTL DEF DailySpec

LEMMA SafeIsTrue == DailyInv => ModeratorsToldTruly
<1> SUFFICES ASSUME DailyInv PROVE ModeratorsToldTruly
  OBVIOUS
<1>1. NoNagAboutLinked
  BY DEF DailyInv, PassesSafe, NagSafe, NoNagAboutLinked
<1>2. ToldOnce
  BY DEF DailyInv, ToldApart, ToldOnce
<1>3. QED
  BY <1>1, <1>2 DEF ModeratorsToldTruly

\* The moderators are told that the event of a session is missing only when none is
\* stored, and each thing once (resolveTarget, nudgeKey, bannerKey).
THEOREM ModeratorsAreToldTruly == DailySpec => []ModeratorsToldTruly
BY DailyInvariant, SafeIsTrue, PTL
=============================================================================
