---------------------------- MODULE InstagramFeed ----------------------------
(***************************************************************************)
(* One monitored Instagram account: the row with its dedup anchor, the     *)
(* poll that reads the account's window, classifies what is above the      *)
(* anchor and publishes it to the bound channels, the table of seen posts, *)
(* and what operators and restarts do meanwhile                            *)
(* (src/capabilities/instagram_monitor: scheduler.ts, store.ts, source.ts, *)
(* classifier.ts, publisher.ts).                                           *)
(*                                                                         *)
(* When a poll may start (quiet hours, cooldowns, the budget) and what its *)
(* failures set off is InstagramGates.                                     *)
(***************************************************************************)
EXTENDS Integers, FiniteSets

CONSTANTS
  Media,      \* the posts the account ever publishes
  Taken,      \* the capture time of each
  Outlets,    \* channels that may be bound to the capability
  Null,       \* SQL's NULL
  WindowSize, \* the posts a fetched window holds
  PushCap,    \* MAX_PUSHES_PER_ACCOUNT_PER_TICK_PER_CHANNEL
  Horizon,    \* UNDECIDED_RETRY_HORIZON_MS
  StartTime,  \* bound: when the model begins
  MaxTime,    \* bound: the clock
  MaxOps,     \* bound: administrative commands
  MaxReloads  \* bound: restarts of the process

ASSUME FeedAssumption ==
  /\ Taken \in [Media -> Nat \ {0}]
  /\ Null \notin Media \cup Nat
  /\ WindowSize \in Nat \ {0} /\ PushCap \in Nat \ {0} /\ Horizon \in Nat
  /\ StartTime \in Nat \ {0} /\ MaxTime \in Nat /\ MaxOps \in Nat /\ MaxReloads \in Nat

VARIABLES
  now,        \* the clock
  deleted,    \* posts their author took down
  row,        \* the account's row
  bound,      \* the channels bound to the capability
  onRecord,   \* instagram_monitor_seen_posts: the posts on record for a channel,
              \* with a card or without one
  cards,      \* how many cards of a post Discord has in a channel
  poll,       \* the poll in flight: what processAccount holds
  floor,      \* history: the capture time to which the account was last seeded
  unrecorded, \* history: cards a crash kept from being recorded
  ops, reloads

vars == <<now, deleted, row, bound, onRecord, cards, poll, floor, unrecorded, ops, reloads>>
env == <<now, deleted, bound, ops, reloads>>

NoAnchor == [id |-> Null, at |-> Null]
Anchors == [id : Media \cup {Null}, at : Nat \cup {Null}]
\* polled is whether last_polled_at is set: a row where it is not is due at once.
Rows == [key : Nat, anchor : Anchors, polled : BOOLEAN, paused : BOOLEAN]
NoAccount == [key |-> 0, anchor |-> NoAnchor, polled |-> FALSE, paused |-> FALSE]
NewRow(k) == [NoAccount EXCEPT !.key = k]

\* acc is the row as the poll read it, window what it fetched, chans the
\* channels it serves, todo the new posts it has not reached, next the anchor it
\* means to leave, held oldestUndecided, post the one in hand, left the channels
\* that still get it, to the one it is being posted in, pushed pushedByChannel.
NoPoll == [pc |-> "idle", acc |-> NoAccount, window |-> {}, chans |-> {}, todo |-> {},
           next |-> NoAnchor, held |-> Null, post |-> Null, left |-> {},
           to |-> Null, pushed |-> [c \in Outlets |-> 0]]

Online == {p \in Media : Taken[p] <= now} \ deleted
Latest(S) == {p \in S : \A q \in S : Taken[q] <= Taken[p]}
Earliest(S) == {p \in S : \A q \in S : Taken[p] <= Taken[q]}

\* What Instagram answers: the newest posts up to some moment, for it serves
\* stale pages too.
Windows ==
  {w \in SUBSET Online : \E s \in 1..now :
     LET old == {p \in Online : Taken[p] <= s}
     IN  /\ w \subseteq old /\ Cardinality(w) <= WindowSize
         /\ Cardinality(w) = WindowSize \/ w = old
         /\ \A p \in old \ w, q \in w : Taken[p] <= Taken[q]}

At(p) == [id |-> p, at |-> Taken[p]]

\* A new account, or one from before the anchor's time was kept: the migration
\* gave it the latest time it had seen, if any.
FirstAnchors ==
  {NoAnchor} \cup [id : {p \in Media : Taken[p] <= now}, at : {Null, now}]

FeedInit ==
  /\ now = StartTime /\ deleted = {}
  /\ row \in {[NewRow(1) EXCEPT !.anchor = a] : a \in FirstAnchors}
  /\ bound \in SUBSET Outlets
  /\ onRecord = {}
  /\ cards = [s \in Outlets \X Media |-> 0]
  /\ poll = NoPoll /\ floor = 0 /\ unrecorded = {} /\ ops = 0 /\ reloads = 0

-----------------------------------------------------------------------------
(* The poll, to the point where it has new posts.                          *)

StartPoll ==
  /\ poll.pc = "idle" /\ row # NoAccount /\ ~row.paused
  /\ poll' = [poll EXCEPT !.pc = "fetching", !.acc = row]
  /\ UNCHANGED <<env, row, onRecord, cards, floor, unrecorded>>

\* markPollSuccess and markPollFailure write to the row the poll read, whatever
\* became of it since; an account added again is another row.
Mark(a) ==
  row' = IF row.key # poll.acc.key THEN row
         ELSE [row EXCEPT !.polled = TRUE, !.anchor = a]

EndPoll == poll' = NoPoll /\ UNCHANGED <<env, onRecord, cards, unrecorded>>

FetchFails ==
  poll.pc = "fetching" /\ Mark(row.anchor) /\ UNCHANGED floor /\ EndPoll

FetchEmpty ==
  /\ poll.pc = "fetching" /\ {} \in Windows
  /\ Mark(row.anchor) /\ UNCHANGED floor /\ EndPoll

\* The first poll, and one whose window lacks an anchor of unknown time.
Unseeded(w) ==
  LET a == poll.acc.anchor IN a.id = Null \/ (a.at = Null /\ a.id \notin w)

\* The newest post becomes the anchor and nothing is published.
Seed(w, p) ==
  /\ poll.pc = "fetching" /\ Unseeded(w) /\ p \in Latest(w)
  /\ Mark(At(p)) /\ floor' = Taken[p] /\ EndPoll

\* The new posts: above the anchor in the sorted window, and after its time
\* where that is known. Posts of the anchor's own time count as below it.
Above(w) ==
  LET a == poll.acc.anchor
  IN  {p \in w : /\ a.id \in w => Taken[p] > Taken[a.id]
                 /\ a.at # Null => Taken[p] > a.at}

\* The anchor never moves back in time.
Forward(p) ==
  LET a == poll.acc.anchor
  IN  IF a.at = Null \/ Taken[p] >= a.at THEN At(p) ELSE a

\* No new post, or nobody to publish it to: the anchor moves on.
NothingNew(w, p) ==
  /\ poll.pc = "fetching" /\ ~Unseeded(w) /\ p \in Latest(w)
  /\ Above(w) = {} \/ bound = {}
  /\ Mark(Forward(p)) /\ UNCHANGED floor /\ EndPoll

BeginPosts(w, p) ==
  /\ poll.pc = "fetching" /\ ~Unseeded(w) /\ p \in Latest(w)
  /\ Above(w) # {} /\ bound # {}
  /\ poll' = [poll EXCEPT !.pc = "loop", !.window = w, !.chans = bound,
                          !.next = Forward(p), !.todo = Above(w)]
  /\ UNCHANGED <<env, row, onRecord, cards, floor, unrecorded>>

-----------------------------------------------------------------------------
(* The loop over the new posts, the oldest first.                          *)

HasSeen(c, p) == <<c, p>> \in onRecord
Unseen(p) == {c \in poll.chans : ~HasSeen(c, p)}
Record(S) == onRecord' = onRecord \cup (S \X {poll.post})
NextPost == [poll EXCEPT !.pc = "loop", !.todo = @ \ {poll.post}, !.post = Null]

Skip(p) ==
  /\ poll.pc = "loop" /\ p \in Earliest(poll.todo) /\ Unseen(p) = {}
  /\ poll' = [poll EXCEPT !.todo = @ \ {p}]
  /\ UNCHANGED <<env, row, onRecord, cards, floor, unrecorded>>

\* The media are fetched and the classifier is asked: both are awaited.
Classify(p) ==
  /\ poll.pc = "loop" /\ p \in Earliest(poll.todo) /\ Unseen(p) # {}
  /\ poll' = [poll EXCEPT !.pc = "classify", !.post = p]
  /\ UNCHANGED <<env, row, onRecord, cards, floor, unrecorded>>

Hold == IF poll.held = Null THEN poll.post ELSE poll.held

\* No verdict: the provider failed, or its answer is no JSON. The post stays
\* unrecorded until it is too old.
Undecided ==
  /\ poll.pc = "classify" /\ Taken[poll.post] > now - Horizon
  /\ poll' = [NextPost EXCEPT !.held = Hold]
  /\ UNCHANGED <<env, row, onRecord, cards, floor, unrecorded>>

\* Not relevant, or without a verdict for too long.
Irrelevant ==
  /\ poll.pc = "classify"
  /\ Record(Unseen(poll.post)) /\ poll' = NextPost
  /\ UNCHANGED <<env, row, cards, floor, unrecorded>>

\* The loop over the channels ends with the last of them.
Serve(p) ==
  IF p.left = {} THEN [p EXCEPT !.pc = "loop", !.todo = @ \ {p.post}, !.post = Null]
  ELSE [p EXCEPT !.pc = "publish"]

\* A channel that had its share of this poll gets a record and no card.
Relevant ==
  LET full == {c \in Unseen(poll.post) : poll.pushed[c] >= PushCap}
  IN  /\ poll.pc = "classify"
      /\ Record(full)
      /\ poll' = Serve([poll EXCEPT !.left = Unseen(poll.post) \ full])
      /\ UNCHANGED <<env, row, cards, floor, unrecorded>>

\* Discord posts the card; the process does not know yet.
PushCard(c) ==
  /\ poll.pc = "publish" /\ c \in poll.left
  /\ cards' = [cards EXCEPT ![<<c, poll.post>>] = @ + 1]
  /\ poll' = [poll EXCEPT !.pc = "sent", !.to = c]
  /\ UNCHANGED <<env, row, onRecord, floor, unrecorded>>

Answered(c) == [poll EXCEPT !.to = Null, !.left = @ \ {c}]

\* The channel's record follows Discord's answer.
CardRecorded ==
  /\ poll.pc = "sent" /\ Record({poll.to})
  /\ poll' = Serve([Answered(poll.to) EXCEPT !.pushed[poll.to] = @ + 1])
  /\ UNCHANGED <<env, row, cards, floor, unrecorded>>

\* A card that fails, or whose answer is lost, is recorded and not tried again.
PublishFails(c) ==
  /\ \/ poll.pc = "publish" /\ c \in poll.left
     \/ poll.pc = "sent" /\ c = poll.to
  /\ Record({c}) /\ poll' = Serve(Answered(c))
  /\ UNCHANGED <<env, row, cards, floor, unrecorded>>

\* Altered: the predecessor may be of the same time.
AnchorsLeftTied ==
  LET below == {p \in Above(poll.window) \ {poll.held} :
                  Taken[p] <= Taken[poll.held]}
  IN  IF poll.held = Null THEN {poll.next}
      ELSE IF below = {} THEN {row.anchor} ELSE {At(p) : p \in Latest(below)}

\* Where the anchor stops: an undecided post holds it at its predecessor among
\* the new posts, or where it is.
AnchorsLeft ==
  LET below == {p \in Above(poll.window) : Taken[p] < Taken[poll.held]}
  IN  IF poll.held = Null THEN {poll.next}
      ELSE IF below = {} THEN {row.anchor} ELSE {At(p) : p \in Latest(below)}

FinishPoll ==
  /\ poll.pc = "loop" /\ poll.todo = {}
  /\ \E a \in AnchorsLeft : Mark(a)
  /\ UNCHANGED floor /\ EndPoll

-----------------------------------------------------------------------------
(* Operators, authors, time and restarts.                                  *)

Command == ops < MaxOps /\ ops' = ops + 1
Aside == UNCHANGED <<now, onRecord, cards, poll, unrecorded, reloads>>

AddAccount ==
  /\ Command /\ row = NoAccount /\ row' = NewRow(ops + 2) /\ floor' = 0
  /\ UNCHANGED <<bound, deleted>> /\ Aside
RemoveAccount ==
  /\ Command /\ row # NoAccount /\ row' = NoAccount
  /\ UNCHANGED <<bound, deleted, floor>> /\ Aside
SetPaused(b) ==
  /\ Command /\ row # NoAccount /\ row' = [row EXCEPT !.paused = b]
  /\ UNCHANGED <<bound, deleted, floor>> /\ Aside
ResetLastPost ==
  /\ Command /\ row # NoAccount
  /\ row' = [row EXCEPT !.anchor = NoAnchor, !.polled = FALSE]
  /\ UNCHANGED <<bound, deleted, floor>> /\ Aside
Bind(B) ==
  /\ Command /\ bound' = B /\ UNCHANGED <<row, deleted, floor>> /\ Aside
Delete(p) ==
  /\ Command /\ p \in Online /\ deleted' = deleted \cup {p}
  /\ UNCHANGED <<row, bound, floor>> /\ Aside

Tick ==
  /\ now < MaxTime /\ now' = now + 1
  /\ UNCHANGED <<deleted, row, bound, onRecord, cards, poll, floor, unrecorded, ops, reloads>>

\* The scheduler is disposed, or the process ends: rows and records stay.
Crash ==
  /\ poll.pc # "idle" /\ reloads < MaxReloads /\ reloads' = reloads + 1
  /\ poll' = NoPoll
  /\ unrecorded' = IF poll.pc = "sent" THEN unrecorded \cup {<<poll.to, poll.post>>}
                    ELSE unrecorded
  /\ UNCHANGED <<now, deleted, row, bound, onRecord, cards, floor, ops>>

PollStep ==
  \/ FetchFails \/ FetchEmpty
  \/ \E w \in Windows : \E p \in w :
       Seed(w, p) \/ NothingNew(w, p) \/ BeginPosts(w, p)
  \/ \E p \in Media : Skip(p) \/ Classify(p)
  \/ Undecided \/ Irrelevant \/ Relevant
  \/ \E c \in Outlets : PushCard(c) \/ PublishFails(c)
  \/ CardRecorded \/ FinishPoll

FeedNext ==
  \/ StartPoll \/ PollStep
  \/ AddAccount \/ RemoveAccount \/ ResetLastPost
  \/ \E b \in BOOLEAN : SetPaused(b)
  \/ \E B \in SUBSET Outlets : Bind(B)
  \/ \E p \in Media : Delete(p)
  \/ Tick \/ Crash

FeedSpec == FeedInit /\ [][FeedNext]_vars

-----------------------------------------------------------------------------
(* Properties.                                                             *)

FeedTypeOK ==
  /\ now \in Nat /\ deleted \subseteq Media /\ row \in Rows
  /\ bound \subseteq Outlets
  /\ onRecord \subseteq Outlets \X Media
  /\ cards \in [Outlets \X Media -> Nat]
  /\ poll \in [pc : {"idle", "fetching", "loop", "classify", "publish", "sent"},
               acc : Rows, window : SUBSET Media, chans : SUBSET Outlets,
               todo : SUBSET Media, next : Anchors, held : Media \cup {Null},
               post : Media \cup {Null}, left : SUBSET Outlets,
               to : Outlets \cup {Null}, pushed : [Outlets -> Nat]]
  /\ floor \in Nat /\ unrecorded \subseteq Outlets \X Media
  /\ ops \in Nat /\ reloads \in Nat

\* A channel gets a post once, although the anchor is held back, cleared and
\* set again and windows repeat it (processAccount, hasSeen): the only exception
\* is a crash between Discord's posting and the record.
PushedOnce ==
  \A s \in Outlets \X Media : cards[s] <= 1 \/ s \in unrecorded

\* A poll that published leaves the anchor below every new post of its window
\* that some channel it served has no record of: a post without a verdict comes
\* up again (processAccount, oldestUndecided).  And nothing as old as what the
\* account was seeded to is ever published, whatever stale or shortened windows
\* Instagram serves (processAccount: no backfill).
NothingSkippedNorBackfilled ==
  /\ \A p \in poll.window :
       /\ poll.pc = "loop" /\ row'.anchor # row.anchor /\ row'.anchor.at # Null
       /\ poll.acc.anchor.at # Null => Taken[p] > poll.acc.anchor.at
       /\ poll.acc.anchor.id \in poll.window
            => Taken[p] > Taken[poll.acc.anchor.id]
       /\ Taken[p] <= row'.anchor.at
       => \A c \in poll.chans : HasSeen(c, p)
  /\ \A s \in Outlets \X Media :
       cards'[s] # cards[s] => Taken[s[2]] > floor

\* Both together: a channel gets what it should get, once.
EachPostOnce == []PushedOnce /\ [][NothingSkippedNorBackfilled]_vars

=============================================================================
