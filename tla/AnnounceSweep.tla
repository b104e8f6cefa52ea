---------------------------- MODULE AnnounceSweep ----------------------------
(***************************************************************************)
(* Posting one message exactly once in the announcement channel, over a    *)
(* transport that repeats requests whose answer is lost: the announcer's   *)
(* sendExactlyOnce and the drafts' sendBroadcastExactlyOnce                *)
(* (src/capabilities/calendar/announcer.ts, broadcast-channels.ts).        *)
(*                                                                         *)
(* Both note where the channel ends, send, look at what landed after that  *)
(* mark, keep the oldest copy and delete the others; the announcer takes   *)
(* every message of the bot for a copy, a draft only those with its text.  *)
(* Who may send at all, and when, is Broadcast: two passes, or a pass and  *)
(* a draft, may be sending here for different occurrences.                 *)
(***************************************************************************)
EXTENDS Integers, Sequences, FiniteSets, FiniteSetsExt

CONSTANTS
  Announces,   \* posts of the announcer, of an occurrence each
  Texts,       \* drafts being sent to this channel
  Page,        \* messages the announcer's look holds
  Lines,       \* bound: messages of others that the channel ever gets
  Copies,      \* bound: copies that a send leaves
  Hiccups      \* bound: failed requests

Sends == Announces \cup Texts

ASSUME SweepAssumption ==
  /\ Announces \cap Texts = {}
  /\ {"bot", "member"} \cap Sends = {}
  /\ {Page, Copies} \subseteq Nat \ {0} /\ {Lines, Hiccups} \subseteq Nat

VARIABLES
  feed,     \* the channel: who or what wrote each message
  removed,  \* the messages deleted
  send,     \* the state of each send
  blind,    \* history: sends that could not see or delete all that landed
  mixed,    \* history: sends during which the announcer's sweep could meet
            \* another message of the bot
  hiccups

sweepVars == <<feed, removed, send, blind, mixed, hiccups>>

\* mark is the last message before the send, sent the message the answer named,
\* extra what is left to delete, kept the message reported; 0 is none.
NewSend == [pc |-> "idle", mark |-> 0, sent |-> 0, extra |-> {}, kept |-> 0]

Standing == DOMAIN feed \ removed
CopiesOf(s) == {i \in DOMAIN feed : feed[i] = s}
By(s) == IF s \in Announces THEN {"bot"} \cup Sends ELSE {s}

SweepInit ==
  /\ feed \in {<<>>, <<"member">>} /\ removed = {}
  /\ send = [s \in Sends |-> NewSend]
  /\ blind = {} /\ mixed = {} /\ hiccups = 0

Hiccup == hiccups < Hiccups /\ hiccups' = hiccups + 1

-----------------------------------------------------------------------------
(* The channel.                                                            *)

\* The passes whose sweep will meet a message that s or the bot writes now.
Sweepers(s) ==
  {a \in Announces \ {s} : send[a].pc \in {"sending", "answered"}}

Write(s) ==
  /\ feed' = Append(feed, s)
  /\ mixed' = mixed \cup Sweepers(s)
                    \cup (IF Sweepers(s) = {} THEN {} ELSE {s} \cap Sends)

\* The bot answers somebody in the channel, or a member writes.
Others(who) ==
  /\ Cardinality(CopiesOf("bot") \cup CopiesOf("member")) < Lines
  /\ IF who = "bot" THEN Write(who)
                    ELSE feed' = Append(feed, who) /\ UNCHANGED mixed
  /\ UNCHANGED <<removed, send, blind, hiccups>>

-----------------------------------------------------------------------------
(* A send.                                                                 *)

\* The announcer's mark is a message; without one it will trust the send. A
\* draft without one goes by the time.
Mark(s) ==
  /\ send[s].pc = "idle"
  /\ \/ UNCHANGED hiccups
        /\ send' = [send EXCEPT ![s].pc = "sending",
                                ![s].mark = Max(Standing \cup {0})]
     \/ Hiccup
        /\ send' = [send EXCEPT ![s].pc = "sending",
                      ![s].mark = IF s \in Announces THEN 0 ELSE Len(feed)]
  /\ blind' = IF s \in Announces /\ send'[s].mark = 0 THEN blind \cup {s} ELSE blind
  /\ UNCHANGED <<feed, removed, mixed>>

\* Discord creates the message: at the first request or, when the nonce no
\* longer holds, at a repeated one.
Land(s) ==
  /\ send[s].pc \in {"sending", "answered"} /\ Cardinality(CopiesOf(s)) < Copies
  /\ Write(s)
  /\ UNCHANGED <<removed, send, blind, hiccups>>

\* Or at one whose answer nobody waited for, when the send has looked already.
LandLate(s) ==
  /\ send[s].pc \in {"sweeping", "over"} /\ Cardinality(CopiesOf(s)) < Copies
  /\ Hiccup
  /\ Write(s)
  /\ blind' = blind \cup {s}
  /\ UNCHANGED <<removed, send>>

Answered(s, i) ==
  /\ send[s].pc = "sending"
  /\ send' = [send EXCEPT ![s].pc = "answered", ![s].sent = i]
  /\ UNCHANGED <<feed, removed, blind, mixed>>

SendAnswers(s) ==
  (\E i \in CopiesOf(s) : Answered(s, i)) /\ UNCHANGED hiccups
\* The request failed, or no answer to it came.
SendFails(s) == Hiccup /\ Answered(s, 0)

\* Altered: a draft takes the bot's messages for copies too.
LandedAny(s) ==
  {i \in Standing : i > send[s].mark /\ feed[i] # "member"}

\* What the look takes for copies.
Landed(s) ==
  LET after == {i \in Standing : i > send[s].mark}
      page == {i \in after : Cardinality({j \in after : j <= i}) <= Page}
  IN  {i \in IF s \in Announces THEN page ELSE after : feed[i] \in By(s)}

Sweeping(kept, extra) ==
  [NewSend EXCEPT !.pc = IF extra = {} THEN "over" ELSE "sweeping",
                  !.kept = kept, !.extra = extra]

Settle(s, found) ==
  LET kept == IF found = {} THEN send[s].sent ELSE Min(found)
  IN  send' = [send EXCEPT ![s] = Sweeping(kept, found \ {kept})]

LookBack(s) ==
  LET seen == s \in Texts \/ send[s].mark # 0
      unread == Cardinality({i \in Standing : i > send[s].mark}) > Page
  IN  /\ send[s].pc = "answered"
      /\ \/ /\ Settle(s, IF seen THEN Landed(s) ELSE {})
            /\ blind' = IF s \in Announces /\ unread THEN blind \cup {s} ELSE blind
            /\ UNCHANGED hiccups
         \/ Hiccup /\ seen /\ Settle(s, {}) /\ blind' = blind \cup {s}
      /\ UNCHANGED <<feed, removed, mixed>>

\* The copies go one by one; one that cannot be deleted stays.
Sweep(s) ==
  LET i == Min(send[s].extra) IN
  /\ send[s].pc = "sweeping"
  /\ send' = [send EXCEPT ![s] = Sweeping(send[s].kept, send[s].extra \ {i})]
  /\ \/ removed' = removed \cup {i} /\ UNCHANGED <<blind, hiccups>>
     \/ Hiccup /\ blind' = blind \cup {s} /\ UNCHANGED removed
  /\ UNCHANGED <<feed, mixed>>

SweepNext ==
  \/ \E who \in {"bot", "member"} : Others(who)
  \/ \E s \in Sends :
       \/ Mark(s) \/ Land(s) \/ LandLate(s)
       \/ SendAnswers(s) \/ SendFails(s) \/ LookBack(s) \/ Sweep(s)

SweepSpec == SweepInit /\ [][SweepNext]_sweepVars

-----------------------------------------------------------------------------
(* Properties.                                                             *)

Over(s) == send[s].pc = "over"
StandingOf(s) == CopiesOf(s) \ removed

\* Whatever landed, was answered or was lost, a send that no pass's sweep mixed
\* up with another and that saw all that landed (none of it after its look)
\* reports the one copy that stands, or that there is none; and no message of a
\* member goes
\* (sendExactlyOnce, sendBroadcastExactlyOnce).
SweptClean ==
  /\ \A s \in Sends \ (blind \cup mixed) : Over(s) =>
       StandingOf(s) = IF send[s].kept = 0 THEN {} ELSE {send[s].kept}
  /\ \A i \in removed : feed[i] # "member"
=============================================================================
