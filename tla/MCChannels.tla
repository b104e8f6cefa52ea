------------------------------ MODULE MCChannels ------------------------------
(* Public channels: the turns of mentions, the transcript that turns read,   *)
(* what turns do to other members, and the Instagram monitor that posts in   *)
(* the channels. These models share no state; a behaviour of this run is one *)
(* of theirs. Mentions: three messages in one channel, whose backlog         *)
(* overflows, and one in another; they share a single slot. Trail: three     *)
(* reports, of which any two have a reporter, a channel or a person named in *)
(* common, and an order to delete one of them; in DailyCap.cfg, two reports  *)
(* that have nothing in common. Transcript: two messages of two versions,    *)
(* pages of one message, and a session of the gateway that is lost.          *)
(* Instagram: an account with three posts, two of them taken at the same     *)
(* time, and a window of two, which can overflow and leave the anchor out;   *)
(* two accounts that share the cadence, one that posts often, one that       *)
(* seldom does, and what they are until that is known.                       *)
EXTENDS MentionTurns, ModerationTrail, TranscriptCache, InstagramFeed,
        InstagramGates, FetchHealth, InstagramCadence, InstagramFetch, TLC

CONSTANTS a1, a2, a3, b1, plaza, den, r1, r2, r3, o1, ana, beto, marta, p1, p2,
          i1, i2, i3, d1, d2

MCMessages == {a1, a2, a3, b1}
MCChannels == {plaza, den}
MCChannelOf == [m \in MCMessages |-> IF m = b1 THEN den ELSE plaza]

MCReports == {r1, r2, r3}
MCOrders == {o1}
MCAuthors == r1 :> ana @@ r2 :> ana @@ r3 :> beto @@ o1 :> marta
MCPlaces == r1 :> p1 @@ r2 :> p2 @@ r3 :> p2
MCCited == r1 :> beto @@ r2 :> NoOne @@ r3 :> beto @@ o1 :> r1

ApartReports == {r1, r2}
ApartAuthors == r1 :> ana @@ r2 :> beto @@ o1 :> marta
ApartCited == r1 :> NoOne @@ r2 :> NoOne @@ o1 :> r1

MCMedia == {i1, i2, i3}
MCTaken == i1 :> 1 @@ i2 :> 2 @@ i3 :> 2
MCOutlets == {d1, d2}
MCLearnable == {[every |-> 1, most |-> 2], [every |-> 3, most |-> 3]}

\* Messages are interchangeable: they come in the order of their names. What the
\* handler of b1 shows in its own channel, which nobody else reads, is its reply.
InOrder == /\ step[a2] # "none" => step[a1] # "none"
           /\ step[a3] # "none" => step[a2] # "none"
OneOfB == outcome[b1] \in {"none", "answered"} /\ step[b1] \notin {"threw", "silent"}

\* So are the monitor's channels: where nothing tells them apart yet, a step
\* that does begins with d1.
Alike ==
  LET same(S) == d1 \in S <=> d2 \in S
  IN  /\ same(bound) /\ same(poll.chans) /\ same(poll.left) /\ poll.to = Null
      /\ poll.pushed[d1] = poll.pushed[d2]
      /\ \A p \in Media : /\ <<d1, p>> \in onRecord <=> <<d2, p>> \in onRecord
                          /\ <<d1, p>> \in unrecorded <=> <<d2, p>> \in unrecorded
                          /\ cards[<<d1, p>>] = cards[<<d2, p>>]
OutletsInOrder == Alike => bound' # {d2} /\ poll'.to # d2 /\ poll'.left # {d1}

\* What disturbs a behaviour, of two kinds, together: repeated messages and crashes
\* once, commands and reloads twice.
FewRepeats == repeats + crashes <= 1
FewReloads == ops + reloads <= 2

VARIABLE part

MCInit ==
  /\ part \in {"mentions", "trail", "transcript", "feed", "gates", "health",
               "cadence", "fetch"}
  /\ MentionInit /\ TrailInit /\ CacheInit
  /\ FeedInit /\ GatesInit /\ HealthInit /\ CadenceInit /\ FetchInit
  /\ part = "fetch" \/ source = "api"
  /\ part = "feed" \/ row = NewRow(1)
  /\ bound \in IF part = "feed" THEN {{}, Outlets} ELSE {{}}

turnParts == <<mentionVars, trailVars, cacheVars>>
monitorParts == <<vars, gatesVars, healthVars, cadenceVars, fetchVars>>

TurnPart ==
  /\ \/ /\ part = "mentions" /\ MentionNext /\ InOrder' /\ OneOfB'
        /\ UNCHANGED <<trailVars, cacheVars>>
     \/ part = "trail" /\ TrailNext /\ FewRepeats' /\ UNCHANGED <<mentionVars, cacheVars>>
     \/ part = "transcript" /\ CacheNext /\ UNCHANGED <<mentionVars, trailVars>>
  /\ UNCHANGED monitorParts

MonitorPart ==
  /\ \/ /\ part = "feed" /\ FeedNext /\ OutletsInOrder /\ FewReloads'
        /\ UNCHANGED <<gatesVars, healthVars, cadenceVars, fetchVars>>
     \/ /\ part = "gates" /\ GatesNext
        /\ UNCHANGED <<vars, healthVars, cadenceVars, fetchVars>>
     \/ /\ part = "health" /\ HealthNext
        /\ UNCHANGED <<vars, gatesVars, cadenceVars, fetchVars>>
     \/ /\ part = "cadence" /\ CadenceNext
        /\ UNCHANGED <<vars, gatesVars, healthVars, fetchVars>>
     \/ /\ part = "fetch" /\ FetchNext
        /\ UNCHANGED <<vars, gatesVars, healthVars, cadenceVars>>
  /\ UNCHANGED turnParts

MCNext == (TurnPart \/ MonitorPart) /\ UNCHANGED part
MCSpec == MCInit /\ [][MCNext]_<<turnParts, monitorParts, part>>
=============================================================================
