---------------------------- MODULE WorkshopProofs ----------------------------
(***************************************************************************)
(* The sessions of the workshop, for any number of members, clicks, closes *)
(* and restarts, what a session remembers, and where its files are.        *)
(***************************************************************************)
EXTENDS WorkshopSessions, WorkshopContext, WorkshopFiles, FiniteSetTheorems,
        WellFoundedInduction, TLAPS

-----------------------------------------------------------------------------
(* The sessions (WorkshopSessions).                                        *)

ClickStates ==
  [at : {"idle", "message", "limit", "channel", "made", "intro"},
   who : Members \cup {NoMember}, room : Rooms \cup {NoRoom}]
CloserStates ==
  [at : {"idle", "confirmed", "waiting", "deleted"}, room : Rooms \cup {NoRoom}]

SessionsTypeOK ==
  /\ room \in [Rooms -> {"unused", "open", "gone"}]
  /\ status \in [Rooms -> {"none", "active", "closed"}]
  /\ owner \in [Rooms -> Members \cup {NoMember}]
  /\ creating \in SUBSET Members
  /\ click \in [Clicks -> ClickStates]
  /\ closer \in [Closers -> CloserStates]
  /\ events \in SUBSET Rooms /\ stranded \in SUBSET Rooms
  /\ crashes \in Nat

\* A member is at one click at most, and a channel just made is one click's alone,
\* without its row.
ClicksApart ==
  /\ \A k \in Clicks : click[k].at # "idle" => click[k].who \in creating
  /\ \A k, l \in Clicks :
       click[k].at # "idle" /\ click[l].at # "idle" /\ click[k].who = click[l].who => k = l
  /\ \A k \in Clicks : click[k].at = "made" =>
       /\ click[k].room \in Rooms
       /\ room[click[k].room] # "unused" /\ status[click[k].room] = "none"
       /\ \A l \in Clicks : click[l].at = "made" /\ click[l].room = click[k].room => k = l

\* A click that passed the limit still leaves room for the session it is to make.
LimitsHeld ==
  /\ \A m \in Members : /\ IsFiniteSet(ActiveSessionsFor(m))
                        /\ Cardinality(ActiveSessionsFor(m)) <= MaxSessions
  /\ \A k \in Clicks : click[k].at \in {"channel", "made"} =>
       Cardinality(ActiveSessionsFor(click[k].who)) < MaxSessions

\* What is known of the channels whose rows exist, whose deletions are announced,
\* and whose closings are under way.
RoomsMatch ==
  /\ \A c \in Rooms : status[c] # "none" => room[c] # "unused"
  /\ \A c \in events : room[c] = "gone"
  /\ \A j \in Closers : closer[j].at # "idle" =>
       /\ closer[j].room \in Rooms /\ status[closer[j].room] # "none"
       /\ closer[j].at = "deleted" => room[closer[j].room] = "gone"
  /\ \A c \in Rooms \ stranded :
       /\ room[c] = "open" => status[c] = "active" \/ Making(c)
       /\ status[c] = "active" /\ room[c] = "gone" => c \in events \/ Recording(c)
       /\ Making(c) /\ room[c] = "gone" => c \in events

WorkshopInv == SessionsTypeOK /\ ClicksApart /\ LimitsHeld /\ RoomsMatch

LEMMA WorkshopStarts == WorkshopInit => WorkshopInv
<1> SUFFICES ASSUME WorkshopInit PROVE WorkshopInv
  OBVIOUS
<1>1. SessionsTypeOK
  BY DEF WorkshopInit, SessionsTypeOK, ClickStates, CloserStates, IdleClick, IdleCloser
<1>2. ClicksApart /\ RoomsMatch
  BY DEF WorkshopInit, ClicksApart, RoomsMatch, Making, IdleClick, IdleCloser
<1>3. LimitsHeld
  <2>1. \A m \in Members : ActiveSessionsFor(m) = {}
    BY DEF WorkshopInit, ActiveSessionsFor
  <2>2. MaxSessions \in Nat
    BY SessionsAssumption
  <2>3. \A k \in Clicks : click[k].at = "idle"
    BY DEF WorkshopInit, IdleClick
  <2>4. IsFiniteSet({}) /\ Cardinality({}) = 0
    BY FS_EmptySet
  <2>5. QED
    BY <2>1, <2>2, <2>3, <2>4 DEF LimitsHeld
<1>4. QED
  BY <1>1, <1>2, <1>3 DEF WorkshopInv

\* A step after which nobody has a session more, and no click passed the limit.
LEMMA LimitsStay ==
  ASSUME WorkshopInv,
         \A m \in Members : ActiveSessionsFor(m)' \subseteq ActiveSessionsFor(m),
         \A k \in Clicks : click'[k].at \in {"channel", "made"} =>
           click[k].at \in {"channel", "made"} /\ click'[k].who = click[k].who
  PROVE  LimitsHeld'
<1>1. \A m \in Members : /\ IsFiniteSet(ActiveSessionsFor(m)')
                         /\ Cardinality(ActiveSessionsFor(m)') <= Cardinality(ActiveSessionsFor(m))
                         /\ Cardinality(ActiveSessionsFor(m)) \in Nat
                         /\ Cardinality(ActiveSessionsFor(m)') \in Nat
  BY FS_Subset, FS_CardinalityType DEF WorkshopInv, LimitsHeld
<1>2. \A k \in Clicks : click[k].at \in {"channel", "made"} => click[k].who \in Members
  BY DEF WorkshopInv, ClicksApart, SessionsTypeOK
<1>3. MaxSessions \in Nat
  BY SessionsAssumption
<1>4. ASSUME NEW m \in Members
      PROVE  IsFiniteSet(ActiveSessionsFor(m)') /\ Cardinality(ActiveSessionsFor(m)') <= MaxSessions
  BY <1>1, <1>3 DEF WorkshopInv, LimitsHeld
<1>5. ASSUME NEW k \in Clicks, click'[k].at \in {"channel", "made"}
      PROVE  Cardinality(ActiveSessionsFor(click[k].who)') < MaxSessions
  <2>1. PICK m \in Members : m = click[k].who /\ click'[k].who = m
    BY <1>2, <1>5
  <2>2. Cardinality(ActiveSessionsFor(m)) < MaxSessions
    BY <1>5, <2>1 DEF WorkshopInv, LimitsHeld
  <2>3. Cardinality(ActiveSessionsFor(m)') < MaxSessions
    BY <1>1, <1>3, <2>2
  <2>4. ActiveSessionsFor(click[k].who)' = ActiveSessionsFor(m)'
    BY <2>1 DEF ActiveSessionsFor
  <2>5. QED
    BY <2>3, <2>4
<1>6. QED
  BY <1>4, <1>5 DEF LimitsHeld, ActiveSessionsFor

\* A reaction's handler, up to its row.
LEMMA ClickSteps ==
  ASSUME WorkshopInv, NEW k \in Clicks,
         \/ \E m \in Members : HandleReaction(k, m)
         \/ CheckLimit(k) \/ NoChannel(k) \/ AnswerLost(k) \/ Introduced(k)
         \/ \E c \in Rooms : CreateChannel(k, c)
  PROVE  WorkshopInv'
<1> USE DEF WorkshopInv
<1>1. UNCHANGED <<status, owner, closer, events>>
  BY DEF HandleReaction, CheckLimit, NoChannel, AnswerLost, Introduced, CreateChannel, rows
<1>2. \A m \in Members : ActiveSessionsFor(m)' = ActiveSessionsFor(m)
  BY <1>1 DEF ActiveSessionsFor
<1>3. ASSUME NEW m \in Members, HandleReaction(k, m)
      PROVE  WorkshopInv'
  <2>1. /\ UNCHANGED <<room, stranded, crashes>> /\ m \notin creating
        /\ creating' = creating \cup {m}
        /\ click' \in [Clicks -> ClickStates]
        /\ click'[k] = [at |-> "message", who |-> m, room |-> NoRoom]
        /\ click[k].at = "idle"
        /\ \A l \in Clicks \ {k} : click'[l] = click[l]
    BY <1>3 DEF HandleReaction, Free, SessionsTypeOK, ClickStates
  <2>2. SessionsTypeOK'
    BY <1>1, <2>1 DEF SessionsTypeOK
  <2>3. ClicksApart'
    BY <1>1, <2>1 DEF ClicksApart
  <2>4. LimitsHeld'
    BY <1>2, <2>1, LimitsStay
  <2>5. RoomsMatch'
    BY <1>1, <2>1 DEF RoomsMatch, Making, Recording
  <2>6. QED
    BY <2>2, <2>3, <2>4, <2>5
<1>4. CASE CheckLimit(k)
  <2>1. /\ UNCHANGED <<room, creating, stranded, crashes>>
        /\ click' \in [Clicks -> ClickStates]
        /\ click'[k].who = click[k].who /\ click'[k].at \in {"limit", "channel"}
        /\ click'[k].at = "channel" => ~(Cardinality(ActiveSessionsFor(click[k].who)) >= MaxSessions)
        /\ click[k].at = "message"
        /\ \A l \in Clicks \ {k} : click'[l] = click[l]
    BY <1>4 DEF CheckLimit, SessionsTypeOK, ClickStates
  <2>2. SessionsTypeOK'
    BY <1>1, <2>1 DEF SessionsTypeOK
  <2>3. ClicksApart'
    BY <1>1, <2>1 DEF ClicksApart
  <2>4. LimitsHeld'
    <3>1. PICK m \in Members : m = click[k].who
      BY <2>1 DEF ClicksApart, SessionsTypeOK
    <3>2. Cardinality(ActiveSessionsFor(m)) \in Nat /\ MaxSessions \in Nat
      BY FS_CardinalityType, SessionsAssumption DEF LimitsHeld
    <3>3. click'[k].at = "channel" => Cardinality(ActiveSessionsFor(m)) < MaxSessions
      BY <2>1, <3>1, <3>2
    <3>4. \A x \in Members \cup {NoMember} : ActiveSessionsFor(x)' = ActiveSessionsFor(x)
      BY <1>1 DEF ActiveSessionsFor
    <3>5. \A l \in Clicks : click'[l].who \in Members \cup {NoMember}
      BY <2>1 DEF ClickStates
    <3>6. ASSUME NEW l \in Clicks, click'[l].at \in {"channel", "made"}
          PROVE  Cardinality(ActiveSessionsFor(click'[l].who)) < MaxSessions
      <4>1. CASE l = k
        BY <2>1, <3>1, <3>3, <3>6, <4>1
      <4>2. CASE l # k
        BY <2>1, <3>6, <4>2 DEF LimitsHeld
      <4>3. QED
        BY <4>1, <4>2
    <3>7. \A l \in Clicks : ActiveSessionsFor(click[l].who)' = ActiveSessionsFor(click'[l].who)
      BY <1>1 DEF ActiveSessionsFor
    <3>8. QED
      BY <1>2, <3>6, <3>7 DEF LimitsHeld
  <2>5. RoomsMatch'
    BY <1>1, <2>1 DEF RoomsMatch, Making, Recording
  <2>6. QED
    BY <2>2, <2>3, <2>4, <2>5
<1>5. CASE NoChannel(k) \/ Introduced(k) \/ AnswerLost(k)
  <2>1. /\ UNCHANGED room
        /\ stranded' = IF click[k].at = "made" THEN stranded \cup {click[k].room} ELSE stranded
        /\ crashes' \in Nat
        /\ click' \in [Clicks -> ClickStates] /\ click'[k].at = "idle"
        /\ click[k].at # "idle" /\ creating' = creating \ {click[k].who}
        /\ \A l \in Clicks \ {k} : click'[l] = click[l]
    BY <1>5 DEF NoChannel, Introduced, AnswerLost, ClickEnds, SessionsTypeOK, ClickStates, IdleClick
  <2>2. SessionsTypeOK'
    BY <1>1, <2>1 DEF SessionsTypeOK, ClicksApart
  <2>3. ClicksApart'
    BY <1>1, <2>1 DEF ClicksApart
  <2>4. LimitsHeld'
    BY <1>2, <2>1, LimitsStay
  <2>5. RoomsMatch'
    BY <1>1, <2>1 DEF RoomsMatch, Making, Recording
  <2>6. QED
    BY <2>2, <2>3, <2>4, <2>5
<1>6. ASSUME NEW c \in Rooms, CreateChannel(k, c)
      PROVE  WorkshopInv'
  <2>1. /\ UNCHANGED <<creating, stranded, crashes>>
        /\ room' \in [Rooms -> {"unused", "open", "gone"}]
        /\ room[c] = "unused" /\ room'[c] = "open"
        /\ \A d \in Rooms \ {c} : room'[d] = room[d]
        /\ click' \in [Clicks -> ClickStates]
        /\ click'[k].at = "made" /\ click'[k].who = click[k].who /\ click'[k].room = c
        /\ click[k].at = "channel"
        /\ \A l \in Clicks \ {k} : click'[l] = click[l]
    <3>1. /\ click[k].at = "channel" /\ room[c] = "unused" /\ room' = [room EXCEPT ![c] = "open"]
          /\ click' = [click EXCEPT ![k].at = "made", ![k].room = c]
          /\ UNCHANGED <<creating, stranded, crashes>>
      BY <1>6 DEF CreateChannel
    <3>2. [click[k] EXCEPT !.at = "made", !.room = c] \in ClickStates
      BY DEF SessionsTypeOK, ClickStates
    <3>3. /\ room \in [Rooms -> {"unused", "open", "gone"}] /\ click \in [Clicks -> ClickStates]
          /\ click[k] \in ClickStates
      BY DEF SessionsTypeOK
    <3>4. /\ room' \in [Rooms -> {"unused", "open", "gone"}] /\ room'[c] = "open"
          /\ \A d \in Rooms \ {c} : room'[d] = room[d]
      BY <3>1, <3>3
    <3>5. /\ click' \in [Clicks -> ClickStates]
          /\ click'[k] = [click[k] EXCEPT !.at = "made", !.room = c]
          /\ \A l \in Clicks \ {k} : click'[l] = click[l]
      BY <3>1, <3>2, <3>3
    <3>6. QED
      BY <3>1, <3>3, <3>4, <3>5 DEF ClickStates
  <2>2. SessionsTypeOK'
    BY <1>1, <2>1 DEF SessionsTypeOK
  <2>3. ClicksApart'
    BY <1>1, <2>1 DEF ClicksApart, RoomsMatch, SessionsTypeOK
  <2>4. LimitsHeld'
    BY <1>2, <2>1, LimitsStay
  <2>5. RoomsMatch'
    BY <1>1, <2>1 DEF RoomsMatch, Making, Recording, ClicksApart, SessionsTypeOK
  <2>6. QED
    BY <2>2, <2>3, <2>4, <2>5
<1>7. QED
  BY <1>3, <1>4, <1>5, <1>6

\* The row is written: the member's last free place is used.
LEMMA RowWritten ==
  ASSUME WorkshopInv, NEW k \in Clicks, CreateSession(k)
  PROVE  WorkshopInv'
<1> USE DEF WorkshopInv
<1>1. PICK c \in Rooms, m \in Members :
        /\ c = click[k].room /\ m = click[k].who /\ click[k].at = "made"
        /\ status[c] = "none" /\ room[c] # "unused"
  BY DEF CreateSession, ClicksApart, SessionsTypeOK
<1>2. /\ UNCHANGED <<room, creating, closer, events, stranded, crashes>>
      /\ status' \in [Rooms -> {"none", "active", "closed"}]
      /\ owner' \in [Rooms -> Members \cup {NoMember}]
      /\ status'[c] = "active" /\ owner'[c] = m
      /\ \A d \in Rooms \ {c} : status'[d] = status[d] /\ owner'[d] = owner[d]
      /\ click' \in [Clicks -> ClickStates]
      /\ click'[k].at = "intro" /\ click'[k].who = m
      /\ \A l \in Clicks \ {k} : click'[l] = click[l]
  BY <1>1 DEF CreateSession, SessionsTypeOK, ClickStates
<1>3. SessionsTypeOK'
  BY <1>2 DEF SessionsTypeOK
<1>4. ClicksApart'
  BY <1>1, <1>2 DEF ClicksApart
<1>5. RoomsMatch'
  BY <1>1, <1>2 DEF RoomsMatch, ClicksApart, Making, Recording
<1>6. LimitsHeld'
  <2>1. /\ IsFiniteSet(ActiveSessionsFor(m)) /\ c \notin ActiveSessionsFor(m)
        /\ Cardinality(ActiveSessionsFor(m)) < MaxSessions
    BY <1>1 DEF LimitsHeld, ActiveSessionsFor
  <2>2. ActiveSessionsFor(m)' = ActiveSessionsFor(m) \cup {c}
    BY <1>1, <1>2 DEF ActiveSessionsFor
  <2>3. \A n \in Members \ {m} : ActiveSessionsFor(n)' = ActiveSessionsFor(n)
    BY <1>1, <1>2 DEF ActiveSessionsFor
  <2>4. /\ IsFiniteSet(ActiveSessionsFor(m)')
        /\ Cardinality(ActiveSessionsFor(m)') = Cardinality(ActiveSessionsFor(m)) + 1
    BY <2>1, <2>2, FS_AddElement
  <2>5. Cardinality(ActiveSessionsFor(m)') <= MaxSessions
    BY <2>1, <2>4, FS_CardinalityType, SessionsAssumption
  <2>6. ASSUME NEW l \in Clicks, click'[l].at \in {"channel", "made"}
        PROVE  Cardinality(ActiveSessionsFor(click[l].who)') < MaxSessions
    <3>1. l # k /\ click'[l] = click[l]
      BY <1>2, <2>6
    <3>2. PICK n \in Members : n = click[l].who /\ n # m
      BY <1>1, <2>6, <3>1 DEF ClicksApart, SessionsTypeOK
    <3>3. Cardinality(ActiveSessionsFor(n)) < MaxSessions
      BY <2>6, <3>1, <3>2 DEF LimitsHeld
    <3>4. Cardinality(ActiveSessionsFor(n)') < MaxSessions
      BY <2>3, <3>2, <3>3
    <3>5. ActiveSessionsFor(click[l].who)' = ActiveSessionsFor(n)'
      BY <3>1, <3>2 DEF ActiveSessionsFor
    <3>6. QED
      BY <3>4, <3>5
  <2>7. QED
    BY <2>3, <2>4, <2>5, <2>6 DEF LimitsHeld, ActiveSessionsFor
<1>7. QED
  BY <1>3, <1>4, <1>5, <1>6

\* A step of a closing or of Discord: rows are only closed, and of channels that
\* are gone; clicks go on.
LEMMA CloserSteps ==
  ASSUME WorkshopInv,
         \/ \E j \in Closers, c \in Rooms : Confirm(j, c)
         \/ \E j \in Closers : \/ ReadAgain(j) \/ DeleteChannel(j) \/ DeleteFails(j)
                               \/ MarkClosed(j)
         \/ \E c \in Rooms : ModeratorDeletes(c) \/ HandleChannelDelete(c)
  PROVE  WorkshopInv'
<1> USE DEF WorkshopInv
<1>1. /\ UNCHANGED <<creating, click, owner, crashes>>
      /\ \A d \in Rooms : status'[d] = "active" => status[d] = "active"
  BY DEF Confirm, ReadAgain, DeleteChannel, DeleteFails, MarkClosed, ModeratorDeletes,
         HandleChannelDelete, CloseRow, rows, SessionsTypeOK
<1>2. LimitsHeld'
  <2>1. \A m \in Members : ActiveSessionsFor(m)' \subseteq ActiveSessionsFor(m)
    BY <1>1 DEF ActiveSessionsFor
  <2>2. QED
    BY <1>1, <2>1, LimitsStay
<1> USE DEF SessionsTypeOK, ClicksApart, RoomsMatch, Making, Recording
<1>3. ASSUME NEW j \in Closers, NEW c \in Rooms, Confirm(j, c)
      PROVE  WorkshopInv'
  <2>1. /\ UNCHANGED <<room, status, events, stranded>> /\ status[c] = "active"
        /\ closer' \in [Closers -> CloserStates] /\ closer[j].at = "idle"
        /\ closer'[j] = [at |-> "confirmed", room |-> c]
        /\ \A i \in Closers \ {j} : closer'[i] = closer[i]
    BY <1>3 DEF Confirm, rows, CloserStates
  <2>2. SessionsTypeOK' /\ ClicksApart'
    BY <1>1, <2>1
  <2>3. RoomsMatch'
    BY <1>1, <2>1
  <2>4. QED
    BY <1>2, <2>2, <2>3
<1>4. ASSUME NEW j \in Closers, ReadAgain(j) \/ DeleteFails(j) \/ MarkClosed(j)
      PROVE  WorkshopInv'
  <2>1. PICK c \in Rooms : c = closer[j].room /\ status[c] # "none"
    BY <1>4 DEF ReadAgain, DeleteFails, MarkClosed
  <2>2. /\ UNCHANGED <<room, events, stranded>>
        /\ closer' \in [Closers -> CloserStates]
        /\ closer'[j].at \in {"idle", "waiting"}
        /\ closer'[j].at = "waiting" => closer'[j].room = c
        /\ closer[j].at # "idle"
        /\ \A i \in Closers \ {j} : closer'[i] = closer[i]
    BY <1>4, <2>1 DEF ReadAgain, DeleteFails, MarkClosed, CloserEnds, IdleCloser, CloserStates
  <2>3. /\ \/ status' = status /\ closer[j].at # "deleted"
           \/ status' = [status EXCEPT ![c] = "closed"] /\ room[c] = "gone"
    BY <1>4, <2>1 DEF ReadAgain, DeleteFails, MarkClosed, CloseRow, rows
  <2>4. SessionsTypeOK'
    BY <1>1, <2>2, <2>3
  <2>5. ClicksApart'
    BY <1>1, <2>1, <2>2, <2>3
  <2>6. RoomsMatch'
    BY <1>1, <2>1, <2>2, <2>3
  <2>7. QED
    BY <1>2, <2>4, <2>5, <2>6
<1>5. ASSUME NEW c \in Rooms, ModeratorDeletes(c) \/ \E j \in Closers : DeleteChannel(j) /\ closer[j].room = c
      PROVE  WorkshopInv'
  <2>1. /\ UNCHANGED <<status, stranded>>
        /\ room[c] = "open" /\ room' = [room EXCEPT ![c] = "gone"]
        /\ events' = events \cup {c}
        /\ closer' \in [Closers -> CloserStates]
        /\ \A i \in Closers : /\ closer'[i].room = closer[i].room
                              /\ \/ closer'[i].at = closer[i].at
                                 \/ closer[i].at = "waiting" /\ closer'[i].at = "deleted"
                                    /\ closer[i].room = c
    BY <1>5 DEF ModeratorDeletes, DeleteChannel, RemoveRoom, rows, CloserStates
  <2>2. SessionsTypeOK' /\ ClicksApart'
    BY <1>1, <2>1
  <2>3. RoomsMatch'
    BY <1>1, <2>1
  <2>4. QED
    BY <1>2, <2>2, <2>3
<1>6. ASSUME NEW c \in Rooms, HandleChannelDelete(c)
      PROVE  WorkshopInv'
  <2>1. /\ UNCHANGED <<room, closer>> /\ room[c] = "gone"
        /\ c \in events /\ events' = events \ {c}
        /\ stranded' = IF Making(c) THEN stranded \cup {c} ELSE stranded
        /\ status' = IF status[c] = "active" THEN [status EXCEPT ![c] = "closed"] ELSE status
    BY <1>6 DEF HandleChannelDelete, Handled, CloseRow, rows
  <2>2. SessionsTypeOK' /\ ClicksApart'
    BY <1>1, <2>1
  <2>3. RoomsMatch'
    BY <1>1, <2>1
  <2>4. QED
    BY <1>2, <2>2, <2>3
<1>7. \A j \in Closers : DeleteChannel(j) => closer[j].room \in Rooms
  BY DEF DeleteChannel
<1>8. QED
  BY <1>3, <1>4, <1>5, <1>6, <1>7

LEMMA RestartStep ==
  ASSUME WorkshopInv, Restart
  PROVE  WorkshopInv'
<1> USE DEF WorkshopInv
<1>1. /\ UNCHANGED <<room, status, owner>> /\ crashes' \in Nat
      /\ creating' = {} /\ events' = {}
      /\ click' = [k \in Clicks |-> IdleClick] /\ closer' = [j \in Closers |-> IdleCloser]
      /\ stranded' = stranded \cup
           {c \in Rooms : \/ status[c] = "active" /\ room[c] = "gone"
                          \/ status[c] = "none" /\ room[c] # "unused"}
  BY DEF Restart, rows, SessionsTypeOK
<1>2. IdleClick \in ClickStates /\ IdleClick.at = "idle"
  BY DEF IdleClick, ClickStates
<1>3. IdleCloser \in CloserStates /\ IdleCloser.at = "idle"
  BY DEF IdleCloser, CloserStates
<1>4. SessionsTypeOK'
  BY <1>1, <1>2, <1>3 DEF SessionsTypeOK
<1>5. ClicksApart'
  BY <1>1, <1>2 DEF ClicksApart
<1>6. LimitsHeld'
  <2>1. \A m \in Members : ActiveSessionsFor(m)' \subseteq ActiveSessionsFor(m)
    BY <1>1 DEF ActiveSessionsFor
  <2>2. QED
    BY <1>1, <1>2, <2>1, LimitsStay
<1>7. RoomsMatch'
  BY <1>1, <1>2, <1>3 DEF RoomsMatch, Making, Recording, SessionsTypeOK, ClicksApart
<1>8. QED
  BY <1>4, <1>5, <1>6, <1>7

LEMMA WorkshopStep == WorkshopInv /\ [WorkshopNext]_sessVars => WorkshopInv'
<1> SUFFICES ASSUME WorkshopInv, [WorkshopNext]_sessVars PROVE WorkshopInv'
  OBVIOUS
<1>1. CASE UNCHANGED sessVars
  <2>1. SessionsTypeOK' /\ ClicksApart'
    BY <1>1 DEF sessVars, rows, WorkshopInv, SessionsTypeOK, ClicksApart
  <2>2. LimitsHeld'
    BY <1>1 DEF sessVars, rows, WorkshopInv, LimitsHeld, ActiveSessionsFor
  <2>3. RoomsMatch'
    BY <1>1 DEF sessVars, rows, WorkshopInv, RoomsMatch, Making, Recording
  <2>4. QED
    BY <2>1, <2>2, <2>3 DEF WorkshopInv
<1>2. CASE WorkshopNext
  BY <1>2, ClickSteps, RowWritten, CloserSteps, RestartStep DEF WorkshopNext
<1>3. QED
  BY <1>1, <1>2

\* Clicks stay within the limit and channels agree with their rows, in every state.
THEOREM WorkshopInvariant == WorkshopSpec => []WorkshopInv
BY WorkshopStarts, WorkshopStep, PTL DEF WorkshopSpec

\* No member has more open sessions than allowed, and channels and rows agree, for any
\* number of members, clicks, closings and restarts (createSessionFor, closeSession).
THEOREM SessionsAreAccounted == WorkshopSpec => []SessionsAccounted
<1>1. WorkshopInv => SessionsAccounted
  BY DEF WorkshopInv, LimitsHeld, RoomsMatch, SessionsAccounted
<1>2. QED
  BY <1>1, WorkshopInvariant, PTL

-----------------------------------------------------------------------------
(* What a session remembers (WorkshopContext).                             *)

\* A session row remembers only what follows its last clear.
Remembers(sn) ==
  /\ sn \in Row /\ sn.cleared <= now /\ sn.covers <= now
  /\ \A k \in sn.summary : sn.cleared < k

\* Up to its watermark it remembers everything that the channel still shows, but
\* what its compactions passed over.
Complete(sn) ==
  \A k \in channel :
    sn.cleared < k /\ k <= sn.covers => k \in sn.summary \cup sn.gap

ContextTyped ==
  /\ now \in 0..LastInstant
  /\ channel \in SUBSET (1..now)
  /\ snap \in [Time -> Row]
  /\ queue \in Seq(Time) /\ \A i \in 1..Len(queue) : queue[i] <= now
  /\ read \in Reads
  /\ job \in Jobs

RowsRemember ==
  /\ Remembers(row) /\ \A m \in Time : Remembers(snap[m])
  /\ Complete(row) /\ \A m \in Time : Complete(snap[m])

\* The row a turn read when its message came was cleared last when the row was, or
\* the row was cleared after the message.
SnapsAreRecent ==
  \A i \in 1..Len(queue) :
    snap[queue[i]].cleared = row.cleared \/ row.cleared > queue[i]

\* Up to its newest older message the turn in hand leaves nothing out: it is in the
\* row the turn read, or among what its history holds or could not reach.
ReadExact ==
  read.ready =>
    /\ queue # <<>>
    /\ \A k \in read.older : snap[Head(queue)].cleared < k /\ k < Head(queue)
    /\ \A o \in read.older, k \in channel :
         snap[Head(queue)].cleared < k /\ k <= o =>
           \/ k \in snap[Head(queue)].summary \cup snap[Head(queue)].gap
           \/ k \in read.older \cup read.others

\* So does a compaction, unless the context was cleared after it began.
JobExact ==
  /\ job.newest <= now
  /\ row.cleared < job.newest =>
       /\ \A k \in job.summary \cup job.older : row.cleared < k
       /\ \A k \in channel : row.cleared < k /\ k <= job.newest =>
            k \in job.summary \cup job.older \cup job.gap

ContextInv == ContextTyped /\ RowsRemember /\ SnapsAreRecent /\ ReadExact /\ JobExact

-----------------------------------------------------------------------------
(* The newest messages, and the greatest of a set.                         *)

LEMMA SetsOfTimeAreFinite ==
  ASSUME NEW S \in SUBSET Time
  PROVE  IsFiniteSet(S) /\ Cardinality(S) \in Nat /\ Cardinality(S) <= LastInstant
<1>1. LastInstant \in Nat
  BY ContextAssumption
<1>2. IsFiniteSet(Time) /\ Cardinality(Time) = LastInstant
  BY <1>1, FS_Interval DEF Time
<1>3. IsFiniteSet(S) /\ Cardinality(S) <= Cardinality(Time)
  BY <1>2, FS_Subset
<1>4. QED
  BY <1>2, <1>3, FS_CardinalityType

LEMMA GreatestOfTime ==
  ASSUME NEW S \in SUBSET Time, S # {}
  PROVE  Max(S) \in S /\ \A y \in S : Max(S) >= y
<1> DEFINE T == {LastInstant - y : y \in S}
<1>1. T \in SUBSET Nat /\ T # {}
  <2>1. LastInstant \in Nat /\ \A y \in S : y \in 1..LastInstant
    BY ContextAssumption DEF Time
  <2>2. \A y \in S : LastInstant - y \in Nat
    BY <2>1
  <2>3. QED
    BY <2>2
<1>2. PICK a \in T : \A b \in T : a <= b
  <2> DEFINE R == OpToRel(<, Nat)
  <2>1. \A x, y \in Nat : y < x => <<y, x>> \in R
    BY DEF OpToRel
  <2>2. IsWellFoundedOn(R, Nat)
    BY NatLessThanWellFounded
  <2> HIDE DEF R
  <2>3. PICK a \in T : \A b \in T : ~ (<<b, a>> \in R)
    BY <1>1, <2>2, WFMin
  <2> HIDE DEF T
  <2>4. ASSUME NEW b \in T PROVE a <= b
    <3>1. a \in Nat /\ b \in Nat
      BY <1>1
    <3>2. ~(b < a)
      BY <2>1, <2>3, <3>1
    <3>3. QED
      BY <3>1, <3>2
  <2>5. QED
    BY <2>4
<1>3. \A b \in T : a <= b
  BY <1>2
<1>4. PICK x \in S : a = LastInstant - x
  BY <1>2
<1>5. ASSUME NEW y \in S PROVE x >= y
  <2>1. LastInstant - y \in T
    OBVIOUS
  <2>2. a <= LastInstant - y
    BY <1>3, <2>1
  <2> HIDE DEF T
  <2>3. x \in Int /\ y \in Int /\ LastInstant \in Int
    BY ContextAssumption DEF Time
  <2>4. QED
    BY <1>4, <2>2, <2>3
<1>6. QED
  BY <1>5 DEF Max

LEMMA SinceBoth ==
  ASSUME NEW sn \in Row
  PROVE  /\ Since(sn) \in Int
         /\ Since(sn) = sn.cleared \/ Since(sn) = sn.covers
         /\ Since(sn) >= sn.cleared /\ Since(sn) >= sn.covers
<1>1. sn.cleared \in Int /\ sn.covers \in Int
  BY ContextAssumption DEF Row
<1>2. \E x \in {sn.cleared, sn.covers} :
        \A y \in {sn.cleared, sn.covers} : x >= y
  BY <1>1
<1>3. QED
  BY <1>1, <1>2 DEF Since, Max

-----------------------------------------------------------------------------
(* The steps.                                                              *)

LEMMA ContextStarts == ContextInit => ContextInv
<1> SUFFICES ASSUME ContextInit PROVE ContextInv
  OBVIOUS
<1>1. LastInstant \in Nat
  BY ContextAssumption
<1>2. FreshRow \in Row /\ FreshRow.summary = {} /\ FreshRow.cleared = 0 /\ FreshRow.covers = 0
  BY <1>1 DEF FreshRow, Row
<1>3. ContextTyped
  BY <1>1, <1>2 DEF ContextInit, ContextTyped, NotRead, NoJob, Reads, Jobs
<1>4. RowsRemember
  BY <1>1, <1>2 DEF ContextInit, RowsRemember, Remembers, Complete
<1>5. SnapsAreRecent /\ ReadExact
  BY DEF ContextInit, SnapsAreRecent, ReadExact, NotRead
<1>6. JobExact
  BY DEF ContextInit, JobExact, NoJob
<1>7. QED
  BY <1>3, <1>4, <1>5, <1>6 DEF ContextInv

\* A channel that loses messages is remembered as well, by the same rows.
LEMMA ChannelShrinks ==
  ASSUME ContextInv, UNCHANGED <<now, row, snap, queue, read, job>>,
         channel' \in SUBSET channel
  PROVE  ContextInv'
<1>1. ContextTyped'
  BY DEF ContextInv, ContextTyped
<1>2. RowsRemember'
  BY DEF ContextInv, RowsRemember, Remembers, Complete
<1>3. SnapsAreRecent'
  BY DEF ContextInv, SnapsAreRecent
<1>4. ReadExact'
  BY DEF ContextInv, ReadExact
<1>5. JobExact'
  BY DEF ContextInv, JobExact
<1>6. QED
  BY <1>1, <1>2, <1>3, <1>4, <1>5 DEF ContextInv

\* A clear comes after everything that was posted.
LEMMA ClearKeeps ==
  ASSUME ContextInv, now < LastInstant, now' = now + 1, row' = Cleared(row, now'),
         UNCHANGED <<channel, snap, queue, read, job>>
  PROVE  ContextInv'
<1>1. ContextTyped /\ now \in Nat /\ LastInstant \in Nat
  BY ContextAssumption DEF ContextInv, ContextTyped
<1>2. /\ row' \in Row /\ row'.cleared = now + 1 /\ row'.summary = {} /\ row'.covers = 0
  <2>1. row \in Row /\ now + 1 \in 0..LastInstant /\ 0 \in 0..LastInstant
    BY <1>1 DEF ContextInv, RowsRemember, Remembers
  <2>2. row' = [row EXCEPT !.cleared = now + 1, !.summary = {}, !.covers = 0,
                             !.gap = {}]
    BY DEF Cleared
  <2>3. QED
    BY <2>1, <2>2 DEF Row
<1>3. \A i \in 1..Len(queue) : queue[i] \in Time /\ queue[i] <= now
  BY <1>1 DEF ContextTyped
<1>4. ContextTyped'
  <2>1. now' \in 0..LastInstant /\ channel' \in SUBSET (1..now')
    BY <1>1 DEF ContextTyped
  <2>2. \A i \in 1..Len(queue) : queue[i] <= now'
    BY <1>1, <1>3 DEF Time
  <2>3. QED
    BY <1>1, <2>1, <2>2 DEF ContextTyped
<1>5. RowsRemember'
  <2>1. Remembers(row)' /\ Complete(row)'
    BY <1>1, <1>2 DEF Remembers, Complete, ContextTyped
  <2>2. ASSUME NEW m \in Time
        PROVE  Remembers(snap[m])' /\ Complete(snap[m])'
    <3>1. snap[m] \in Row /\ snap[m].cleared <= now /\ snap[m].covers <= now
      BY DEF ContextInv, RowsRemember, Remembers
    <3>2. snap[m].cleared <= now + 1 /\ snap[m].covers <= now + 1
      BY <1>1, <3>1 DEF Row
    <3>3. QED
      BY <3>1, <3>2 DEF ContextInv, RowsRemember, Remembers, Complete
  <2>3. QED
    BY <2>1, <2>2 DEF RowsRemember
<1>6. SnapsAreRecent'
  <2>1. \A i \in 1..Len(queue) : row'.cleared > queue[i]
    BY <1>1, <1>2, <1>3 DEF Time
  <2>2. QED
    BY <2>1 DEF SnapsAreRecent
<1>7. ReadExact'
  BY DEF ContextInv, ReadExact
<1>8. JobExact'
  <2>1. job.newest \in Nat /\ job.newest <= now
    BY <1>1 DEF ContextInv, ContextTyped, JobExact, Jobs
  <2>2. job.newest <= now + 1 /\ ~(row'.cleared < job.newest)
    BY <1>1, <1>2, <2>1
  <2>3. QED
    BY <2>2 DEF JobExact
<1>9. QED
  BY <1>4, <1>5, <1>6, <1>7, <1>8 DEF ContextInv

LEMMA ReceiveKeeps == ASSUME ContextInv, Receive PROVE ContextInv'
<1>1. ContextTyped /\ now \in Nat /\ LastInstant \in Nat /\ now' = now + 1 /\ now < LastInstant
  BY ContextAssumption DEF ContextInv, ContextTyped, Receive
<1>2. PICK t \in Time : t = now + 1
  BY <1>1 DEF Time
<1>3. /\ channel' = channel \cup {t} /\ snap' = [snap EXCEPT ![t] = row]
      /\ queue' = Append(queue, t) /\ UNCHANGED <<row, read, job>>
  BY <1>1, <1>2 DEF Receive
<1>4. RowsRemember /\ row \in Row
  BY DEF ContextInv, RowsRemember, Remembers
<1>5. /\ snap' \in [Time -> Row] /\ snap'[t] = row
      /\ \A m \in Time \ {t} : snap'[m] = snap[m]
  BY <1>1, <1>3, <1>4 DEF ContextTyped
<1>6. /\ queue' \in Seq(Time) /\ Len(queue') = Len(queue) + 1 /\ Len(queue) \in Nat
      /\ queue'[Len(queue) + 1] = t
      /\ \A i \in 1..Len(queue) : /\ queue'[i] = queue[i] /\ queue[i] \in Time
                                 /\ queue[i] <= now /\ queue[i] # t
  <2>1. queue \in Seq(Time) /\ \A i \in 1..Len(queue) : queue[i] <= now
    BY <1>1 DEF ContextTyped
  <2>2. /\ queue' \in Seq(Time) /\ Len(queue') = Len(queue) + 1 /\ Len(queue) \in Nat
        /\ queue'[Len(queue) + 1] = t
        /\ \A i \in 1..Len(queue) : queue'[i] = queue[i] /\ queue[i] \in Time
    BY <1>3, <2>1
  <2>3. \A i \in 1..Len(queue) : queue[i] # t
    BY <1>1, <1>2, <2>1, <2>2 DEF Time
  <2>4. QED
    BY <2>1, <2>2, <2>3
<1>7. ContextTyped'
  <2>1. now' \in 0..LastInstant /\ channel' \in SUBSET (1..now')
    BY <1>1, <1>2, <1>3 DEF ContextTyped
  <2>2. ASSUME NEW i \in 1..Len(queue') PROVE queue'[i] <= now'
    <3>1. CASE i = Len(queue) + 1
      BY <1>1, <1>2, <1>6, <3>1
    <3>2. CASE i \in 1..Len(queue)
      <4>1. queue'[i] = queue[i] /\ queue[i] \in Nat /\ queue[i] <= now
        BY <1>6, <3>2 DEF Time
      <4>2. QED
        BY <1>1, <4>1
    <3>3. QED
      BY <1>6, <3>1, <3>2
  <2>3. QED
    BY <1>1, <1>3, <1>5, <1>6, <2>1, <2>2 DEF ContextTyped
<1>8. ASSUME NEW s \in Row, Remembers(s)
      PROVE  Remembers(s)' /\ (Complete(s) => Complete(s)')
  <2>1. s.cleared \in Nat /\ s.covers \in Nat /\ s.cleared <= now /\ s.covers <= now
    BY <1>1, <1>8 DEF Remembers, Row
  <2>2. s.cleared <= now + 1 /\ s.covers <= now + 1 /\ ~(t <= s.covers)
    BY <1>1, <1>2, <2>1
  <2>3. QED
    BY <1>1, <1>3, <1>8, <2>2 DEF Remembers, Complete
<1>9. RowsRemember'
  <2>1. Remembers(row)' /\ Complete(row)'
    <3>1. PICK s \in Row : s = row
      BY <1>4
    <3>2. Remembers(s) /\ Complete(s)
      BY <1>4, <3>1 DEF RowsRemember, Remembers, Complete
    <3>3. Remembers(s)' /\ Complete(s)'
      BY <1>8, <3>2
    <3>4. QED
      BY <1>3, <3>1, <3>3 DEF Remembers, Complete
  <2>2. ASSUME NEW m \in Time
        PROVE  Remembers(snap[m])' /\ Complete(snap[m])'
    <3>1. PICK s \in Row : s = snap'[m] /\ (s = row \/ s = snap[m])
      BY <1>5
    <3>2. Remembers(s) /\ Complete(s)
      BY <1>4, <3>1 DEF RowsRemember, Remembers, Complete
    <3>3. Remembers(s)' /\ Complete(s)'
      BY <1>8, <3>2
    <3>4. QED
      BY <3>1, <3>3 DEF Remembers, Complete
  <2>3. QED
    BY <2>1, <2>2 DEF RowsRemember
<1>10. SnapsAreRecent'
  <2>1. ASSUME NEW i \in 1..Len(queue')
        PROVE  snap'[queue'[i]].cleared = row'.cleared \/ row'.cleared > queue'[i]
    <3>1. CASE i = Len(queue) + 1
      BY <1>3, <1>5, <1>6, <3>1
    <3>2. CASE i \in 1..Len(queue)
      BY <1>3, <1>5, <1>6, <3>2 DEF ContextInv, SnapsAreRecent
    <3>3. QED
      BY <1>6, <3>1, <3>2
  <2>2. QED
    BY <2>1 DEF SnapsAreRecent
<1>11. ReadExact'
  <2>1. CASE ~read.ready
    BY <1>3, <2>1 DEF ReadExact
  <2>2. CASE read.ready
    <3>1. queue # <<>> /\ Len(queue) >= 1
      BY <1>1, <2>2 DEF ContextInv, ReadExact, ContextTyped, Reads
    <3>2. Head(queue) = queue[1] /\ Head(queue') = queue'[1] /\ queue' # <<>>
      BY <1>6, <3>1
    <3>3. Head(queue') = Head(queue) /\ Head(queue) \in Time /\ Head(queue) # t /\ Head(queue) <= now
      BY <1>6, <3>1, <3>2
    <3>4. snap'[Head(queue')] = snap[Head(queue)]
      BY <1>5, <3>3
    <3>5. \A o \in read.older : o \in Time /\ ~(t <= o)
      <4>1. \A o \in read.older : o \in Time /\ o < Head(queue)
        BY <1>1, <2>2 DEF ContextInv, ReadExact, ContextTyped, Reads
      <4>2. QED
        BY <1>1, <1>2, <3>3, <4>1 DEF Time
    <3>6. QED
      BY <1>3, <2>2, <3>2, <3>3, <3>4, <3>5 DEF ContextInv, ReadExact
  <2>3. QED
    BY <2>1, <2>2
<1>12. JobExact'
  <2>1. job.newest \in Nat /\ job.newest <= now
    BY <1>1 DEF ContextInv, ContextTyped, JobExact, Jobs
  <2>2. job.newest <= now + 1 /\ ~(t <= job.newest)
    BY <1>1, <1>2, <2>1
  <2>3. QED
    BY <1>1, <1>3, <2>2 DEF ContextInv, JobExact
<1>13. QED
  BY <1>7, <1>9, <1>10, <1>11, <1>12 DEF ContextInv

LEMMA ReadKeeps == ASSUME ContextInv, ReadHistory PROVE ContextInv'
<1>1. ContextTyped /\ queue # <<>> /\ queue \in Seq(Time)
  BY DEF ContextInv, ContextTyped, ReadHistory
<1>2. PICK m \in Time : m = Head(queue)
  BY <1>1
<1> DEFINE usable == {k \in channel : Since(snap[m]) < k /\ k < m}
<1>0. PICK n \in Fetches : \E window \in Windows(Newest(usable, n)) :
        read' = [ready |-> TRUE, older |-> Newest(usable, n) \ window,
                 others |-> usable \ (Newest(usable, n) \ window)]
  BY <1>2 DEF ReadHistory
<1>3. PICK window \in Windows(Newest(usable, n)) :
        read' = [ready |-> TRUE, older |-> Newest(usable, n) \ window,
                 others |-> usable \ (Newest(usable, n) \ window)]
  BY <1>0
<1>4. snap[m] \in Row /\ usable \in SUBSET Time
  <2>1. channel \in SUBSET Time
    BY <1>1, ContextAssumption DEF ContextTyped, Time
  <2>2. QED
    BY <1>1, <2>1 DEF ContextTyped
<1>5. read'.older \in SUBSET usable /\ read'.others = usable \ read'.older /\ read'.ready
  BY <1>3 DEF Newest
<1>6. UNCHANGED <<now, row, channel, snap, queue, job>>
  BY DEF ReadHistory
<1>8. read' \in Reads
  <2>1. Newest(usable, n) \ window \in SUBSET Time
    BY <1>4 DEF Newest
  <2>2. usable \ (Newest(usable, n) \ window) \in SUBSET Time
    BY <1>4
  <2>3. QED
    BY <1>3, <2>1, <2>2 DEF Reads
<1>9. ContextTyped'
  BY <1>6, <1>8 DEF ContextInv, ContextTyped
<1>10. \A k \in read'.older : snap[m].cleared < k /\ k < m
  <2>1. ASSUME NEW k \in read'.older PROVE snap[m].cleared < k /\ k < m
    <3>1. k \in usable /\ k \in Int /\ snap[m].cleared \in Int
      BY <1>4, <1>5, <1>8 DEF Row, Time
    <3>2. Since(snap[m]) < k /\ k < m
      BY <3>1
    <3>3. QED
      BY <1>4, <3>1, <3>2, SinceBoth
  <2>2. QED
    BY <2>1
<1>11. ASSUME NEW o \in read'.older, NEW k \in channel, snap[m].cleared < k, k <= o
       PROVE  \/ k \in snap[m].summary \cup snap[m].gap
              \/ k \in read'.older \cup read'.others
  <2>1. /\ o < m /\ o \in Int /\ k \in Int /\ m \in Int
        /\ snap[m].cleared \in Int /\ snap[m].covers \in Int
    BY <1>1, <1>4, <1>5, <1>10 DEF ContextTyped, Row, Time
  <2>2. CASE k <= snap[m].covers
    BY <1>11, <2>2 DEF ContextInv, RowsRemember, Complete
  <2>3. CASE ~(k <= snap[m].covers)
    <3>1. Since(snap[m]) < k /\ k < m
      BY <1>4, <1>11, <2>1, <2>3, SinceBoth
    <3>2. k \in usable
      BY <3>1
    <3>3. QED
      BY <1>5, <3>2
  <2>4. QED
    BY <2>2, <2>3
<1>12. ReadExact'
  BY <1>1, <1>2, <1>6, <1>10, <1>11 DEF ReadExact
<1>13. RowsRemember' /\ SnapsAreRecent' /\ JobExact'
  BY <1>6 DEF ContextInv, RowsRemember, Remembers, Complete, SnapsAreRecent, JobExact
<1>14. QED
  BY <1>9, <1>12, <1>13 DEF ContextInv

\* A turn that leaves may leave a compaction.
LEMMA LeaveKeeps ==
  ASSUME ContextInv, queue # <<>>, Leave, UNCHANGED <<now, row, snap>>,
         channel' \in SUBSET channel,
         job' \in Jobs,
         JobExact'
  PROVE  ContextInv'
<1>1. queue \in Seq(Time) /\ queue' = Tail(queue)
  BY DEF ContextInv, ContextTyped, Leave
<1>2. /\ queue' \in Seq(Time) /\ Len(queue') \in Nat
      /\ \A i \in 1..Len(queue') : i + 1 \in 1..Len(queue) /\ queue'[i] = queue[i + 1]
  BY <1>1
<1>3. ContextTyped'
  BY <1>2 DEF ContextInv, ContextTyped, Leave, NotRead, Reads
<1>4. RowsRemember'
  BY DEF ContextInv, RowsRemember, Remembers, Complete
<1>5. SnapsAreRecent'
  BY <1>2 DEF ContextInv, SnapsAreRecent
<1>6. ReadExact'
  BY DEF Leave, NotRead, ReadExact
<1>7. QED
  BY <1>3, <1>4, <1>5, <1>6 DEF ContextInv

LEMMA CompactionStarts ==
  ASSUME ContextInv, read.ready, MayCompact, UNCHANGED <<now, row, channel>>,
         NEW n \in Nat, job' = Compaction(snap[Head(queue)], Newest(read.older, n))
  PROVE  job' \in Jobs /\ JobExact'
<1>1. /\ ContextTyped /\ queue # <<>> /\ queue \in Seq(Time)
      /\ read.older \in SUBSET Time /\ read.others \in SUBSET Time
  BY DEF ContextInv, ContextTyped, ReadExact, Reads
<1>2. PICK m \in Time : m = Head(queue) /\ m = queue[1] /\ 1 \in 1..Len(queue)
  BY <1>1
<1>3. snap[m] \in Row /\ Remembers(snap[m]) /\ m <= now /\ now \in Nat
  BY <1>1, <1>2, ContextAssumption DEF ContextInv, ContextTyped, RowsRemember
<1>4. read.older # {}
  BY ContextAssumption, FS_EmptySet DEF MayCompact
<1>5. PICK o \in read.older : o = Max(read.older)
  BY <1>1, <1>4, GreatestOfTime
<1>6. /\ \A k \in read.older : snap[m].cleared < k /\ k < m
      /\ \A k \in channel : snap[m].cleared < k /\ k <= o =>
           \/ k \in snap[m].summary \cup snap[m].gap
           \/ k \in read.older \cup read.others
  BY <1>2 DEF ContextInv, ReadExact
<1>7. PICK told \in SUBSET read.older :
        job' = [summary |-> snap[m].summary, older |-> told, newest |-> o,
                gap |-> snap[m].gap \cup
                        {k \in (read.older \ told) \cup read.others : k <= o}]
  BY <1>2, <1>5 DEF Newest, Compaction
<1>8. o \in Int /\ m \in Int /\ o < m /\ o \in 0..LastInstant
  BY <1>1, <1>6 DEF Time
<1>9. job' \in Jobs
  <2>1. snap[m].summary \in SUBSET Time /\ snap[m].gap \in SUBSET Time
    BY <1>3 DEF Row
  <2>2. told \in SUBSET Time
    BY <1>1
  <2>3. snap[m].gap \cup {k \in (read.older \ told) \cup read.others : k <= o} \in SUBSET Time
    BY <1>1, <2>1
  <2>4. QED
    BY <1>7, <1>8, <2>1, <2>2, <2>3 DEF Jobs
<1>10. o <= now
  BY <1>3, <1>8
<1>11. row.cleared < o => snap[m].cleared = row.cleared
  <2>1. snap[m].cleared = row.cleared \/ row.cleared > m
    BY <1>2 DEF ContextInv, SnapsAreRecent
  <2>2. row.cleared \in Int
    BY ContextAssumption DEF ContextInv, RowsRemember, Remembers, Row
  <2>3. QED
    BY <1>8, <2>1, <2>2
<1>12. ASSUME row.cleared < o, NEW k \in channel, row.cleared < k, k <= o
       PROVE  k \in job'.summary \cup job'.older \cup job'.gap
  <2>1. \/ k \in snap[m].summary \cup snap[m].gap
        \/ k \in read.older \cup read.others
    BY <1>6, <1>11, <1>12
  <2>2. QED
    BY <1>7, <1>12, <2>1
<1>13. ASSUME row.cleared < o, NEW k \in job'.summary \cup job'.older
       PROVE  row.cleared < k
  BY <1>3, <1>6, <1>7, <1>11, <1>13 DEF Remembers
<1>14. JobExact'
  <2>1. job'.newest = o
    BY <1>7
  <2>2. QED
    BY <1>10, <1>12, <1>13, <2>1 DEF JobExact
<1>15. QED
  BY <1>9, <1>14

LEMMA EndKeepsContext == ASSUME ContextInv, EndTurn PROVE ContextInv'
<1>1. queue # <<>> /\ Leave /\ read.ready /\ UNCHANGED <<now, row, snap>>
  BY DEF ContextInv, ReadExact, EndTurn
<1>2. CASE channel' \in {{}, channel} /\ UNCHANGED job
  <2>1. channel' \in SUBSET channel
    BY <1>2
  <2>2. JobExact'
    BY <1>1, <1>2, <2>1 DEF ContextInv, JobExact
  <2>3. job' \in Jobs
    BY <1>2 DEF ContextInv, ContextTyped
  <2>4. QED
    BY <1>1, <2>1, <2>2, <2>3, LeaveKeeps
<1>3. CASE /\ MayCompact /\ UNCHANGED channel
           /\ \E n \in Transcripts :
                job' = Compaction(snap[Head(queue)], Newest(read.older, n))
  <2>1. PICK n \in Nat : job' = Compaction(snap[Head(queue)], Newest(read.older, n))
    BY <1>3, ContextAssumption
  <2>2. job' \in Jobs /\ JobExact'
    BY <1>1, <1>3, <2>1, CompactionStarts
  <2>3. QED
    BY <1>1, <1>3, <2>2, LeaveKeeps
<1>4. QED
  BY <1>2, <1>3 DEF EndTurn

LEMMA DropKeeps == ASSUME ContextInv, DropTurn PROVE ContextInv'
<1>1. queue # <<>> /\ Leave /\ UNCHANGED <<now, row, channel, snap, job>>
  BY DEF DropTurn
<1>2. JobExact' /\ job' \in Jobs
  BY <1>1 DEF ContextInv, JobExact, ContextTyped
<1>3. QED
  BY <1>1, <1>2, LeaveKeeps

\* A row that forgets nothing and is not cleared, once a compaction is over.
LEMMA RowKeeps ==
  ASSUME ContextInv, UNCHANGED <<now, channel, snap, queue, read>>,
         job' = job \/ job' = NoJob, row'.cleared = row.cleared,
         Remembers(row)', Complete(row)'
  PROVE  ContextInv'
<1>1. NoJob.newest = 0 /\ NoJob \in Jobs
  BY ContextAssumption DEF NoJob, Jobs
<1>2. ContextTyped'
  BY <1>1 DEF ContextInv, ContextTyped
<1>3. row'.cleared \in Nat /\ now \in Nat
  BY ContextAssumption DEF ContextInv, ContextTyped, Remembers, Row
<1>4. RowsRemember'
  BY DEF ContextInv, RowsRemember, Remembers, Complete
<1>5. SnapsAreRecent' /\ ReadExact'
  BY DEF ContextInv, SnapsAreRecent, ReadExact
<1>6. JobExact'
  <2>1. CASE job' = job
    BY <2>1 DEF ContextInv, JobExact
  <2>2. CASE job' = NoJob
    BY <1>1, <1>3, <2>2 DEF JobExact
  <2>3. QED
    BY <2>1, <2>2
<1>7. QED
  BY <1>2, <1>4, <1>5, <1>6 DEF ContextInv

LEMMA CompactedKeeps == ASSUME ContextInv, Compacted PROVE ContextInv'
<1>1. /\ UNCHANGED <<now, channel, snap, queue, read>> /\ job' = NoJob
      /\ Remembers(row) /\ row \in Row /\ Complete(row)
  BY DEF ContextInv, RowsRemember, Remembers, Compacted
<1>2. CASE UNCHANGED row
  BY <1>1, <1>2, RowKeeps DEF Remembers, Complete
<1>3. CASE /\ row.cleared < job.newest
           /\ row' = [row EXCEPT !.summary = job.summary \union job.older,
                                 !.covers = job.newest, !.gap = job.gap]
  <2>1. /\ job.summary \cup job.older \in SUBSET Time /\ job.newest \in 0..LastInstant
        /\ job.gap \in SUBSET Time
    BY DEF ContextInv, ContextTyped, Jobs
  <2>2. /\ row' \in Row /\ row'.cleared = row.cleared /\ row'.covers = job.newest
        /\ row'.summary = job.summary \cup job.older /\ row'.gap = job.gap
    BY <1>1, <1>3, <2>1 DEF Row
  <2>3. Remembers(row)'
    BY <1>1, <1>3, <2>2 DEF ContextInv, JobExact, Remembers
  <2>4. Complete(row)'
    BY <1>1, <1>3, <2>2 DEF ContextInv, JobExact, Complete
  <2>5. QED
    BY <1>1, <2>2, <2>3, <2>4, RowKeeps
<1>4. QED
  BY <1>2, <1>3 DEF Compacted

LEMMA CloseKeepsContext == ASSUME ContextInv, CloseSession PROVE ContextInv'
<1>1. /\ UNCHANGED <<now, channel, snap, queue, read, job>>
      /\ row' = [row EXCEPT !.active = FALSE]
      /\ Remembers(row) /\ row \in Row /\ Complete(row)
  BY DEF ContextInv, RowsRemember, Remembers, CloseSession
<1>2. /\ row' \in Row /\ row'.cleared = row.cleared /\ row'.covers = row.covers
      /\ row'.summary = row.summary /\ row'.gap = row.gap
  BY <1>1 DEF Row
<1>3. Remembers(row)' /\ Complete(row)'
  BY <1>1, <1>2 DEF Remembers, Complete
<1>4. QED
  BY <1>1, <1>2, <1>3, RowKeeps

LEMMA ContextStep == ASSUME ContextInv, [ContextNext]_contextVars PROVE ContextInv'
<1>1. CASE UNCHANGED contextVars
  BY <1>1, ChannelShrinks DEF contextVars
<1>2. CASE Receive
  BY <1>2, ReceiveKeeps
<1>3. CASE ReadHistory
  BY <1>3, ReadKeeps
<1>4. CASE ToolClear \/ ButtonClear
  BY <1>4, ClearKeeps DEF ToolClear, ButtonClear
<1>5. CASE ButtonPurge \/ DeleteMessage
  <2>1. channel' \in SUBSET channel
    BY <1>5 DEF ButtonPurge, DeleteMessage
  <2>2. QED
    BY <1>5, <2>1, ChannelShrinks DEF ButtonPurge, DeleteMessage
<1>6. CASE EndTurn
  BY <1>6, EndKeepsContext
<1>7. CASE DropTurn
  BY <1>7, DropKeeps
<1>8. CASE Compacted
  BY <1>8, CompactedKeeps
<1>9. CASE CompactionFails
  <2>1. UNCHANGED <<now, row, channel, snap, queue, read>> /\ job' = NoJob
    BY <1>9 DEF CompactionFails
  <2>2. Remembers(row)' /\ Complete(row)'
    BY <2>1 DEF ContextInv, RowsRemember, Remembers, Complete
  <2>3. QED
    BY <2>1, <2>2, RowKeeps
<1>10. CASE CloseSession
  BY <1>10, CloseKeepsContext
<1>11. QED
  BY <1>1, <1>2, <1>3, <1>4, <1>5, <1>6, <1>7, <1>8, <1>9, <1>10 DEF ContextNext

\* In every state of a session its row, the turns that read it and the compaction
\* in flight remember only what follows the last clear, and all of it up to their
\* watermarks but what a compaction of the chain passed over (watcher.ts, compact.ts).
THEOREM ContextInvariant == ContextSpec => []ContextInv
<1>1. ContextInit => ContextInv
  BY ContextStarts
<1>2. ContextInv /\ [ContextNext]_contextVars => ContextInv'
  BY ContextStep
<1>3. QED
  BY <1>1, <1>2, PTL DEF ContextSpec

\* A compaction brings back nothing that was forgotten, and the watermark passes no
\* message of the channel but those folded in and those that a compaction of the
\* chain passed over (compactSession, clearContext).
THEOREM SummaryIsExact == ContextSpec => []SummaryExact
<1>1. ContextInv => SummaryExact
  BY DEF ContextInv, RowsRemember, Remembers, Complete, SummaryExact
<1>2. QED
  BY <1>1, ContextInvariant, PTL

-----------------------------------------------------------------------------
(* Where its files are (WorkshopFiles).                                    *)

Workers == {"turn", "clear", "backfill"}
Rows == [file : Files, num : Number \ {0}, stored : BOOLEAN]
Flights == [file : Files, num : Number]

StoreTypes ==
  /\ clock \in Number /\ session \in {"active", "closed"}
  /\ local \in Versions /\ msg \in Versions /\ objects \in Versions
  /\ key \subseteq Files
  /\ carried \in [1..Horizon -> Versions]
ProcessTypes ==
  /\ pc \in [Process -> Place] /\ sent \in [Process -> Number]
  /\ pc["close"] \in {"idle", "wait", "erase"} /\ pc["sweep"] \in {"idle", "erase"}
  /\ list \in [Process -> SUBSET Rows] /\ puts \in [Process -> SUBSET Flights]
  /\ doomed \in [Process -> SUBSET Number] /\ files \in [Process -> SUBSET Files]
FileTypes == StoreTypes /\ ProcessTypes

\* The objects of a session are deleted when it is closed.
ErasedWhenClosed == \A p \in Process : pc[p] = "erase" => session = "closed"

\* What is uploaded is a file, and attachments come with a message.
FilesFly == \A p \in Process : \A u \in puts[p] : u.num # 0
TurnHasMessage == pc["turn"] \in {"rehydrate", "save"} => sent["turn"] # 0

\* The numbers of messages were given out, no two processes sent the same one, and
\* those that carry no row yet are in nobody's hands.
GivenOut ==
  /\ \A f \in Files : msg[f] <= clock
  /\ \A p \in Process : sent[p] <= clock /\ \A m \in doomed[p] : m <= clock
  /\ sent["turn"] # 0 => sent["turn"] # sent["clear"]
Unnamed(n) ==
  /\ n # 0 /\ n <= clock
  /\ \A f \in Files : msg[f] # n
  /\ \A p \in Process : n \notin doomed[p]
InFlight ==
  /\ \A p \in {"turn", "clear"} : pc[p] = "archived" => Unnamed(sent[p])
  /\ pc["turn"] = "posted" =>
       \A r \in list["turn"] : Unnamed(r.num) /\ r.num # sent["clear"]

\* The sweep waits for a clear beside a turn, so what they hold stays in place.
Beside == pc["turn"] # "idle" /\ pc["clear"] # "idle" => "clear" \in recent
Held(p, f) == f \in Cached /\ (p = "clear" => p \in recent)
ArchiveHolds == Active /\ pc["turn"] = "archived" => files["turn"] \subseteq Cached
UpWhileActive == channelUp => Active

\* A row that is to be restored is still the one that was read, or was dropped, or
\* was re-pointed by an archive of the panel's, or its file is in the workspace.
ReadTrue ==
  Active =>
    \A p \in Workers : pc[p] \in {"rehydrate", "restore"} =>
      \A r \in list[p] :
        msg[r.file] \in {r.num, 0, sent["clear"]} \/ Held(p, r.file)

\* A row names a message that an archive is about to delete only if saveUploads
\* recorded it late, and its file is in the workspace.
DoomedLate ==
  Active =>
    \A p \in {"turn", "clear"} : pc[p] = "doom" =>
      \A m \in doomed[p], f \in Files :
        m # 0 /\ msg[f] = m => <<f, m>> \in late /\ Held(p, f)

FilesInv ==
  /\ FileTypes /\ ErasedWhenClosed /\ FilesFly /\ TurnHasMessage /\ KeyedIsStored
  /\ GivenOut /\ InFlight /\ Beside /\ ArchiveHolds /\ UpWhileActive
  /\ ReadTrue /\ DoomedLate

LEMMA FilesStart == ASSUME FilesInit PROVE FilesInv
<1>1. FileTypes
  BY FilesAssumption DEF FilesInit, FileTypes, StoreTypes, ProcessTypes, NoFile, Process,
     Place, Number, Versions
<1>2. \A p \in Process : pc[p] = "idle" /\ puts[p] = {} /\ sent[p] = 0 /\ doomed[p] = {}
  BY DEF FilesInit
<1>3. ErasedWhenClosed /\ FilesFly /\ TurnHasMessage /\ KeyedIsStored
  BY <1>2 DEF ErasedWhenClosed, FilesFly, TurnHasMessage, KeyedIsStored, FilesInit, Process
<1>4. GivenOut
  BY <1>2 DEF GivenOut, FilesInit, NoFile, Process
<1>5. InFlight /\ Beside /\ ArchiveHolds /\ UpWhileActive /\ ReadTrue /\ DoomedLate
  BY <1>2 DEF InFlight, Beside, ArchiveHolds, UpWhileActive, ReadTrue, DoomedLate,
     FilesInit, Active, Workers, Process
<1>6. QED
  BY <1>1, <1>3, <1>4, <1>5 DEF FilesInv

LEMMA FlightsKeep == ASSUME FilesInv, FilesNext PROVE FilesFly'
<1> USE DEF FilesInv, FileTypes, StoreTypes, ProcessTypes
<1>1. \A p \in Workers : Upload(p) => FilesFly'
  BY DEF Upload, FilesFly
<1>2. TurnSave => FilesFly'
  BY DEF TurnSave, FilesFly, TurnHasMessage, At, Process
<1>3. TurnSent => FilesFly'
  BY DEF TurnSent, FilesFly, Process
<1>4. BackfillOne => FilesFly'
  BY DEF BackfillOne, FilesFly, Process, Cached
<1>5. ASSUME puts' = puts PROVE FilesFly'
  BY <1>5 DEF FilesFly
<1>6. QED
  BY <1>1, <1>2, <1>3, <1>4, <1>5 DEF FilesNext, RehydrateOne, RehydrateDone, TurnStart,
     TurnSaved, TurnWrite, TurnSend, TurnEnd, ClearStart, ArchiveSend, ArchiveRecord,
     ArchiveDelete, BackfillStart, BackfillDone, SweepIdle, SweepClosed, EraseObjects,
     CloseStart, CloseDelete, ChannelDelete, MemberDeletes, Workers

LEMMA EraseKeeps ==
  ASSUME FilesInv, FilesNext
  PROVE  ErasedWhenClosed' /\ (session' = session \/ session' = "closed")
  BY DEF FilesInv, FileTypes, StoreTypes, ProcessTypes, FilesNext, RehydrateOne,
     RehydrateDone, TurnStart, TurnSaved, TurnWrite, TurnSend, TurnEnd, ClearStart,
     ArchiveSend, ArchiveRecord, ArchiveDelete, BackfillStart, BackfillDone, SweepIdle,
     SweepClosed, EraseObjects, CloseStart, CloseDelete, ChannelDelete, MemberDeletes,
     TurnSent, BackfillOne, Upload, TurnSave, ErasedWhenClosed, world, Goto, Post, Process

LEMMA MessageKeeps == ASSUME FilesInv, FilesNext PROVE TurnHasMessage'
<1> USE DEF FilesInv, FileTypes, StoreTypes, ProcessTypes, TurnHasMessage, Process
<1>1. ASSUME TurnStart PROVE TurnHasMessage'
  <2>1. clock' # 0
    BY <1>1 DEF TurnStart, Post, Number
  <2>2. QED
    BY <1>1, <2>1 DEF TurnStart
<1>2. ASSUME NEW p \in {"turn", "clear"}, ArchiveSend(p) PROVE TurnHasMessage'
  BY <1>2 DEF ArchiveSend, Goto
<1>3. ASSUME sent' = sent, pc'["turn"] = "save" => pc["turn"] \in {"rehydrate", "save"},
             pc'["turn"] = "rehydrate" => pc["turn"] = "rehydrate"
      PROVE  TurnHasMessage'
  BY <1>3
<1>4. QED
  BY <1>1, <1>2, <1>3 DEF FilesNext, RehydrateOne, RehydrateDone, Upload, TurnSave,
     TurnSaved, TurnWrite, TurnSend, TurnSent, TurnEnd, ClearStart, ArchiveRecord,
     ArchiveDelete, BackfillStart, BackfillOne, BackfillDone, SweepIdle, SweepClosed,
     EraseObjects, CloseStart, CloseDelete, ChannelDelete, MemberDeletes, Goto

LEMMA KeyedKeeps == ASSUME FilesInv, FilesNext PROVE KeyedIsStored'
<1> USE DEF FilesInv, FileTypes, StoreTypes, ProcessTypes, KeyedIsStored, Active
<1>1. session' = "active" => session = "active"
  BY EraseKeeps
<1>2. ASSUME NEW p \in Workers, Upload(p) PROVE KeyedIsStored'
  BY <1>2 DEF Upload, FilesFly, Flights, Workers, Process, world, Versions
<1>3. ASSUME NEW p \in Process, EraseObjects(p) PROVE KeyedIsStored'
  BY <1>3 DEF EraseObjects, ErasedWhenClosed, world
<1>4. ASSUME objects' = objects, key' \subseteq key PROVE KeyedIsStored'
  BY <1>1, <1>4
<1>5. (\E p \in Workers : Upload(p)) \/ (\E p \in {"close", "sweep"} : EraseObjects(p))
       \/ (objects' = objects /\ key' \subseteq key)
  BY DEF FilesNext, RehydrateOne, RehydrateDone, Upload, TurnStart, TurnSave, TurnSaved,
     TurnWrite, TurnSend, TurnSent, TurnEnd, ClearStart, ArchiveSend, ArchiveRecord,
     ArchiveDelete, BackfillStart, BackfillOne, BackfillDone, SweepIdle, SweepClosed,
     EraseObjects, CloseStart, CloseDelete, ChannelDelete, MemberDeletes, Workers, manifest,
     Drop, Record, Forget
<1>6. QED
  BY <1>2, <1>3, <1>4, <1>5 DEF Process

LEMMA Numbers ==
  /\ 0 \in Number /\ 1..Horizon = Number \ {0} /\ NoFile \in Versions
  /\ \A n \in Number : n < Horizon => n + 1 \in Number \ {0}
  /\ \A v \in Versions : \A f \in Files : v[f] \in Number
  /\ \A v \in Versions : \A f \in Files : \A n \in Number : [v EXCEPT ![f] = n] \in Versions
BY FilesAssumption DEF Number, Versions, NoFile

LEMMA MissingTyped == ASSUME FileTypes PROVE Missing \in SUBSET Rows
<1>1. \A f \in Files : (f \in key) \in BOOLEAN
  OBVIOUS
<1>2. ASSUME NEW f \in Recorded \ Cached
      PROVE  [file |-> f, num |-> msg[f], stored |-> f \in key] \in Rows
  BY <1>1, <1>2 DEF FileTypes, StoreTypes, Rows, Recorded, Versions, Number
<1>3. QED
  BY <1>2 DEF Missing

LEMMA StoreOps ==
  ASSUME FileTypes
  PROVE  /\ \A S : Drop(S) => msg' \in Versions /\ key' \subseteq Files
         /\ \A S : \A n \in Number : Record(S, n) => msg' \in Versions /\ key' \subseteq Files
         /\ \A f \in Files : \A n \in Number : Write(f, n) => local' \in Versions
         /\ \A v \in Versions : Post(v) =>
              /\ clock' \in Number \ {0} /\ carried' \in [1..Horizon -> Versions]
              /\ session' = session
<1> USE DEF FileTypes, StoreTypes
<1>1. ASSUME NEW S, Drop(S) PROVE msg' \in Versions /\ key' \subseteq Files
  BY <1>1, FilesAssumption DEF Drop, Versions, Number
<1>2. ASSUME NEW S, NEW n \in Number, Record(S, n) PROVE msg' \in Versions /\ key' \subseteq Files
  BY <1>2 DEF Record, Versions
<1>3. ASSUME NEW f \in Files, NEW n \in Number, Write(f, n) PROVE local' \in Versions
  BY <1>3, Numbers DEF Write
<1>4. ASSUME NEW v \in Versions, Post(v)
      PROVE  /\ clock' \in Number \ {0} /\ carried' \in [1..Horizon -> Versions]
             /\ session' = session
  BY <1>4, Numbers DEF Post
<1>5. QED
  BY <1>1, <1>2, <1>3, <1>4

LEMMA StoresKeep == ASSUME FileTypes, FilesNext PROVE StoreTypes'
<1>0. StoreTypes /\ ProcessTypes
  BY DEF FileTypes
<1>1. ASSUME NEW p \in {"turn", "clear", "backfill"}, RehydrateOne(p) PROVE StoreTypes'
  <2>1. UNCHANGED <<world, objects>>
    BY <1>1 DEF RehydrateOne
  <2>2. PICK r \in list[p] :
          \/ /\ r.stored /\ objects[r.file] # 0
             /\ Write(r.file, objects[r.file])
             /\ UNCHANGED manifest
          \/ /\ ~r.stored \/ objects[r.file] = 0 \/ Lossy
             /\ channelUp
             /\ IF carried[r.num][r.file] # 0
                THEN Write(r.file, carried[r.num][r.file]) /\ UNCHANGED manifest
                ELSE Drop({r.file}) /\ UNCHANGED <<dir, local>>
          \/ /\ Lossy \/ ~channelUp
             /\ UNCHANGED <<dir, local, manifest>>
    BY <1>1 DEF RehydrateOne
  <2>3. r.file \in Files /\ r.num \in 1..Horizon
    BY <1>0, Numbers DEF ProcessTypes, Rows, Process
  <2>4. objects[r.file] \in Number /\ carried[r.num][r.file] \in Number
    BY <1>0, <2>3, Numbers DEF StoreTypes
  <2>5. /\ local' \in Versions /\ msg' \in Versions /\ key' \subseteq Files
    BY <1>0, <2>2, <2>3, <2>4, StoreOps DEF manifest, StoreTypes
  <2>6. QED
    BY <1>0, <2>1, <2>5 DEF StoreTypes, world
<1>2. ASSUME NEW p \in {"turn", "clear", "backfill"}, Upload(p) PROVE StoreTypes'
  <2>1. UNCHANGED <<world, local, msg>>
    BY <1>2 DEF Upload
  <2>2. objects' \in Versions /\ key' \subseteq Files
    BY <1>0, <1>2, Numbers DEF Upload, StoreTypes, ProcessTypes, Flights, Process
  <2>3. QED
    BY <1>0, <2>1, <2>2 DEF StoreTypes, world
<1>3. ASSUME TurnStart PROVE StoreTypes'
  <2>1. PICK A \in SUBSET Files : Post([f \in Files |-> IF f \in A THEN clock + 1 ELSE 0])
    BY <1>3 DEF TurnStart
  <2>2. clock + 1 \in Number
    BY <1>0, <2>1, Numbers DEF Post, StoreTypes
  <2>3. [f \in Files |-> IF f \in A THEN clock + 1 ELSE 0] \in Versions
    BY <2>2, Numbers DEF Versions
  <2>4. QED
    BY <1>0, <1>3, <2>1, <2>3, StoreOps DEF TurnStart, StoreTypes, manifest
<1>4. ASSUME TurnSave PROVE StoreTypes'
  <2>1. sent["turn"] \in Number
    BY <1>0 DEF ProcessTypes, Process
  <2>2. PICK f \in files["turn"] :
          \/ Write(f, sent["turn"]) /\ Record({f}, sent["turn"])
          \/ UNCHANGED <<dir, local, manifest>>
    BY <1>4 DEF TurnSave
  <2>3. f \in Files
    BY <1>0 DEF ProcessTypes, Process
  <2>4. local' \in Versions /\ msg' \in Versions /\ key' \subseteq Files
    BY <1>0, <2>1, <2>2, <2>3, StoreOps DEF StoreTypes, manifest
  <2>5. QED
    BY <1>0, <1>4, <2>4 DEF TurnSave, StoreTypes, world
<1>5. ASSUME TurnWrite PROVE StoreTypes'
  <2>1. clock' \in Number
    BY <1>0, <1>5, Numbers DEF TurnWrite, StoreTypes
  <2>2. local' \in Versions
    BY <1>5, <2>1, StoreOps DEF TurnWrite
  <2>3. QED
    BY <1>0, <1>5, <2>1, <2>2 DEF TurnWrite, StoreTypes, manifest
<1>6. ASSUME TurnSend PROVE StoreTypes'
  <2>1. PICK f \in Cached : Post([g \in Files |-> IF g = f THEN local[f] ELSE 0])
    BY <1>6 DEF TurnSend
  <2>2. [g \in Files |-> IF g = f THEN local[f] ELSE 0] \in Versions
    BY <1>0, Numbers DEF Versions, StoreTypes, Cached
  <2>3. QED
    BY <1>0, <1>6, <2>1, <2>2, StoreOps DEF TurnSend, StoreTypes, manifest
<1>7. ASSUME TurnSent PROVE StoreTypes'
  <2>1. PICK r \in list["turn"] :
          Record({r.file}, r.num) \/ UNCHANGED manifest
    BY <1>7 DEF TurnSent
  <2>2. r.num \in Number
    BY <1>0 DEF ProcessTypes, Process, Rows
  <2>3. msg' \in Versions /\ key' \subseteq Files
    BY <1>0, <2>1, <2>2, StoreOps DEF StoreTypes, manifest
  <2>4. QED
    BY <1>0, <1>7, <2>3 DEF TurnSent, StoreTypes, world
<1>8. ASSUME NEW p \in {"turn", "clear"}, ArchiveSend(p) PROVE StoreTypes'
  <2>1. msg' \in Versions /\ key' \subseteq Files /\ UNCHANGED <<local, objects>>
    BY <1>8, StoreOps DEF ArchiveSend
  <2>2. CASE UNCHANGED world
    BY <1>0, <2>1, <2>2 DEF StoreTypes, world
  <2>3. CASE ~UNCHANGED world
    <3>1. Post([f \in Files |-> IF f \in (Recorded \intersect Cached) \ Big THEN local[f] ELSE 0])
      BY <1>8, <2>3 DEF ArchiveSend
    <3>2. [f \in Files |-> IF f \in (Recorded \intersect Cached) \ Big THEN local[f] ELSE 0]
            \in Versions
      BY <1>0, Numbers DEF Versions, StoreTypes
    <3>3. QED
      BY <1>0, <2>1, <3>1, <3>2, StoreOps DEF StoreTypes
  <2>4. QED
    BY <2>2, <2>3
<1>9. ASSUME NEW p \in {"turn", "clear"}, ArchiveRecord(p) PROVE StoreTypes'
  <2>1. sent[p] \in Number
    BY <1>0 DEF ProcessTypes, Process
  <2>2. msg' \in Versions /\ key' \subseteq Files
    BY <1>9, <2>1, StoreOps DEF ArchiveRecord
  <2>3. QED
    BY <1>0, <1>9, <2>2 DEF ArchiveRecord, StoreTypes, world
<1>10. ASSUME NEW p \in {"turn", "clear"}, ArchiveDelete(p) PROVE StoreTypes'
  BY <1>0, <1>10, Numbers DEF ArchiveDelete, StoreTypes, manifest
<1>11. ASSUME SweepIdle PROVE StoreTypes'
  <2>1. local' \in Versions
    BY <1>0, <1>11, Numbers DEF SweepIdle, StoreTypes, Versions
  <2>2. QED
    BY <1>0, <1>11, <2>1 DEF SweepIdle, StoreTypes, manifest, world
<1>12. ASSUME Forget PROVE local' \in Versions /\ msg' \in Versions /\ key' \subseteq Files
  BY <1>12, StoreOps, Numbers DEF Forget
<1>13. ASSUME SweepClosed PROVE StoreTypes'
  BY <1>0, <1>12, <1>13 DEF SweepClosed, StoreTypes, world
<1>14. ASSUME CloseDelete PROVE StoreTypes'
  <2>1. local' \in Versions /\ msg' \in Versions /\ key' \subseteq Files
    BY <1>0, <1>12, <1>14 DEF CloseDelete, StoreTypes, manifest
  <2>2. session' \in {"active", "closed"}
    BY <1>0, <1>14 DEF CloseDelete, StoreTypes
  <2>3. QED
    BY <1>0, <1>14, <2>1, <2>2 DEF CloseDelete, StoreTypes
<1>15. ASSUME NEW p \in {"close", "sweep"}, EraseObjects(p) PROVE StoreTypes'
  BY <1>0, <1>15, Numbers DEF EraseObjects, StoreTypes, manifest, world
<1>16. ASSUME MemberDeletes PROVE StoreTypes'
  <2>1. clock \in Number /\ carried' \in [1..Horizon -> Versions]
    <3>1. PICK m \in 1..clock : carried' = [carried EXCEPT ![m] = NoFile]
      BY <1>16 DEF MemberDeletes
    <3>2. QED
      BY <1>0, <3>1, Numbers DEF StoreTypes
  <2>2. QED
    BY <1>0, <1>16, <2>1 DEF MemberDeletes, StoreTypes, manifest
<1>17. ASSUME \/ \E p \in {"turn", "clear", "backfill"} : RehydrateDone(p)
              \/ TurnSaved \/ TurnEnd \/ ClearStart \/ BackfillStart \/ BackfillOne
              \/ BackfillDone \/ CloseStart \/ ChannelDelete
       PROVE  StoreTypes'
  BY <1>0, <1>17 DEF RehydrateDone, TurnSaved, TurnEnd, ClearStart, BackfillStart,
     BackfillOne, BackfillDone, CloseStart, ChannelDelete, StoreTypes, manifest, world
<1>18. QED
  BY <1>1, <1>2, <1>3, <1>4, <1>5, <1>6, <1>7, <1>8, <1>9, <1>10, <1>11, <1>13, <1>14,
     <1>15,
     <1>16, <1>17 DEF FilesNext

LEMMA ProcessesKeep == ASSUME FileTypes, FilesNext PROVE ProcessTypes'
<1>0. StoreTypes /\ ProcessTypes /\ Missing \in SUBSET Rows
  BY MissingTyped DEF FileTypes
<1>1. ASSUME NEW p \in {"turn", "clear", "backfill"}, RehydrateOne(p) PROVE ProcessTypes'
  BY <1>0, <1>1, Numbers DEF StoreTypes, ProcessTypes, RehydrateOne, Write, Drop, world,
     manifest, Process, Place, Rows, Flights
<1>2. ASSUME NEW p \in {"turn", "clear", "backfill"}, RehydrateDone(p) PROVE ProcessTypes'
  BY <1>0, <1>2, Numbers DEF StoreTypes, ProcessTypes, RehydrateDone, Goto, world,
     manifest, Process, Place, Rows, Flights
<1>3. ASSUME NEW p \in {"turn", "clear", "backfill"}, Upload(p) PROVE ProcessTypes'
  BY <1>0, <1>3, Numbers DEF StoreTypes, ProcessTypes, Upload, world, manifest, Process,
     Place, Rows, Flights
<1>4. ASSUME TurnStart PROVE ProcessTypes'
  <2>1. /\ pc' \in [Process -> Place]
        /\ pc'["close"] \in {"idle", "wait", "erase"}
        /\ pc'["sweep"] \in {"idle", "erase"}
    BY <1>0, <1>4, Numbers DEF StoreTypes, ProcessTypes, TurnStart, Post, Goto, Begin,
       world, manifest, Process, Place, Rows, Flights
  <2>2. sent' \in [Process -> Number] /\ list' \in [Process -> SUBSET Rows]
    BY <1>0, <1>4, Numbers DEF StoreTypes, ProcessTypes, TurnStart, Post, Goto, Begin,
       world, manifest, Process, Place, Rows, Flights
  <2>3. puts' \in [Process -> SUBSET Flights]
    BY <1>0, <1>4, Numbers DEF StoreTypes, ProcessTypes, TurnStart, Post, Goto, Begin,
       world, manifest, Process, Place, Rows, Flights
  <2>4. doomed' \in [Process -> SUBSET Number] /\ files' \in [Process -> SUBSET Files]
    BY <1>0, <1>4, Numbers DEF StoreTypes, ProcessTypes, TurnStart, Post, Goto, Begin,
       world, manifest, Process, Place, Rows, Flights
  <2>5. QED
    BY <2>1, <2>2, <2>3, <2>4 DEF ProcessTypes
<1>5. ASSUME TurnSave PROVE ProcessTypes'
  <2>1. /\ pc' \in [Process -> Place]
        /\ pc'["close"] \in {"idle", "wait", "erase"}
        /\ pc'["sweep"] \in {"idle", "erase"}
    BY <1>0, <1>5, Numbers DEF StoreTypes, ProcessTypes, TurnSave, At, Write, Record,
       world, manifest, Process, Place, Rows, Flights
  <2>2. sent' \in [Process -> Number] /\ list' \in [Process -> SUBSET Rows]
    BY <1>0, <1>5, Numbers DEF StoreTypes, ProcessTypes, TurnSave, At, Write, Record,
       world, manifest, Process, Place, Rows, Flights
  <2>3. puts' \in [Process -> SUBSET Flights]
    BY <1>0, <1>5, Numbers DEF StoreTypes, ProcessTypes, TurnSave, At, Write, Record,
       world, manifest, Process, Place, Rows, Flights
  <2>4. doomed' \in [Process -> SUBSET Number] /\ files' \in [Process -> SUBSET Files]
    BY <1>0, <1>5, Numbers DEF StoreTypes, ProcessTypes, TurnSave, At, Write, Record,
       world, manifest, Process, Place, Rows, Flights
  <2>5. QED
    BY <2>1, <2>2, <2>3, <2>4 DEF ProcessTypes
<1>6. ASSUME TurnSaved PROVE ProcessTypes'
  BY <1>0, <1>6, Numbers DEF StoreTypes, ProcessTypes, TurnSaved, Goto, world, manifest,
     Process, Place, Rows, Flights
<1>7. ASSUME TurnWrite PROVE ProcessTypes'
  <2>1. /\ pc' \in [Process -> Place]
        /\ pc'["close"] \in {"idle", "wait", "erase"}
        /\ pc'["sweep"] \in {"idle", "erase"}
    BY <1>0, <1>7, Numbers DEF StoreTypes, ProcessTypes, TurnWrite, Write, world,
       manifest, Process, Place, Rows, Flights
  <2>2. sent' \in [Process -> Number] /\ list' \in [Process -> SUBSET Rows]
    BY <1>0, <1>7, Numbers DEF StoreTypes, ProcessTypes, TurnWrite, Write, world,
       manifest, Process, Place, Rows, Flights
  <2>3. puts' \in [Process -> SUBSET Flights]
    BY <1>0, <1>7, Numbers DEF StoreTypes, ProcessTypes, TurnWrite, Write, world,
       manifest, Process, Place, Rows, Flights
  <2>4. doomed' \in [Process -> SUBSET Number] /\ files' \in [Process -> SUBSET Files]
    BY <1>0, <1>7, Numbers DEF StoreTypes, ProcessTypes, TurnWrite, Write, world,
       manifest, Process, Place, Rows, Flights
  <2>5. QED
    BY <2>1, <2>2, <2>3, <2>4 DEF ProcessTypes
<1>8. ASSUME TurnSend PROVE ProcessTypes'
  <2>1. /\ pc' \in [Process -> Place]
        /\ pc'["close"] \in {"idle", "wait", "erase"}
        /\ pc'["sweep"] \in {"idle", "erase"}
    BY <1>0, <1>8, Numbers DEF StoreTypes, ProcessTypes, TurnSend, Post, Goto, Cached,
       world, manifest, Process, Place, Rows, Flights
  <2>2. sent' \in [Process -> Number] /\ list' \in [Process -> SUBSET Rows]
    BY <1>0, <1>8, Numbers DEF StoreTypes, ProcessTypes, TurnSend, Post, Goto, Cached,
       world, manifest, Process, Place, Rows, Flights
  <2>3. puts' \in [Process -> SUBSET Flights]
    BY <1>0, <1>8, Numbers DEF StoreTypes, ProcessTypes, TurnSend, Post, Goto, Cached,
       world, manifest, Process, Place, Rows, Flights
  <2>4. doomed' \in [Process -> SUBSET Number] /\ files' \in [Process -> SUBSET Files]
    BY <1>0, <1>8, Numbers DEF StoreTypes, ProcessTypes, TurnSend, Post, Goto, Cached,
       world, manifest, Process, Place, Rows, Flights
  <2>5. QED
    BY <2>1, <2>2, <2>3, <2>4 DEF ProcessTypes
<1>9. ASSUME TurnSent PROVE ProcessTypes'
  BY <1>0, <1>9, Numbers DEF StoreTypes, ProcessTypes, TurnSent, Goto, Record, world,
     manifest, Process, Place, Rows, Flights
<1>10. ASSUME TurnEnd PROVE ProcessTypes'
  <2>1. /\ pc' \in [Process -> Place]
        /\ pc'["close"] \in {"idle", "wait", "erase"}
        /\ pc'["sweep"] \in {"idle", "erase"}
    BY <1>0, <1>10, Numbers DEF StoreTypes, ProcessTypes, TurnEnd, Goto, world, manifest,
       Process, Place, Rows, Flights
  <2>2. sent' \in [Process -> Number] /\ list' \in [Process -> SUBSET Rows]
    BY <1>0, <1>10, Numbers DEF StoreTypes, ProcessTypes, TurnEnd, Goto, world, manifest,
       Process, Place, Rows, Flights
  <2>3. puts' \in [Process -> SUBSET Flights]
    BY <1>0, <1>10, Numbers DEF StoreTypes, ProcessTypes, TurnEnd, Goto, world, manifest,
       Process, Place, Rows, Flights
  <2>4. doomed' \in [Process -> SUBSET Number] /\ files' \in [Process -> SUBSET Files]
    BY <1>0, <1>10, Numbers DEF StoreTypes, ProcessTypes, TurnEnd, Goto, world, manifest,
       Process, Place, Rows, Flights
  <2>5. QED
    BY <2>1, <2>2, <2>3, <2>4 DEF ProcessTypes
<1>11. ASSUME ClearStart PROVE ProcessTypes'
  BY <1>0, <1>11, Numbers DEF StoreTypes, ProcessTypes, ClearStart, Goto, world, manifest,
     Process, Place, Rows, Flights
<1>12. ASSUME NEW p \in {"turn", "clear"}, ArchiveSend(p) PROVE ProcessTypes'
  <2>1. \/ pc' = [pc EXCEPT ![p] = "archived"] \/ pc' = [pc EXCEPT ![p] = "idle"]
    BY <1>12 DEF ArchiveSend, Goto
  <2>2. /\ pc' \in [Process -> Place]
        /\ pc'["close"] \in {"idle", "wait", "erase"}
        /\ pc'["sweep"] \in {"idle", "erase"}
    BY <1>0, <2>1 DEF ProcessTypes, Process, Place
  <2>3. list' = list /\ puts' = puts
    BY <1>12 DEF ArchiveSend
  <2>4. \/ UNCHANGED <<sent, doomed, files>>
        \/ /\ Post([f \in Files |-> IF f \in (Recorded \intersect Cached) \ Big
                                    THEN local[f] ELSE 0])
           /\ sent' = [sent EXCEPT ![p] = clock']
           /\ files' = [files EXCEPT ![p] = (Recorded \intersect Cached) \ Big]
           /\ doomed' = [doomed EXCEPT ![p] = {msg[f] : f \in Recorded \intersect Cached}]
    BY <1>12 DEF ArchiveSend
  <2>5. /\ (Recorded \intersect Cached) \ Big \in SUBSET Files
        /\ {msg[f] : f \in Recorded \intersect Cached} \in SUBSET Number
    BY <1>0, Numbers DEF Recorded, StoreTypes
  <2>6. UNCHANGED sent \/ clock' \in Number
    BY <1>0, <2>4, Numbers DEF Post, StoreTypes
  <2>7. sent' \in [Process -> Number]
    BY <1>0, <2>4, <2>6 DEF ProcessTypes
  <2>8. doomed' \in [Process -> SUBSET Number] /\ files' \in [Process -> SUBSET Files]
    BY <1>0, <2>4, <2>5 DEF ProcessTypes
  <2>9. QED
    BY <1>0, <2>2, <2>3, <2>7, <2>8 DEF ProcessTypes
<1>13. ASSUME NEW p \in {"turn", "clear"}, ArchiveRecord(p) PROVE ProcessTypes'
  BY <1>0, <1>13, Numbers DEF StoreTypes, ProcessTypes, ArchiveRecord, Record, Goto,
     world, manifest, Process, Place, Rows, Flights
<1>14. ASSUME NEW p \in {"turn", "clear"}, ArchiveDelete(p) PROVE ProcessTypes'
  BY <1>0, <1>14, Numbers DEF StoreTypes, ProcessTypes, ArchiveDelete, Goto, world,
     manifest, Process, Place, Rows, Flights
<1>15. ASSUME BackfillStart PROVE ProcessTypes'
  BY <1>0, <1>15, Numbers DEF StoreTypes, ProcessTypes, BackfillStart, Goto, Recorded,
     world, manifest, Process, Place, Rows, Flights
<1>16. ASSUME BackfillOne PROVE ProcessTypes'
  <2>1. /\ pc' \in [Process -> Place]
        /\ pc'["close"] \in {"idle", "wait", "erase"}
        /\ pc'["sweep"] \in {"idle", "erase"}
    BY <1>0, <1>16, Numbers DEF StoreTypes, ProcessTypes, BackfillOne, Cached, world,
       manifest, Process, Place, Rows, Flights
  <2>2. sent' \in [Process -> Number] /\ list' \in [Process -> SUBSET Rows]
    BY <1>0, <1>16, Numbers DEF StoreTypes, ProcessTypes, BackfillOne, Cached, world,
       manifest, Process, Place, Rows, Flights
  <2>3. puts' \in [Process -> SUBSET Flights]
    BY <1>0, <1>16, Numbers DEF StoreTypes, ProcessTypes, BackfillOne, Cached, world,
       manifest, Process, Place, Rows, Flights
  <2>4. doomed' \in [Process -> SUBSET Number] /\ files' \in [Process -> SUBSET Files]
    BY <1>0, <1>16, Numbers DEF StoreTypes, ProcessTypes, BackfillOne, Cached, world,
       manifest, Process, Place, Rows, Flights
  <2>5. QED
    BY <2>1, <2>2, <2>3, <2>4 DEF ProcessTypes
<1>17. ASSUME BackfillDone PROVE ProcessTypes'
  BY <1>0, <1>17, Numbers DEF StoreTypes, ProcessTypes, BackfillDone, Goto, world,
     manifest, Process, Place, Rows, Flights
<1>18. ASSUME SweepIdle PROVE ProcessTypes'
  BY <1>0, <1>18, Numbers DEF StoreTypes, ProcessTypes, SweepIdle, world, manifest,
     Process, Place, Rows, Flights
<1>19. ASSUME SweepClosed PROVE ProcessTypes'
  BY <1>0, <1>19, Numbers DEF StoreTypes, ProcessTypes, SweepClosed, Goto, Forget, Drop,
     world, manifest, Process, Place, Rows, Flights
<1>20. ASSUME NEW p \in {"close", "sweep"}, EraseObjects(p) PROVE ProcessTypes'
  BY <1>0, <1>20, Numbers DEF StoreTypes, ProcessTypes, EraseObjects, Goto, world,
     manifest, Process, Place, Rows, Flights
<1>21. ASSUME CloseStart PROVE ProcessTypes'
  BY <1>0, <1>21, Numbers DEF StoreTypes, ProcessTypes, CloseStart, Goto, world, manifest,
     Process, Place, Rows, Flights
<1>22. ASSUME CloseDelete PROVE ProcessTypes'
  <2>1. CASE session' = "closed" /\ Forget /\ pc' = [pc EXCEPT !["close"] = "erase"]
    BY <1>0, <1>22, <2>1, Numbers DEF StoreTypes, ProcessTypes, CloseDelete, Goto, Forget,
       Drop, NoFile, world, manifest, Process, Place, Rows, Flights
  <2>2. CASE UNCHANGED <<session, dir, local, manifest>> /\ pc' = [pc EXCEPT !["close"] = "idle"]
    BY <1>0, <1>22, <2>2, Numbers DEF StoreTypes, ProcessTypes, CloseDelete, Goto, Forget,
       Drop, NoFile, world, manifest, Process, Place, Rows, Flights
  <2>3. QED
    BY <1>22, <2>1, <2>2 DEF CloseDelete, Goto
<1>23. ASSUME ChannelDelete PROVE ProcessTypes'
  BY <1>0, <1>23, Numbers DEF StoreTypes, ProcessTypes, ChannelDelete, world, manifest,
     Process, Place, Rows, Flights
<1>24. ASSUME MemberDeletes PROVE ProcessTypes'
  BY <1>0, <1>24, Numbers DEF StoreTypes, ProcessTypes, MemberDeletes, world, manifest,
     Process, Place, Rows, Flights
<1>25. QED
  BY <1>1, <1>2, <1>3, <1>4, <1>5, <1>6, <1>7, <1>8, <1>9, <1>10, <1>11, <1>12, <1>13,
     <1>14, <1>15, <1>16, <1>17, <1>18, <1>19, <1>20, <1>21, <1>22, <1>23, <1>24 DEF
     FilesNext

\* While one process reads or deletes, no other records.
-----------------------------------------------------------------------------
(* What a step does to the rows and to the numbers of messages.            *)

LEMMA RowSteps ==
  ASSUME FilesInv, FilesNext, NEW f \in Files
  PROVE  \/ msg'[f] = msg[f] \/ msg'[f] = 0
         \/ /\ TurnSave /\ msg'[f] = sent["turn"] /\ sent["turn"] # 0
            /\ f \in Cached'
         \/ /\ TurnSent /\ f \in Cached
            /\ \E r \in list["turn"] : msg'[f] = r.num
         \/ \E p \in {"turn", "clear"} :
              ArchiveRecord(p) /\ f \in files[p] /\ msg'[f] = sent[p]
<1> USE DEF FilesInv, FileTypes, StoreTypes, ProcessTypes
<1>1. ASSUME NEW p \in {"turn", "clear", "backfill"},
             RehydrateOne(p) \/ RehydrateDone(p) \/ Upload(p)
      PROVE  msg'[f] = msg[f] \/ msg'[f] = 0
  BY <1>1 DEF RehydrateOne, RehydrateDone, Upload, Drop, manifest
<1>2. ASSUME TurnSave, msg'[f] # msg[f]
      PROVE  msg'[f] = sent["turn"] /\ sent["turn"] # 0 /\ f \in Cached'
  <2>1. sent["turn"] # 0
    BY <1>2 DEF TurnSave, At, TurnHasMessage
  <2>2. PICK g \in files["turn"] : Write(g, sent["turn"]) /\ Record({g}, sent["turn"])
    BY <1>2 DEF TurnSave, manifest
  <2>3. f = g
    BY <1>2, <2>2 DEF Record
  <2>4. msg'[f] = sent["turn"] /\ local'[f] = sent["turn"]
    BY <2>2, <2>3 DEF Record, Write, Versions
  <2>5. QED
    BY <2>1, <2>4 DEF Cached
<1>3. ASSUME TurnSent, msg'[f] # msg[f]
      PROVE  f \in Cached /\ \E r \in list["turn"] : msg'[f] = r.num
  <2>1. PICK r \in list["turn"] : local[r.file] # 0 /\ Record({r.file}, r.num)
    BY <1>3 DEF TurnSent, manifest
  <2>2. f = r.file /\ msg'[f] = r.num
    BY <1>3, <2>1 DEF Record
  <2>3. QED
    BY <2>1, <2>2 DEF Cached
<1>4. ASSUME NEW p \in {"turn", "clear"}, ArchiveRecord(p), msg'[f] # msg[f]
      PROVE  f \in files[p] /\ msg'[f] = sent[p]
  BY <1>4 DEF ArchiveRecord, Record
<1>5. ASSUME NEW p \in {"turn", "clear"}, ArchiveSend(p) \/ ArchiveDelete(p)
      PROVE  msg'[f] = msg[f] \/ msg'[f] = 0
  BY <1>5 DEF ArchiveSend, ArchiveDelete, Drop, manifest
<1>6. ASSUME SweepClosed \/ CloseDelete PROVE msg'[f] = msg[f] \/ msg'[f] = 0
  BY <1>6 DEF SweepClosed, CloseDelete, Forget, Drop, manifest
<1>7. ASSUME \/ TurnStart \/ TurnSaved \/ TurnWrite \/ TurnSend \/ TurnEnd \/ ClearStart
             \/ BackfillStart \/ BackfillOne \/ BackfillDone \/ SweepIdle
             \/ (\E p \in {"close", "sweep"} : EraseObjects(p))
             \/ CloseStart \/ ChannelDelete \/ MemberDeletes
      PROVE  msg'[f] = msg[f]
  BY <1>7 DEF TurnStart, TurnSaved, TurnWrite, TurnSend, TurnEnd, ClearStart,
     BackfillStart, BackfillOne, BackfillDone, SweepIdle, EraseObjects, CloseStart,
     ChannelDelete, MemberDeletes, manifest
<1>8. QED
  BY <1>1, <1>2, <1>3, <1>4, <1>5, <1>6, <1>7 DEF FilesNext

LEMMA NumberSteps ==
  ASSUME FilesInv, FilesNext
  PROVE  \/ /\ clock' = clock \/ (clock' = clock + 1 /\ doomed' = doomed)
            /\ sent' = sent /\ \A p \in Process : doomed'[p] \subseteq doomed[p]
         \/ /\ TurnStart /\ clock' = clock + 1 /\ doomed' = doomed
            /\ sent' = [sent EXCEPT !["turn"] = clock + 1]
         \/ \E p \in {"turn", "clear"} :
              /\ ArchiveSend(p) /\ clock' = clock + 1
              /\ sent' = [sent EXCEPT ![p] = clock + 1]
              /\ doomed' = [doomed EXCEPT ![p] = {msg[f] : f \in Recorded \cap Cached}]
<1> USE DEF FilesInv, FileTypes, StoreTypes, ProcessTypes
<1>1. ASSUME NEW p \in {"turn", "clear"}, ArchiveSend(p)
      PROVE  \/ clock' = clock /\ sent' = sent /\ doomed' = doomed
             \/ /\ clock' = clock + 1 /\ sent' = [sent EXCEPT ![p] = clock + 1]
                /\ doomed' = [doomed EXCEPT ![p] = {msg[f] : f \in Recorded \cap Cached}]
  BY <1>1 DEF ArchiveSend, Post, world
<1>2. ASSUME NEW p \in {"turn", "clear"}, ArchiveRecord(p) \/ ArchiveDelete(p)
      PROVE  clock' = clock /\ sent' = sent /\ \A q \in Process : doomed'[q] \subseteq doomed[q]
  BY <1>2 DEF ArchiveRecord, ArchiveDelete, world, Process
<1>3. TurnStart => /\ clock' = clock + 1 /\ doomed' = doomed
                   /\ sent' = [sent EXCEPT !["turn"] = clock + 1]
  BY DEF TurnStart, Post
<1>4. TurnWrite \/ TurnSend => clock' = clock + 1 /\ sent' = sent /\ doomed' = doomed
  BY DEF TurnWrite, TurnSend, Post
<1>5. ASSUME \/ \E p \in {"turn", "clear", "backfill"} :
                  RehydrateOne(p) \/ RehydrateDone(p) \/ Upload(p)
             \/ TurnSave \/ TurnSaved \/ TurnSent \/ TurnEnd \/ ClearStart
             \/ BackfillStart \/ BackfillOne \/ BackfillDone \/ SweepIdle \/ SweepClosed
             \/ (\E p \in {"close", "sweep"} : EraseObjects(p))
             \/ CloseStart \/ CloseDelete \/ ChannelDelete \/ MemberDeletes
      PROVE  clock' = clock /\ sent' = sent /\ doomed' = doomed
  BY <1>5 DEF RehydrateOne, RehydrateDone, Upload, TurnSave, TurnSaved, TurnSent, TurnEnd,
     ClearStart, BackfillStart, BackfillOne, BackfillDone, SweepIdle, SweepClosed,
     EraseObjects, CloseStart, CloseDelete, ChannelDelete, MemberDeletes, world
<1>6. QED
  BY <1>1, <1>2, <1>3, <1>4, <1>5 DEF FilesNext

LEMMA GivenKeeps ==
  ASSUME FilesInv, FilesNext
  PROVE  GivenOut' /\ clock \in Nat /\ clock' \in Nat /\ clock <= clock'
<1> USE DEF FilesInv, FileTypes, StoreTypes, ProcessTypes
<1>1. /\ clock \in Nat
      /\ \A f \in Files : msg[f] \in Nat /\ msg[f] <= clock
      /\ \A p \in Process : /\ sent[p] \in Nat /\ sent[p] <= clock
                            /\ \A m \in doomed[p] : m \in Nat /\ m <= clock
  BY FilesAssumption DEF Number, Versions, GivenOut
<1>2. clock' \in Nat /\ clock <= clock'
  BY <1>1, NumberSteps
<1>3. ASSUME NEW f \in Files PROVE msg'[f] <= clock'
  <2>1. ASSUME TurnSent, NEW r \in list["turn"] PROVE r.num \in Nat /\ r.num <= clock
    <3>1. r.num \in Nat
      BY <2>1, FilesAssumption DEF Rows, Number, Process
    <3>2. QED
      BY <2>1, <3>1 DEF TurnSent, InFlight, Unnamed
  <2>2. \E n \in Nat : n <= clock /\ msg'[f] = n
    BY <1>1, <2>1, RowSteps DEF Process
  <2>3. QED
    BY <1>1, <1>2, <2>2
<1>4. ASSUME NEW p \in Process
      PROVE  sent'[p] <= clock' /\ \A m \in doomed'[p] : m <= clock'
  <2>1. CASE sent' = sent /\ \A q \in Process : doomed'[q] \subseteq doomed[q]
    BY <1>1, <1>2, <2>1
  <2>2. CASE TurnStart /\ clock' = clock + 1 /\ doomed' = doomed
             /\ sent' = [sent EXCEPT !["turn"] = clock + 1]
    BY <1>1, <1>2, <2>2
  <2>3. ASSUME NEW q \in {"turn", "clear"}, clock' = clock + 1,
               sent' = [sent EXCEPT ![q] = clock + 1],
               doomed' = [doomed EXCEPT ![q] = {msg[f] : f \in Recorded \cap Cached}]
        PROVE  sent'[p] <= clock' /\ \A m \in doomed'[p] : m <= clock'
    <3>1. sent'[p] = sent[p] \/ sent'[p] = clock + 1
      BY <2>3
    <3>2. \A m \in doomed'[p] : m \in doomed[p] \/ \E f \in Files : m = msg[f]
      BY <2>3 DEF Recorded
    <3>3. QED
      BY <1>1, <2>3, <3>1, <3>2
  <2>4. QED
    BY <2>1, <2>2, <2>3, NumberSteps
<1>5. sent'["turn"] # 0 => sent'["turn"] # sent'["clear"]
  <2>1. sent["turn"] \in Nat /\ sent["clear"] \in Nat /\ sent["turn"] <= clock
        /\ sent["clear"] <= clock
    BY <1>1 DEF Process
  <2>2. \/ sent' = sent
        \/ sent'["turn"] = clock + 1 /\ sent'["clear"] = sent["clear"]
        \/ sent'["clear"] = clock + 1 /\ sent'["turn"] = sent["turn"]
    BY NumberSteps DEF Process
  <2>3. QED
    BY <1>1, <2>1, <2>2 DEF GivenOut
<1>6. QED
  BY <1>1, <1>2, <1>3, <1>4, <1>5 DEF GivenOut

\* A number that no row names and nobody deletes stays so until its sender records it.
LEMMA UnnamedStays ==
  ASSUME FilesInv, FilesNext, NEW n \in Nat, Unnamed(n),
         TurnSave => sent["turn"] # n,
         TurnSent => \A r \in list["turn"] : r.num # n,
         \A p \in {"turn", "clear"} : ArchiveRecord(p) => sent[p] # n
  PROVE  Unnamed(n)'
<1>1. clock \in Nat /\ clock' \in Nat /\ clock <= clock'
  BY GivenKeeps
<1>2. \A f \in Files : msg'[f] # n
  BY RowSteps DEF Unnamed
<1>3. \A p \in Process : n \notin doomed'[p]
  <2>1. ASSUME NEW p \in Process, NEW m \in doomed'[p]
        PROVE  m \in doomed[p] \/ \E f \in Files : m = msg[f]
    BY <2>1, NumberSteps DEF Recorded, FilesInv, FileTypes, ProcessTypes
  <2>2. QED
    BY <2>1 DEF Unnamed
<1>4. n <= clock'
  BY <1>1 DEF Unnamed
<1>5. QED
  BY <1>2, <1>3, <1>4 DEF Unnamed

LEMMA FreshIsUnnamed ==
  ASSUME FilesInv, FilesNext, NEW n \in Nat, n = clock + 1, clock' = n,
         \A f \in Files : msg'[f] = msg[f] \/ msg'[f] = 0
  PROVE  Unnamed(n)'
<1> USE DEF FilesInv, FileTypes, StoreTypes, ProcessTypes
<1>1. /\ clock \in Nat
      /\ \A f \in Files : msg[f] \in Nat /\ msg[f] <= clock
      /\ \A p \in Process : \A m \in doomed[p] : m \in Nat /\ m <= clock
  BY FilesAssumption DEF Number, Versions, GivenOut
<1>2. \A f \in Files : msg'[f] # clock + 1
  BY <1>1
<1>3. ASSUME NEW p \in Process, NEW m \in doomed'[p] PROVE m # clock + 1
  <2>1. m \in doomed[p] \/ \E f \in Files : m = msg[f]
    BY <1>3, NumberSteps DEF Recorded
  <2>2. QED
    BY <1>1, <2>1
<1>4. QED
  BY <1>1, <1>2, <1>3 DEF Unnamed

LEMMA FlyingKeeps == ASSUME FilesInv, FilesNext PROVE InFlight'
<1> USE DEF FilesInv, FileTypes, StoreTypes, ProcessTypes
<1>1. /\ clock \in Nat /\ \A p \in Process : sent[p] \in Nat /\ sent[p] <= clock
      /\ \A p \in Process : \A r \in list[p] : r.num \in Nat
  BY FilesAssumption DEF Number, GivenOut, Rows
<1>2. ASSUME NEW p \in {"turn", "clear"}, pc'[p] = "archived" PROVE Unnamed(sent[p])'
  <2>1. CASE pc[p] = "archived"
    <3>1. ~ArchiveSend(p) /\ ~ArchiveRecord(p) /\ (p = "turn" => ~TurnStart /\ ~TurnSave /\ ~TurnSent)
      BY <1>2, <2>1 DEF ArchiveSend, ArchiveRecord, TurnStart, Begin, TurnSave, TurnSent, At,
         Goto, Process
    <3>2. sent'[p] = sent[p]
      BY <3>1, NumberSteps DEF Process
    <3>3. Unnamed(sent[p])
      BY <2>1 DEF InFlight
    <3>4. TurnSave => sent["turn"] # sent[p]
      <4>1. TurnSave => p = "clear" /\ sent["turn"] # 0
        BY <3>1 DEF TurnSave, At, TurnHasMessage
      <4>2. QED
        BY <4>1 DEF GivenOut
    <3>5. TurnSent => \A r \in list["turn"] : r.num # sent[p]
      BY <3>1 DEF TurnSent, InFlight
    <3>6. \A q \in {"turn", "clear"} : ArchiveRecord(q) => sent[q] # sent[p]
      <4>1. ASSUME NEW q \in {"turn", "clear"}, ArchiveRecord(q) PROVE sent[q] # sent[p]
        <5>1. q # p /\ Unnamed(sent[q])
          BY <3>1, <4>1 DEF ArchiveRecord, InFlight
        <5>2. sent["turn"] # 0 /\ sent["clear"] # 0
          BY <3>3, <5>1 DEF Unnamed
        <5>3. QED
          BY <5>1, <5>2 DEF GivenOut
      <4>2. QED
        BY <4>1
    <3>7. Unnamed(sent[p])'
      <4>1. PICK n \in Nat : n = sent[p]
        BY <1>1 DEF Process
      <4>2. Unnamed(n)'
        BY <3>3, <3>4, <3>5, <3>6, <4>1, UnnamedStays
      <4>3. QED
        BY <3>2, <4>1, <4>2 DEF Unnamed
    <3>8. QED
      BY <3>7
  <2>2. CASE pc[p] # "archived"
    <3>1. ArchiveSend(p)
      BY <1>2, <2>2 DEF FilesNext, RehydrateOne, RehydrateDone, Upload, TurnStart, TurnSave,
         TurnSaved, TurnWrite, TurnSend, TurnSent, TurnEnd, ClearStart, ArchiveSend,
         ArchiveRecord, ArchiveDelete, BackfillStart, BackfillOne, BackfillDone, SweepIdle,
         SweepClosed, EraseObjects, CloseStart, CloseDelete, ChannelDelete, MemberDeletes,
         Goto, Process
    <3>2. /\ clock' = clock + 1 /\ sent' = [sent EXCEPT ![p] = clock + 1]
          /\ Drop(Recorded \ Cached)
      BY <1>2, <3>1 DEF ArchiveSend, Post, Goto, Process
    <3>3. PICK n \in Nat : n = clock + 1
      BY <1>1
    <3>4. Unnamed(n)' /\ sent'[p] = n
      BY <3>2, <3>3, FreshIsUnnamed DEF Drop, Process
    <3>5. QED
      BY <3>3, <3>4 DEF Unnamed
  <2>3. QED
    BY <2>1, <2>2
<1>3. ASSUME pc'["turn"] = "posted", NEW r \in list'["turn"]
      PROVE  Unnamed(r.num)' /\ r.num # sent'["clear"]
  <2>1. CASE pc["turn"] = "posted"
    <3>1. /\ ~TurnSent /\ ~TurnSave /\ ~ArchiveRecord("turn") /\ ~TurnStart /\ ~ArchiveSend("turn")
          /\ r \in list["turn"]
      BY <1>3, <2>1 DEF FilesNext, RehydrateOne, RehydrateDone, Upload, TurnStart, TurnSave,
         TurnSaved, TurnWrite, TurnSend, TurnSent, TurnEnd, ClearStart, ArchiveSend,
         ArchiveRecord, ArchiveDelete, BackfillStart, BackfillOne, BackfillDone, SweepIdle,
         SweepClosed, EraseObjects, CloseStart, CloseDelete, ChannelDelete, MemberDeletes,
         Goto, At, Begin, Process
    <3>2. Unnamed(r.num) /\ r.num # sent["clear"] /\ r.num \in Nat
      BY <1>1, <2>1, <3>1 DEF InFlight, Process
    <3>3. Unnamed(r.num)'
      <4>1. PICK n \in Nat : n = r.num
        BY <3>2
      <4>2. Unnamed(n)'
        BY <3>1, <3>2, <4>1, UnnamedStays
      <4>3. QED
        BY <4>1, <4>2 DEF Unnamed
    <3>4. sent'["clear"] = sent["clear"] \/ sent'["clear"] = clock + 1
      BY NumberSteps DEF Process
    <3>5. QED
      BY <1>1, <3>2, <3>3, <3>4 DEF Unnamed
  <2>2. CASE pc["turn"] # "posted"
    <3>1. TurnSend
      BY <1>3, <2>2 DEF FilesNext, RehydrateOne, RehydrateDone, Upload, TurnStart, TurnSave,
         TurnSaved, TurnWrite, TurnSend, TurnSent, TurnEnd, ClearStart, ArchiveSend,
         ArchiveRecord, ArchiveDelete, BackfillStart, BackfillOne, BackfillDone, SweepIdle,
         SweepClosed, EraseObjects, CloseStart, CloseDelete, ChannelDelete, MemberDeletes,
         Goto, Process
    <3>2. clock' = clock + 1 /\ msg' = msg /\ sent' = sent /\ r.num = clock'
      BY <1>3, <3>1 DEF TurnSend, Post, manifest, Process
    <3>3. PICK n \in Nat : n = clock + 1
      BY <1>1
    <3>4. Unnamed(n)' /\ r.num = n /\ r.num # sent'["clear"]
      BY <1>1, <3>2, <3>3, FreshIsUnnamed DEF Process
    <3>5. QED
      BY <3>4 DEF Unnamed
  <2>3. QED
    BY <2>1, <2>2
<1>4. QED
  BY <1>2, <1>3 DEF InFlight

LEMMA BesideKeeps ==
  ASSUME FilesInv, FilesNext
  PROVE  /\ Beside' /\ UpWhileActive'
         /\ \A q \in Process : q \in recent /\ pc[q] # "idle" => q \in recent'
<1> USE DEF FilesInv, FileTypes, StoreTypes, ProcessTypes
<1>1. UpWhileActive'
  BY DEF UpWhileActive, Active, FilesNext, RehydrateOne, RehydrateDone, Upload, TurnStart,
     TurnSave, TurnSaved, TurnWrite, TurnSend, TurnSent, TurnEnd, ClearStart, ArchiveSend,
     ArchiveRecord, ArchiveDelete, BackfillStart, BackfillOne, BackfillDone, SweepIdle,
     SweepClosed, EraseObjects, CloseStart, CloseDelete, ChannelDelete, MemberDeletes, Post,
     world
<1>2. \/ recent' = recent /\ (\A q \in {"turn", "clear"} : pc[q] = "idle" => pc'[q] = "idle")
      \/ TurnStart /\ recent' = {q \in Process : pc[q] # "idle"}
      \/ \E p \in {"clear", "backfill", "sweep", "close"} :
           /\ pc[p] = "idle"
           /\ recent' = IF pc["turn"] = "idle" THEN recent \ {p} ELSE recent \union {p}
           /\ (\A q \in {"turn", "clear"} : q # p /\ pc[q] = "idle" => pc'[q] = "idle")
  BY DEF FilesNext, RehydrateOne, RehydrateDone, Upload, TurnStart,
     TurnSave, TurnSaved, TurnWrite, TurnSend, TurnSent, TurnEnd, ClearStart, ArchiveSend,
     ArchiveRecord, ArchiveDelete, BackfillStart, BackfillOne, BackfillDone, SweepIdle,
     SweepClosed, EraseObjects, CloseStart, CloseDelete, ChannelDelete, MemberDeletes, Begin,
     Goto, At, runs, Process
<1>3. TurnStart => pc["turn"] = "idle" /\ pc'["clear"] = pc["clear"]
  BY DEF TurnStart, Begin, Goto, Process
<1>4. Beside'
  BY <1>2, <1>3 DEF Beside, Process
<1>5. \A q \in Process : q \in recent /\ pc[q] # "idle" => q \in recent'
  BY <1>2 DEF Process
<1>6. QED
  BY <1>1, <1>4, <1>5

\* In a session that stays active, what a process holds is not taken from it.
LEMMA HeldStays ==
  ASSUME FilesInv, FilesNext, Active', NEW p \in Workers, pc[p] # "idle",
         NEW f \in Files, Held(p, f)
  PROVE  Held(p, f)'
<1> USE DEF FilesInv, FileTypes, StoreTypes, ProcessTypes
<1>1. f \in Cached' \/ local'[f] = local[f]
  <2>1. ASSUME NEW q \in {"turn", "clear", "backfill"}, RehydrateOne(q)
        PROVE  f \in Cached' \/ local'[f] = local[f]
    <3>1. PICK r \in list[q] :
            \/ objects[r.file] # 0 /\ Write(r.file, objects[r.file])
            \/ carried[r.num][r.file] # 0 /\ Write(r.file, carried[r.num][r.file])
            \/ UNCHANGED local
      BY <2>1 DEF RehydrateOne
    <3>2. QED
      BY <3>1 DEF Write, Cached, Versions
  <2>2. ASSUME TurnSave PROVE f \in Cached' \/ local'[f] = local[f]
    <3>1. sent["turn"] # 0
      BY <2>2 DEF TurnSave, At, TurnHasMessage
    <3>2. PICK g \in files["turn"] : Write(g, sent["turn"]) \/ UNCHANGED local
      BY <2>2 DEF TurnSave
    <3>3. QED
      BY <3>1, <3>2 DEF Write, Cached, Versions
  <2>3. ASSUME TurnWrite PROVE f \in Cached' \/ local'[f] = local[f]
    <3>1. clock' # 0
      BY <2>3, FilesAssumption DEF TurnWrite, Number
    <3>2. PICK g \in Files : Write(g, clock')
      BY <2>3 DEF TurnWrite
    <3>3. QED
      BY <3>1, <3>2 DEF Write, Cached, Versions
  <2>4. ~SweepIdle
    <3>1. ASSUME SweepIdle PROVE FALSE
      <4>1. pc["turn"] = "idle" /\ \A q \in recent \union {"backfill"} : pc[q] = "idle"
        BY <3>1 DEF SweepIdle, At
      <4>2. QED
        BY <4>1 DEF Workers, Held
    <3>2. QED
      BY <3>1
  <2>5. ~SweepClosed /\ (CloseDelete => local' = local)
    BY DEF SweepClosed, CloseDelete, Active, world
  <2>6. ASSUME \/ \E q \in {"turn", "clear", "backfill"} : RehydrateDone(q) \/ Upload(q)
               \/ TurnStart \/ TurnSaved \/ TurnSend \/ TurnSent \/ TurnEnd \/ ClearStart
               \/ (\E q \in {"turn", "clear"} :
                     ArchiveSend(q) \/ ArchiveRecord(q) \/ ArchiveDelete(q))
               \/ BackfillStart \/ BackfillOne \/ BackfillDone
               \/ (\E q \in {"close", "sweep"} : EraseObjects(q))
               \/ CloseStart \/ ChannelDelete \/ MemberDeletes
        PROVE  local' = local
    BY <2>6 DEF RehydrateDone, Upload, TurnStart, TurnSaved, TurnSend, TurnSent, TurnEnd,
       ClearStart, ArchiveSend, ArchiveRecord, ArchiveDelete, BackfillStart, BackfillOne,
       BackfillDone, EraseObjects, CloseStart, ChannelDelete, MemberDeletes
  <2>7. QED
    BY <2>1, <2>2, <2>3, <2>4, <2>5, <2>6 DEF FilesNext
<1>2. f \in Cached'
  BY <1>1 DEF Held, Cached
<1>3. p = "clear" => p \in recent'
  BY BesideKeeps DEF Held, Process
<1>4. QED
  BY <1>2, <1>3 DEF Held

\* What a turn records is in the workspace, and so it stays for a process beside it.
LEMMA TurnHolds ==
  ASSUME FilesInv, FilesNext, pc["turn"] # "idle", pc'["turn"] # "idle", NEW f \in Files,
         f \in Cached', NEW p \in Workers, pc'[p] # "idle"
  PROVE  Held(p, f)'
BY BesideKeeps DEF Beside, Held

LEMMA ArchiveHoldsKeeps == ASSUME FilesInv, FilesNext PROVE ArchiveHolds'
<1> USE DEF FilesInv, FileTypes, StoreTypes, ProcessTypes
<1>1. SUFFICES ASSUME Active', pc'["turn"] = "archived", NEW f \in files'["turn"]
               PROVE  f \in Cached'
  BY DEF ArchiveHolds
<1>2. CASE ArchiveSend("turn")
  <2>1. files' = [files EXCEPT !["turn"] = (Recorded \intersect Cached) \ Big] /\ local' = local
    BY <1>1, <1>2 DEF ArchiveSend, Goto, Process
  <2>2. QED
    BY <1>1, <2>1 DEF Cached, Process
<1>3. CASE ~ArchiveSend("turn")
  <2>1. pc["turn"] = "archived" /\ files'["turn"] = files["turn"]
    BY <1>1, <1>3 DEF FilesNext, RehydrateOne, RehydrateDone, Upload, TurnStart, TurnSave,
       TurnSaved, TurnWrite, TurnSend, TurnSent, TurnEnd, ClearStart, ArchiveSend,
       ArchiveRecord, ArchiveDelete, BackfillStart, BackfillOne, BackfillDone, SweepIdle,
       SweepClosed, EraseObjects, CloseStart, CloseDelete, ChannelDelete, MemberDeletes,
       Goto, At, Process
  <2>2. Active
    BY <1>1, EraseKeeps DEF Active
  <2>3. f \in Cached /\ f \in Files
    BY <1>1, <2>1, <2>2 DEF ArchiveHolds, Process
  <2>4. Held("turn", f)
    BY <2>3 DEF Held
  <2>5. Held("turn", f)'
    BY <1>1, <2>1, <2>3, <2>4, HeldStays DEF Workers
  <2>6. QED
    BY <2>5 DEF Held
<1>4. QED
  BY <1>2, <1>3

LEMMA ReadsKeep == ASSUME FilesInv, FilesNext PROVE ReadTrue'
<1> USE DEF FilesInv, FileTypes, StoreTypes, ProcessTypes
<1>1. SUFFICES ASSUME Active', NEW q \in Workers, pc'[q] \in {"rehydrate", "restore"},
                      NEW r \in list'[q], msg'[r.file] \notin {r.num, 0, sent'["clear"]}
               PROVE  Held(q, r.file)'
  BY DEF ReadTrue
<1>2. Active
  BY <1>1, EraseKeeps DEF Active
<1>3. pc[q] \in {"rehydrate", "restore"} /\ r \in list[q]
  <2>1. ASSUME TurnStart \/ TurnEnd \/ ClearStart \/ BackfillStart
        PROVE  msg' = msg /\ (r \in Missing \/ (pc'[q] = pc[q] /\ r \in list[q]))
    <3>1. CASE TurnStart
      BY <1>1, <3>1 DEF TurnStart, manifest, Goto, Workers, Process
    <3>2. CASE TurnEnd
      BY <1>1, <3>2 DEF TurnEnd, manifest, Goto, Workers, Process
    <3>3. CASE ClearStart \/ BackfillStart
      BY <1>1, <3>3 DEF ClearStart, BackfillStart, manifest, Goto, Workers, Process
    <3>4. QED
      BY <2>1, <3>1, <3>2, <3>3
  <2>2. r \in Missing => msg[r.file] = r.num
    BY DEF Missing
  <2>3. ASSUME ~(TurnStart \/ TurnEnd \/ ClearStart \/ BackfillStart)
        PROVE  pc[q] \in {"rehydrate", "restore"} /\ r \in list[q]
    <3>1. CASE \E p \in {"turn", "clear", "backfill"} : RehydrateOne(p)
      BY <1>1, <3>1 DEF RehydrateOne, Workers, Process
    <3>2. CASE TurnSend \/ TurnSent
      BY <1>1, <3>2 DEF TurnSend, TurnSent, Goto, Workers, Process
    <3>3. CASE ~(TurnSend \/ TurnSent \/ \E p \in {"turn", "clear", "backfill"} : RehydrateOne(p))
      <4>1. list' = list
        BY <2>3, <3>3 DEF FilesNext, RehydrateDone, Upload, TurnSave, TurnSaved, TurnWrite,
           ArchiveSend, ArchiveRecord, ArchiveDelete, BackfillOne, BackfillDone, SweepIdle,
           SweepClosed, EraseObjects, CloseStart, CloseDelete, ChannelDelete, MemberDeletes
      <4>2. pc[q] \in {"rehydrate", "restore"}
        BY <1>1, <2>3, <3>3 DEF FilesNext, RehydrateDone, Upload, TurnSave, TurnSaved,
           TurnWrite, ArchiveSend, ArchiveRecord, ArchiveDelete, BackfillOne, BackfillDone,
           SweepIdle, SweepClosed, EraseObjects, CloseStart, CloseDelete, ChannelDelete,
           MemberDeletes, Goto, At, Workers, Process
      <4>3. QED
        BY <1>1, <4>1, <4>2
    <3>4. QED
      BY <3>1, <3>2, <3>3
  <2>4. QED
    BY <1>1, <2>1, <2>2, <2>3
<1> DEFINE f == r.file
<1>4. f \in Files /\ (msg[f] \in {r.num, 0, sent["clear"]} \/ Held(q, f))
  BY <1>2, <1>3 DEF ReadTrue, Rows, Workers, Process
<1> HIDE DEF f
<1>5. CASE Held(q, f)
  <2>1. Held(q, f)'
    BY <1>1, <1>3, <1>4, <1>5, HeldStays
  <2>2. QED
    BY <2>1 DEF f
<1>6. CASE msg[f] \in {r.num, 0, sent["clear"]}
  <2>1. msg'[f] \notin {r.num, 0, sent'["clear"]}
    BY <1>1 DEF f
  <2>2. CASE msg'[f] = msg[f]
    <3>1. sent'["clear"] # sent["clear"] /\ msg'[f] # 0
      BY <1>6, <2>1, <2>2
    <3>2. ArchiveSend("clear") /\ clock' = clock + 1
      BY <3>1, NumberSteps DEF Process
    <3>3. Drop(Recorded \ Cached) /\ local' = local /\ pc'["clear"] # pc["clear"]
      BY <3>2 DEF ArchiveSend, Goto, Process
    <3>4. f \in Cached'
      BY <1>4, <2>2, <3>1, <3>3 DEF Drop, Recorded, Cached
    <3>5. q # "clear"
      BY <1>1, <1>3, <3>2 DEF ArchiveSend, Goto, Process
    <3>6. QED
      BY <3>4, <3>5 DEF Held, f
  <2>3. CASE /\ TurnSave /\ f \in Cached'
    <3>1. pc["turn"] = "save" /\ pc'["turn"] = "save"
      BY <2>3 DEF TurnSave, At
    <3>2. QED
      BY <1>1, <1>4, <2>3, <3>1, TurnHolds DEF f
  <2>4. CASE TurnSent /\ f \in Cached
    <3>1. pc["turn"] # "idle" /\ pc'["turn"] # "idle" /\ f \in Cached'
      BY <2>4 DEF TurnSent, Goto, Process, Cached
    <3>2. QED
      BY <1>1, <1>4, <3>1, TurnHolds DEF f
  <2>5. ASSUME NEW p \in {"turn", "clear"}, ArchiveRecord(p), f \in files[p], msg'[f] = sent[p]
        PROVE  Held(q, f)'
    <3>1. p = "turn"
      BY <2>1, <2>5 DEF ArchiveRecord
    <3>2. pc["turn"] # "idle" /\ pc'["turn"] # "idle" /\ f \in Cached'
      BY <1>2, <2>5, <3>1 DEF ArchiveRecord, ArchiveHolds, Goto, Process, Cached
    <3>3. QED
      BY <1>1, <1>4, <3>2, TurnHolds
  <2>6. QED
    BY <1>4, <2>1, <2>2, <2>3, <2>4, <2>5, RowSteps DEF f
<1>7. QED
  BY <1>4, <1>5, <1>6

LEMMA DoomKeeps == ASSUME FilesInv, FilesNext PROVE DoomedLate'
<1> USE DEF FilesInv, FileTypes, StoreTypes, ProcessTypes
<1>1. SUFFICES ASSUME Active', NEW q \in {"turn", "clear"}, pc'[q] = "doom",
                      NEW m \in doomed'[q], NEW f \in Files, m # 0, msg'[f] = m
               PROVE  <<f, m>> \in late' /\ Held(q, f)'
  BY DEF DoomedLate
<1>2. Active /\ late \subseteq late'
  <2>1. late \subseteq late'
    BY DEF FilesNext, RehydrateOne, RehydrateDone, Upload, TurnStart, TurnSave,
       TurnSaved, TurnWrite, TurnSend, TurnSent, TurnEnd, ClearStart, ArchiveSend,
       ArchiveRecord, ArchiveDelete, BackfillStart, BackfillOne, BackfillDone, SweepIdle,
       SweepClosed, EraseObjects, CloseStart, CloseDelete, ChannelDelete, MemberDeletes,
       Begin, runs
  <2>2. QED
    BY <1>1, <2>1, EraseKeeps DEF Active
<1>3. ~ArchiveRecord(q)
  BY <1>1 DEF ArchiveRecord, Process
<1>4. pc[q] = "doom"
  BY <1>1, <1>3 DEF FilesNext, RehydrateOne, RehydrateDone, Upload, TurnStart, TurnSave,
     TurnSaved, TurnWrite, TurnSend, TurnSent, TurnEnd, ClearStart, ArchiveSend,
     ArchiveRecord, ArchiveDelete, BackfillStart, BackfillOne, BackfillDone, SweepIdle,
     SweepClosed, EraseObjects, CloseStart, CloseDelete, ChannelDelete, MemberDeletes,
     Goto, At, Process
<1>5. m \in doomed[q]
  <2>1. ~ArchiveSend(q)
    BY <1>4 DEF ArchiveSend
  <2>2. QED
    BY <1>1, <2>1, NumberSteps DEF Process
<1>6. CASE msg'[f] = msg[f]
  <2>1. <<f, m>> \in late /\ Held(q, f)
    BY <1>1, <1>2, <1>4, <1>5, <1>6 DEF DoomedLate
  <2>2. QED
    BY <1>1, <1>2, <1>4, <2>1, HeldStays DEF Workers
<1>7. CASE TurnSave /\ f \in Cached' /\ msg'[f] # msg[f]
  <2>1. q = "clear" /\ pc["turn"] # "idle" /\ pc'["turn"] # "idle"
    BY <1>4, <1>7 DEF TurnSave, At
  <2>2. PICK g \in files["turn"] :
          /\ Record({g}, sent["turn"])
          /\ late' = IF pc["clear"] = "doom" /\ sent["turn"] \in doomed["clear"]
                     THEN late \union {<<g, sent["turn"]>>}
                     ELSE late
    BY <1>7 DEF TurnSave, manifest
  <2>3. g = f /\ sent["turn"] = m
    BY <1>1, <1>7, <2>2 DEF Record
  <2>4. <<f, m>> \in late'
    BY <1>4, <1>5, <2>1, <2>2, <2>3
  <2>5. Held(q, f)'
    BY <1>1, <1>7, <2>1, TurnHolds DEF Workers
  <2>6. QED
    BY <2>4, <2>5
<1>8. ASSUME TurnSent, NEW r \in list["turn"], msg'[f] = r.num PROVE FALSE
  <2>1. Unnamed(m)
    BY <1>1, <1>8 DEF TurnSent, InFlight
  <2>2. QED
    BY <1>5, <2>1 DEF Unnamed, Process
<1>9. ASSUME NEW p \in {"turn", "clear"}, ArchiveRecord(p), msg'[f] = sent[p] PROVE FALSE
  <2>1. Unnamed(m)
    BY <1>1, <1>9 DEF ArchiveRecord, InFlight
  <2>2. QED
    BY <1>5, <2>1 DEF Unnamed, Process
<1>10. QED
  BY <1>1, <1>6, <1>7, <1>8, <1>9, RowSteps

LEMMA FilesStep ==
  ASSUME FilesInv, FilesNext \/ UNCHANGED vars
  PROVE  FilesInv' /\ KeyedIsStored'
<1>1. CASE FilesNext
  <2>1. FileTypes'
    BY <1>1, StoresKeep, ProcessesKeep DEF FilesInv, FileTypes
  <2>2. ErasedWhenClosed' /\ FilesFly' /\ TurnHasMessage' /\ KeyedIsStored'
    BY <1>1, EraseKeeps, FlightsKeep, MessageKeeps, KeyedKeeps
  <2>3. GivenOut' /\ InFlight' /\ Beside' /\ UpWhileActive' /\ ArchiveHolds'
    BY <1>1, GivenKeeps, FlyingKeeps, BesideKeeps, ArchiveHoldsKeeps
  <2>4. ReadTrue' /\ DoomedLate'
    BY <1>1, ReadsKeep, DoomKeeps
  <2>5. QED
    BY <2>1, <2>2, <2>3, <2>4 DEF FilesInv
<1>2. CASE UNCHANGED vars
  BY <1>2 DEF vars, world, manifest, runs, FilesInv, FileTypes, StoreTypes, ProcessTypes,
     ErasedWhenClosed, FilesFly, TurnHasMessage, KeyedIsStored, Active, GivenOut, InFlight,
     Unnamed, Beside, UpWhileActive, ArchiveHolds, ReadTrue, DoomedLate, Held, Cached
<1>3. QED
  BY <1>1, <1>2

LEMMA OnlyGoneGoes == ASSUME FilesInv PROVE OnlyTheGoneGo
<1> USE DEF FilesInv, FileTypes, StoreTypes, ProcessTypes
<1>1. ASSUME NEW p \in {"turn", "clear"}, ArchiveDelete(p), Active, NEW m \in 1..clock,
             NEW f \in Files, carried'[m] # carried[m], msg[f] = m
      PROVE  <<f, m>> \in late /\ f \in Cached
  <2>1. pc[p] = "doom"
    BY <1>1 DEF ArchiveDelete
  <2>2. PICK d \in doomed[p] : carried' = [carried EXCEPT ![d] = NoFile] \/ carried' = carried
    BY <1>1 DEF ArchiveDelete
  <2>3. m \in 1..Horizon /\ m # 0
    BY <1>1, FilesAssumption DEF Number
  <2>4. m = d
    BY <1>1, <2>2, <2>3
  <2>5. QED
    BY <1>1, <2>1, <2>3, <2>4 DEF DoomedLate, Held
<1>2. ASSUME NEW p \in {"turn", "clear", "backfill"}, RehydrateOne(p), NEW f \in Recorded,
             msg'[f] = 0, carried[msg[f]][f] # 0
      PROVE  /\ \E r \in list[p] : r.file = f /\ r.num # msg[f]
             /\ f \in Cached \/ msg[f] = sent["clear"]
  <2>1. p \in Workers /\ pc[p] \in {"rehydrate", "restore"}
    BY <1>2 DEF RehydrateOne, Workers
  <2>2. PICK r \in list[p] :
          \/ UNCHANGED manifest
          \/ channelUp /\ carried[r.num][r.file] = 0 /\ Drop({r.file})
    BY <1>2 DEF RehydrateOne
  <2>3. msg[f] # 0 /\ f \in Files
    BY <1>2 DEF Recorded
  <2>4. channelUp /\ carried[r.num][r.file] = 0 /\ f = r.file
    BY <1>2, <2>2, <2>3 DEF Drop, manifest
  <2>5. r.num # msg[f] /\ Active
    BY <1>2, <2>4 DEF UpWhileActive
  <2>6. msg[f] \in {r.num, 0, sent["clear"]} \/ Held(p, f)
    BY <2>1, <2>4, <2>5 DEF ReadTrue
  <2>7. QED
    BY <2>3, <2>4, <2>5, <2>6 DEF Held
<1>3. QED
  BY <1>1, <1>2 DEF OnlyTheGoneGo

\* Where the files of a session are while a turn, a clear, a backfill, the sweep and
\* the closing interleave: a key names an object that landed, a row being restored is
\* still the one that was read unless a process beside it re-pointed it, and of the
\* messages about to be deleted rows name only those that saveUploads recorded late
\* (rehydrate, archiveSessionFiles, deleteSessionObjects).
THEOREM FilesInvariant == FilesSpec => []FilesInv
BY FilesStart, FilesStep, PTL DEF FilesSpec

\* However processes interleave, requests fail and members delete: an archive deletes
\* a message that a row names only if saveUploads recorded it late, a restore drops a
\* row whose message has the file only if it was re-pointed meanwhile, and the file is
\* in the workspace then or on the message of the clear that re-pointed it.
THEOREM FilesAreKept == FilesSpec => FilesKept
BY FilesInvariant, FilesStep, OnlyGoneGoes, PTL DEF FilesSpec, FilesKept
=============================================================================
