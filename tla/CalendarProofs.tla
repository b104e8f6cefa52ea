---------------------------- MODULE CalendarProofs ----------------------------
(***************************************************************************)
(* What the calendar shows, the event and the card of a session and the cards *)
(* of the months in the output channel; the dates of its series, on the board *)
(* and in the file; and the scanner of uploads, with which they are checked. *)
(***************************************************************************)
EXTENDS CalendarMirror, MonthBoard, CalendarSeries, FileScanner,
        FiniteSetTheorems, WellFoundedInduction, TLAPS

-----------------------------------------------------------------------------
(* The event and the card of a session (CalendarMirror).                   *)

Wordings == Shown \cup {Gone}
Listings == [content : Wordings, live : BOOLEAN, by : {"bot", "hand"}]
Places ==
  {"idle", "publish", "draw", "track", "ensure", "refresh", "fetch", "edit", "sync", "known",
   "match", "create", "link", "remove", "unlink", "cancel", "drop"}
Pass == [pc : Places, then : {"none", "refresh", "ensure"}, id : Nat, seen : Wordings]

MirrorTypes ==
  /\ entry \in Wordings
  /\ scheduled \in Seq(Listings) /\ link \in 0..Len(scheduled)
  /\ board \in Seq(Wordings) /\ tracked \in 0..Len(board)
  /\ callers \in [Callers -> Pass]
  /\ used \in [writes : Nat, troubles : Nat, hands : Nat, together : BOOLEAN]

\* What a call has read is still so.
WithLink == {"fetch", "edit", "known", "unlink", "cancel"}
WithoutLink == {"match", "create", "link"}
Sees(q) ==
  /\ q.pc \in WithLink \cup WithoutLink => q.seen = entry /\ entry # Gone
  /\ q.pc = "draw" => q.seen = entry
  /\ q.pc = "track" => q.id \in 1..Len(board) /\ board[q.id] = entry
  /\ entry = Gone => link = 0

\* What it knows of the event.
Knows(q) ==
  /\ q.pc \in WithLink => q.id = link /\ link # 0
  /\ q.pc \in WithoutLink => link = 0
  /\ q.pc = "link" => q.id \in 1..Len(scheduled) /\ scheduled[q.id].content = entry
  /\ q.pc = "create" =>
       \A id \in 1..Len(scheduled) :
         Live(id) /\ scheduled[id].content = entry => scheduled[id].by = "hand"

\* Unless a request failed, what Discord shows is right or is being put right.
Painting(q) == q.pc \in {"publish", "draw", "track"}
Owing(q) ==
  \/ Painting(q) /\ q.then \in {"refresh", "ensure"}
  \/ q.pc \in {"refresh", "ensure", "fetch", "edit"}
ShowsList(q) ==
  used.troubles = 0 =>
    /\ q.pc = "drop" => link = 0
    /\ link # 0 /\ Live(link) => entry = Past \/ scheduled[link].content = entry \/ Owing(q)
    /\ \A id \in 1..Len(scheduled) :
         Live(id) /\ scheduled[id].by = "bot" => id = link \/ (q.pc = "link" /\ id = q.id)
ShowsCard(q) ==
  used.troubles = 0 => (tracked # 0 => board[tracked] = entry \/ Painting(q))

\* What holds while caller c is the only one that may be running ...
LoneInv(c) ==
  /\ MirrorTypes
  /\ Sees(callers[c]) /\ Knows(callers[c]) /\ ShowsList(callers[c]) /\ ShowsCard(callers[c])
Single(c) == \A d \in Callers \ {c} : callers[d].pc = "idle"

\* ... which one is until two calls run together.
MirrorInv == used.together \/ \E c \in Callers : LoneInv(c) /\ Single(c)

LEMMA MirrorStarts == ASSUME MirrorInit PROVE MirrorInv
<1>1. Idle \in Pass /\ Idle.pc = "idle"
  BY DEF Idle, Pass, Places, Wordings
<1>2. MirrorTypes
  <2>1. scheduled \in Seq(Listings) /\ board \in Seq(Wordings) /\ link = 0 /\ tracked = 0
        /\ entry \in Wordings /\ Len(scheduled) = 0 /\ Len(board) = 0
    BY DEF MirrorInit, Wordings, Shown
  <2>2. used \in [writes : Nat, troubles : Nat, hands : Nat, together : BOOLEAN]
    BY DEF MirrorInit
  <2>3. callers \in [Callers -> Pass]
    BY <1>1 DEF MirrorInit
  <2>4. QED
    BY <2>1, <2>2, <2>3 DEF MirrorTypes
<1>3. ASSUME NEW c \in Callers
      PROVE  /\ Sees(callers[c]) /\ Knows(callers[c])
             /\ ShowsList(callers[c]) /\ ShowsCard(callers[c])
             /\ callers[c].pc = "idle"
  <2>1. callers[c].pc = "idle" /\ link = 0 /\ tracked = 0 /\ Len(scheduled) = 0
    BY <1>1 DEF MirrorInit
  <2>2. QED
    BY <2>1 DEF Sees, Knows, ShowsList, ShowsCard, WithLink, WithoutLink
<1>4. QED
  BY <1>2, <1>3, MirrorAssumption DEF MirrorInv, LoneInv, Single

\* A caller makes a step.
LEMMA CallSteps ==
  ASSUME NEW c, MirrorTypes', Sees(callers[c])', Knows(callers[c])',
         ShowsList(callers[c])', ShowsCard(callers[c])'
  PROVE  LoneInv(c)'
BY DEF LoneInv

UsedTypes == used \in [writes : Nat, troubles : Nat, hands : Nat, together : BOOLEAN]

LEMMA BeginsAreCounted ==
  ASSUME UsedTypes, NEW c, NEW pc, NEW then, Begin(c, pc, then)
  PROVE  UsedTypes' /\ used'.troubles = used.troubles
<1> DEFINE b == used.together \/ \E d \in Callers \ {c} : ~At(d, "idle")
<1>1. used' = [used EXCEPT !.writes = used.writes + 1, !.together = b]
  BY DEF Begin
<1>2. b \in BOOLEAN
  OBVIOUS
<1> HIDE DEF b
<1>3. used.writes + 1 \in Nat
  BY DEF UsedTypes
<1>4. ASSUME NEW n \in Nat, NEW t \in BOOLEAN,
             used' = [used EXCEPT !.writes = n, !.together = t]
      PROVE  UsedTypes' /\ used'.troubles = used.troubles
  BY <1>4, Zenon DEF UsedTypes
<1>5. QED
  BY <1>1, <1>2, <1>3, <1>4, Zenon

LEMMA CallerMoves ==
  ASSUME NEW c \in Callers, MirrorTypes
  PROVE  /\ \A pc \in Places : Proceed(c, pc) =>
              /\ callers' \in [Callers -> Pass] /\ callers'[c].pc = pc
              /\ callers'[c].then = callers[c].then /\ callers'[c].id = callers[c].id
              /\ callers'[c].seen = callers[c].seen
         /\ End(c) => callers' \in [Callers -> Pass] /\ callers'[c] = Idle
         /\ \A pc \in Places : Look(c, pc) =>
              /\ callers' \in [Callers -> Pass] /\ callers'[c].pc = pc
              /\ callers'[c].id = link /\ callers'[c].seen = entry
              /\ callers'[c].then = callers[c].then
         /\ \A pc \in Places : \A then \in {"none", "refresh", "ensure"} : Begin(c, pc, then) =>
              /\ callers[c].pc = "idle" /\ callers' \in [Callers -> Pass]
              /\ callers'[c].pc = pc /\ callers'[c].then = then
              /\ used' \in [writes : Nat, troubles : Nat, hands : Nat, together : BOOLEAN]
              /\ used'.troubles = used.troubles
         /\ Trouble => /\ used' \in [writes : Nat, troubles : Nat, hands : Nat, together : BOOLEAN]
                       /\ used'.troubles # 0
         /\ Idle.pc = "idle" /\ callers[c] \in Pass
<1> USE DEF MirrorTypes
<1>1. Idle \in Pass /\ callers[c] \in Pass /\ link \in Nat /\ entry \in Wordings
  BY DEF Idle, Pass, Places, Wordings
<1>2. ASSUME NEW pc \in Places, Proceed(c, pc)
      PROVE  /\ callers' \in [Callers -> Pass] /\ callers'[c].pc = pc
             /\ callers'[c].then = callers[c].then /\ callers'[c].id = callers[c].id
             /\ callers'[c].seen = callers[c].seen
  <2>1. callers' = [callers EXCEPT ![c] = [callers[c] EXCEPT !.pc = pc]]
    BY <1>2 DEF Proceed
  <2>2. [callers[c] EXCEPT !.pc = pc] \in Pass
    BY <1>1 DEF Pass
  <2>3. QED
    BY <1>1, <2>1, <2>2 DEF Pass
<1>3. ASSUME End(c) PROVE callers' \in [Callers -> Pass] /\ callers'[c] = Idle
  BY <1>1, <1>3 DEF End
<1>4. ASSUME NEW pc \in Places, Look(c, pc)
      PROVE  /\ callers' \in [Callers -> Pass] /\ callers'[c].pc = pc
             /\ callers'[c].id = link /\ callers'[c].seen = entry
             /\ callers'[c].then = callers[c].then
  <2>1. callers' = [callers EXCEPT
                      ![c] = [callers[c] EXCEPT !.pc = pc, !.id = link, !.seen = entry]]
    BY <1>4 DEF Look
  <2>2. [callers[c] EXCEPT !.pc = pc, !.id = link, !.seen = entry] \in Pass
    BY <1>1 DEF Pass
  <2>3. QED
    BY <1>1, <2>1, <2>2 DEF Pass
<1>5. ASSUME NEW pc \in Places, NEW then \in {"none", "refresh", "ensure"}, Begin(c, pc, then)
      PROVE  /\ callers[c].pc = "idle" /\ callers' \in [Callers -> Pass]
             /\ callers'[c].pc = pc /\ callers'[c].then = then
             /\ used' \in [writes : Nat, troubles : Nat, hands : Nat, together : BOOLEAN]
             /\ used'.troubles = used.troubles
  <2>1. [Idle EXCEPT !.pc = pc, !.then = then] \in Pass
    BY <1>1 DEF Pass
  <2>2. /\ callers[c].pc = "idle"
        /\ callers' = [callers EXCEPT ![c] = [Idle EXCEPT !.pc = pc, !.then = then]]
    BY <1>5 DEF Begin, At
  <2>3. /\ used' \in [writes : Nat, troubles : Nat, hands : Nat, together : BOOLEAN]
        /\ used'.troubles = used.troubles
    BY <1>5, BeginsAreCounted DEF UsedTypes
  <2>4. callers' \in [Callers -> Pass] /\ callers'[c] = [Idle EXCEPT !.pc = pc, !.then = then]
    BY <2>1, <2>2
  <2>5. callers'[c].pc = pc /\ callers'[c].then = then
    BY <2>4 DEF Idle
  <2>6. QED
    BY <2>2, <2>3, <2>4, <2>5
<1>6. ASSUME Trouble
      PROVE  /\ used' \in [writes : Nat, troubles : Nat, hands : Nat, together : BOOLEAN]
             /\ used'.troubles # 0
  BY <1>6 DEF Trouble
<1>7. QED
  BY <1>1, <1>2, <1>3, <1>4, <1>5, <1>6 DEF Idle

LEMMA WritesKeep ==
  ASSUME NEW c \in Callers, LoneInv(c), MirrorCall(c) PROVE LoneInv(c)'
<1>1. /\ MirrorTypes /\ Sees(callers[c]) /\ Knows(callers[c])
      /\ ShowsList(callers[c]) /\ ShowsCard(callers[c])
  BY DEF LoneInv
<1>2. ASSUME NEW k \in Shown, UpdateEvent(c, k) \/ SetTheme(c, k) PROVE LoneInv(c)'
  <2>1. /\ Begin(c, "publish", "refresh") \/ Begin(c, "publish", "ensure")
        /\ entry' = k /\ UNCHANGED <<link, scheduled, board, tracked>>
    BY <1>2 DEF UpdateEvent, SetTheme
  <2>2. /\ callers' \in [Callers -> Pass] /\ callers[c].pc = "idle"
        /\ callers'[c].pc = "publish" /\ callers'[c].then \in {"refresh", "ensure"}
        /\ used' \in [writes : Nat, troubles : Nat, hands : Nat, together : BOOLEAN]
        /\ used'.troubles = used.troubles
    BY <1>1, <2>1, CallerMoves DEF Places
  <2>3. entry' \in Wordings /\ entry' # Gone
    BY <2>1, MirrorAssumption DEF Wordings, Shown, Gone
  <2>4. MirrorTypes'
    BY <1>1, <2>1, <2>2, <2>3 DEF MirrorTypes
  <2>5. Sees(callers[c])' /\ Knows(callers[c])'
    BY <1>1, <2>1, <2>2, <2>3 DEF Sees, Knows, WithLink, WithoutLink
  <2>6. ShowsList(callers[c])' /\ ShowsCard(callers[c])'
    BY <1>1, <2>1, <2>2 DEF ShowsList, ShowsCard, Owing, Painting, Live
  <2>7. QED
    BY <2>4, <2>5, <2>6, CallSteps
<1>3. ASSUME DeleteEvent(c) \/ SyncEvent(c) \/ PublishAll(c) PROVE LoneInv(c)'
  <2>1. /\ \/ Begin(c, "remove", "none") \/ Begin(c, "sync", "none")
           \/ Begin(c, "publish", "none")
        /\ UNCHANGED <<entry, link, scheduled, board, tracked>>
    BY <1>3 DEF DeleteEvent, SyncEvent, PublishAll
  <2>2. /\ callers' \in [Callers -> Pass] /\ callers[c].pc = "idle"
        /\ callers'[c].pc \in {"remove", "sync", "publish"}
        /\ used' \in [writes : Nat, troubles : Nat, hands : Nat, together : BOOLEAN]
        /\ used'.troubles = used.troubles
    BY <1>1, <2>1, CallerMoves DEF Places
  <2>3. MirrorTypes'
    BY <1>1, <2>1, <2>2 DEF MirrorTypes
  <2>4. Sees(callers[c])' /\ Knows(callers[c])'
    BY <1>1, <2>1, <2>2 DEF Sees, Knows, WithLink, WithoutLink
  <2>5. ShowsList(callers[c])' /\ ShowsCard(callers[c])'
    BY <1>1, <2>1, <2>2 DEF ShowsList, ShowsCard, Owing, Painting, Live
  <2>6. QED
    BY <2>3, <2>4, <2>5, CallSteps
<1>4. QED
  BY <1>2, <1>3 DEF MirrorCall

\* Only the place of the caller changes; what it says holds there too.
LEMMA AfterPainting ==
  ASSUME NEW c \in Callers, MirrorTypes, Afterwards(c), Painting(callers[c])
  PROVE  /\ callers' \in [Callers -> Pass]
         /\ callers'[c].pc \in {"idle", "refresh", "ensure"}
         /\ Owing(callers[c]) => Owing(callers'[c])
<1>1. callers[c].then \in {"none", "refresh", "ensure"}
  BY DEF MirrorTypes, Pass
<1>2. CASE callers[c].then = "none"
  <2>1. callers'[c].pc = "idle" /\ callers' \in [Callers -> Pass]
    BY <1>2, CallerMoves DEF Afterwards, Idle
  <2>2. ~Owing(callers[c])
    BY <1>2 DEF Owing, Painting
  <2>3. QED
    BY <2>1, <2>2
<1>3. CASE callers[c].then # "none"
  <2>1. callers[c].then \in {"refresh", "ensure"} /\ callers[c].then \in Places
    BY <1>1, <1>3 DEF Places
  <2>2. Proceed(c, callers[c].then)
    BY <1>3 DEF Afterwards
  <2>3. callers'[c].pc = callers[c].then /\ callers' \in [Callers -> Pass]
    BY <2>1, <2>2, CallerMoves
  <2>4. QED
    BY <2>1, <2>3 DEF Owing
<1>4. QED
  BY <1>2, <1>3

LEMMA PublishingKeeps ==
  ASSUME NEW c \in Callers, LoneInv(c), Publishing(c) PROVE LoneInv(c)'
<1>1. /\ MirrorTypes /\ Sees(callers[c]) /\ Knows(callers[c])
      /\ ShowsList(callers[c]) /\ ShowsCard(callers[c])
  BY DEF LoneInv
<1>2. ASSUME ReadRows(c) PROVE LoneInv(c)'
  <2>1. /\ callers' \in [Callers -> Pass]
        /\ callers'[c].pc = "draw" /\ callers'[c].then = callers[c].then
        /\ callers'[c].seen = entry /\ callers[c].pc = "publish"
    <3>1. /\ callers[c].pc = "publish" /\ callers[c] \in Pass
          /\ callers' = [callers EXCEPT ![c] = [callers[c] EXCEPT !.pc = "draw", !.seen = entry]]
      BY <1>1, <1>2 DEF ReadRows, At, MirrorTypes
    <3>2. [callers[c] EXCEPT !.pc = "draw", !.seen = entry] \in Pass
      BY <1>1, <3>1 DEF MirrorTypes, Pass, Places
    <3>3. QED
      BY <1>1, <3>1, <3>2 DEF MirrorTypes, Pass
  <2>2. UNCHANGED <<entry, link, scheduled, board, tracked, used>>
    BY <1>2 DEF ReadRows
  <2>3. MirrorTypes'
    BY <1>1, <2>1, <2>2 DEF MirrorTypes
  <2>4. Sees(callers[c])' /\ Knows(callers[c])'
    BY <1>1, <2>1, <2>2 DEF Sees, Knows, WithLink, WithoutLink
  <2>5. ShowsList(callers[c])' /\ ShowsCard(callers[c])'
    BY <1>1, <2>1, <2>2 DEF ShowsList, ShowsCard, Owing, Painting, Live
  <2>6. QED
    BY <2>3, <2>4, <2>5, CallSteps
<1>3. ASSUME EditCard(c) PROVE LoneInv(c)'
  <2>1. /\ callers[c].pc = "draw" /\ tracked # 0 /\ callers[c].seen = entry
        /\ board' = [board EXCEPT ![tracked] = entry] /\ Afterwards(c)
        /\ UNCHANGED <<entry, link, scheduled, tracked, used>>
    BY <1>1, <1>3 DEF EditCard, At, Sees
  <2>2. Painting(callers[c])
    BY <2>1 DEF Painting
  <2>3. /\ callers' \in [Callers -> Pass]
        /\ callers'[c].pc \in {"idle", "refresh", "ensure"}
        /\ Owing(callers[c]) => Owing(callers'[c])
    BY <1>1, <2>1, <2>2, AfterPainting
  <2>4. board' \in Seq(Wordings) /\ Len(board') = Len(board) /\ board'[tracked] = entry
    BY <1>1, <2>1 DEF MirrorTypes
  <2>5. MirrorTypes'
    BY <1>1, <2>1, <2>3, <2>4 DEF MirrorTypes
  <2>6. Sees(callers[c])' /\ Knows(callers[c])'
    BY <1>1, <2>1, <2>3 DEF Sees, Knows, WithLink, WithoutLink
  <2>7. ShowsList(callers[c])'
    BY <1>1, <2>1, <2>2, <2>3 DEF ShowsList, Owing, Live, Painting
  <2>8. ShowsCard(callers[c])'
    BY <2>1, <2>4 DEF ShowsCard
  <2>9. QED
    BY <2>5, <2>6, <2>7, <2>8, CallSteps
<1>4. ASSUME SendCard(c) PROVE LoneInv(c)'
  <2>1. /\ callers[c].pc = "draw" /\ callers[c].seen = entry
        /\ board' = Append(board, entry) /\ tracked' = 0
        /\ UNCHANGED <<entry, link, scheduled>>
        /\ UNCHANGED used \/ Trouble
    BY <1>1, <1>4 DEF SendCard, At, Sees
  <2>2. board' \in Seq(Wordings) /\ Len(board) \in Nat /\ Len(board') = Len(board) + 1
        /\ board'[Len(board) + 1] = entry
    BY <1>1, <2>1 DEF MirrorTypes
  <2>3. /\ callers' \in [Callers -> Pass]
        /\ callers'[c].pc = "track" /\ callers'[c].then = callers[c].then
        /\ callers'[c].id = Len(board) + 1
    <3>1. /\ callers[c] \in Pass
          /\ callers' = [callers EXCEPT ![c] =
                           [callers[c] EXCEPT !.pc = "track", !.id = Len(board) + 1]]
      BY <1>1, <1>4 DEF SendCard, MirrorTypes
    <3>2. Len(board) + 1 \in Nat
      BY <2>2
    <3>3. [callers[c] EXCEPT !.pc = "track", !.id = Len(board) + 1] \in Pass
      BY <3>1, <3>2 DEF Pass, Places
    <3>4. QED
      BY <1>1, <3>1, <3>3 DEF MirrorTypes, Pass
  <2>4. /\ used' \in [writes : Nat, troubles : Nat, hands : Nat, together : BOOLEAN]
        /\ used'.troubles = 0 => used.troubles = 0
    BY <1>1, <2>1, CallerMoves DEF MirrorTypes
  <2>5. MirrorTypes'
    BY <1>1, <2>1, <2>2, <2>3, <2>4 DEF MirrorTypes
  <2>6. Sees(callers[c])' /\ Knows(callers[c])'
    BY <1>1, <2>1, <2>2, <2>3 DEF Sees, Knows, WithLink, WithoutLink
  <2>7. ShowsList(callers[c])' /\ ShowsCard(callers[c])'
    BY <1>1, <2>1, <2>3, <2>4 DEF ShowsList, ShowsCard, Owing, Painting, Live
  <2>8. QED
    BY <2>5, <2>6, <2>7, CallSteps
<1>5. ASSUME TrackCard(c) PROVE LoneInv(c)'
  <2>1. /\ callers[c].pc = "track" /\ tracked' = callers[c].id /\ Afterwards(c)
        /\ callers[c].id \in 1..Len(board) /\ board[callers[c].id] = entry
        /\ UNCHANGED <<entry, link, scheduled, board, used>>
    BY <1>1, <1>5 DEF TrackCard, At, Sees
  <2>2. Painting(callers[c])
    BY <2>1 DEF Painting
  <2>3. /\ callers' \in [Callers -> Pass]
        /\ callers'[c].pc \in {"idle", "refresh", "ensure"}
        /\ Owing(callers[c]) => Owing(callers'[c])
    BY <1>1, <2>1, <2>2, AfterPainting
  <2>4. MirrorTypes'
    BY <1>1, <2>1, <2>3 DEF MirrorTypes
  <2>5. Sees(callers[c])' /\ Knows(callers[c])'
    BY <1>1, <2>1, <2>3 DEF Sees, Knows, WithLink, WithoutLink
  <2>6. ShowsList(callers[c])'
    BY <1>1, <2>1, <2>2, <2>3 DEF ShowsList, Owing, Live, Painting
  <2>7. ShowsCard(callers[c])'
    BY <2>1 DEF ShowsCard
  <2>8. QED
    BY <2>4, <2>5, <2>6, <2>7, CallSteps
<1>6. ASSUME PublishFails(c) PROVE LoneInv(c)'
  <2>1. /\ callers[c].pc \in {"publish", "draw"} /\ Trouble /\ Afterwards(c)
        /\ UNCHANGED <<entry, link, scheduled, board, tracked>>
    BY <1>6 DEF PublishFails
  <2>2. Painting(callers[c])
    BY <2>1 DEF Painting
  <2>3. /\ callers' \in [Callers -> Pass]
        /\ callers'[c].pc \in {"idle", "refresh", "ensure"}
    BY <1>1, <2>1, <2>2, AfterPainting
  <2>4. used' \in [writes : Nat, troubles : Nat, hands : Nat, together : BOOLEAN] /\ used'.troubles # 0
    BY <1>1, <2>1, CallerMoves
  <2>5. MirrorTypes'
    BY <1>1, <2>1, <2>3, <2>4 DEF MirrorTypes
  <2>6. Sees(callers[c])' /\ Knows(callers[c])'
    BY <1>1, <2>1, <2>3 DEF Sees, Knows, WithLink, WithoutLink
  <2>7. ShowsList(callers[c])' /\ ShowsCard(callers[c])'
    BY <2>4 DEF ShowsList, ShowsCard
  <2>8. QED
    BY <2>5, <2>6, <2>7, CallSteps
<1>7. QED
  BY <1>2, <1>3, <1>4, <1>5, <1>6 DEF Publishing

\* The steps that only move the caller on, or end its call.
LEMMA LooksKeep ==
  ASSUME NEW c \in Callers, LoneInv(c),
         Ensure(c) \/ RefreshStart(c) \/ SyncStart(c) \/ RemoveStart(c)
  PROVE  LoneInv(c)'
<1>1. /\ MirrorTypes /\ Sees(callers[c]) /\ Knows(callers[c])
      /\ ShowsList(callers[c]) /\ ShowsCard(callers[c])
  BY DEF LoneInv
<1>2. /\ callers[c].pc \in {"ensure", "refresh", "sync", "remove"}
      /\ UNCHANGED <<entry, link, scheduled, board, tracked, used>>
  BY DEF Ensure, RefreshStart, SyncStart, RemoveStart, At
<1>3. CASE End(c)
  <2>1. callers' \in [Callers -> Pass] /\ callers'[c].pc = "idle"
    BY <1>1, <1>3, CallerMoves
  <2>2. entry = Gone \/ link = 0 \/ callers[c].pc \notin {"ensure", "refresh"}
    <3>1. SUFFICES ASSUME entry # Gone, link # 0, callers[c].pc \in {"ensure", "refresh"}
                   PROVE  FALSE
      OBVIOUS
    <3>2. Proceed(c, "refresh") \/ Look(c, "fetch")
      BY <3>1 DEF Ensure, RefreshStart, SyncStart, RemoveStart, At
    <3>3. callers'[c].pc \in {"refresh", "fetch"}
      BY <1>1, <3>2, CallerMoves DEF Places
    <3>4. QED
      BY <2>1, <3>3
  <2>3. link = 0 \/ callers[c].pc \in {"sync", "remove"}
    BY <1>1, <1>2, <2>2 DEF Sees
  <2>4. MirrorTypes'
    BY <1>1, <1>2, <2>1 DEF MirrorTypes
  <2>5. Sees(callers[c])' /\ Knows(callers[c])'
    BY <1>1, <1>2, <2>1 DEF Sees, Knows, WithLink, WithoutLink
  <2>6. ShowsList(callers[c])' /\ ShowsCard(callers[c])'
    BY <1>1, <1>2, <2>1, <2>3 DEF ShowsList, ShowsCard, Owing, Painting, Live
  <2>7. QED
    BY <2>4, <2>5, <2>6, CallSteps
<1>4. CASE ~End(c) /\ callers[c].pc = "ensure"
  <2>1. Proceed(c, IF link = 0 THEN "sync" ELSE "refresh")
    BY <1>4 DEF Ensure, RefreshStart, SyncStart, RemoveStart, At
  <2>2. /\ callers' \in [Callers -> Pass]
        /\ callers'[c].pc = IF link = 0 THEN "sync" ELSE "refresh"
    BY <1>1, <2>1, CallerMoves DEF Places
  <2>3. MirrorTypes'
    BY <1>1, <1>2, <2>2 DEF MirrorTypes
  <2>4. Sees(callers[c])' /\ Knows(callers[c])'
    BY <1>1, <1>2, <2>2 DEF Sees, Knows, WithLink, WithoutLink
  <2>5. ShowsList(callers[c])' /\ ShowsCard(callers[c])'
    BY <1>1, <1>2, <1>4, <2>2 DEF ShowsList, ShowsCard, Owing, Painting, Live
  <2>6. QED
    BY <2>3, <2>4, <2>5, CallSteps
<1>5. CASE ~End(c) /\ callers[c].pc # "ensure"
  <2>1. PICK pc \in {"fetch", "match", "known", "drop", "unlink"} :
          /\ Look(c, pc) /\ entry # Gone
          /\ pc \in {"match", "drop"} <=> link = 0
          /\ pc = "fetch" <=> callers[c].pc = "refresh"
    BY <1>5 DEF Ensure, RefreshStart, SyncStart, RemoveStart, At
  <2>2. /\ callers' \in [Callers -> Pass] /\ callers'[c].pc = pc
        /\ callers'[c].id = link /\ callers'[c].seen = entry
    BY <1>1, <2>1, CallerMoves DEF Places
  <2>3. MirrorTypes'
    BY <1>1, <1>2, <2>2 DEF MirrorTypes
  <2>4. Sees(callers[c])' /\ Knows(callers[c])'
    BY <1>1, <1>2, <2>1, <2>2 DEF Sees, Knows, WithLink, WithoutLink
  <2>5. ShowsList(callers[c])' /\ ShowsCard(callers[c])'
    BY <1>1, <1>2, <1>5, <2>1, <2>2 DEF ShowsList, ShowsCard, Owing, Painting, Live
  <2>6. QED
    BY <2>3, <2>4, <2>5, CallSteps
<1>6. QED
  BY <1>2, <1>3, <1>4, <1>5

\* The answers that say whether the linked event is still there.
LEMMA FetchesKeep ==
  ASSUME NEW c \in Callers, LoneInv(c), NEW found \in BOOLEAN,
         RefreshFetched(c, found) \/ SyncFetched(c, found) \/ RemoveFetched(c, found)
  PROVE  LoneInv(c)'
<1>1. /\ MirrorTypes /\ Sees(callers[c]) /\ Knows(callers[c])
      /\ ShowsList(callers[c]) /\ ShowsCard(callers[c])
  BY DEF LoneInv
<1>2. /\ callers[c].pc \in {"fetch", "known", "unlink"}
      /\ Fetched(c, found) /\ link' = (IF found THEN link ELSE 0)
      /\ UNCHANGED <<entry, scheduled, board, tracked>>
  BY DEF RefreshFetched, SyncFetched, RemoveFetched, At
<1>3. callers[c].id = link /\ link # 0 /\ callers[c].seen = entry /\ entry # Gone
  BY <1>1, <1>2 DEF Sees, Knows, WithLink
<1>4. /\ used' \in [writes : Nat, troubles : Nat, hands : Nat, together : BOOLEAN]
      /\ used'.troubles = 0 => used.troubles = 0 /\ (found <=> Live(link))
  BY <1>1, <1>2, <1>3, CallerMoves DEF Fetched, MirrorTypes
<1>5. /\ callers' \in [Callers -> Pass]
      /\ callers'[c].pc \in {"edit", "idle", "match", "cancel", "drop"}
      /\ callers'[c].pc \in {"edit", "cancel"} =>
           found /\ callers'[c].id = link /\ callers'[c].seen = entry
      /\ callers'[c].pc = "match" =>
           ~found /\ callers'[c].id = link /\ callers'[c].seen = entry
      /\ callers'[c].pc = "drop" => ~found
      /\ callers[c].pc = "fetch" /\ found => callers'[c].pc = "edit" \/ entry = Past
  <2>1. CASE RefreshFetched(c, found)
    <3>1. CASE found /\ entry # Past
      <4>1. Proceed(c, "edit")
        BY <1>3, <2>1, <3>1 DEF RefreshFetched
      <4>2. QED
        BY <1>1, <1>3, <3>1, <4>1, CallerMoves DEF Places
    <3>2. CASE ~(found /\ entry # Past)
      <4>1. End(c)
        BY <1>3, <2>1, <3>2 DEF RefreshFetched
      <4>2. QED
        BY <1>1, <1>3, <3>2, <4>1, CallerMoves
    <3>3. QED
      BY <3>1, <3>2
  <2>2. CASE SyncFetched(c, found)
    <3>1. CASE found
      <4>1. End(c) /\ callers[c].pc = "known"
        BY <2>2, <3>1 DEF SyncFetched, At
      <4>2. QED
        BY <1>1, <1>3, <3>1, <4>1, CallerMoves
    <3>2. CASE ~found
      <4>1. Proceed(c, "match")
        BY <2>2, <3>2 DEF SyncFetched
      <4>2. QED
        BY <1>1, <1>3, <3>2, <4>1, CallerMoves DEF Places
    <3>3. QED
      BY <3>1, <3>2
  <2>3. CASE RemoveFetched(c, found)
    <3>1. Proceed(c, IF found THEN "cancel" ELSE "drop") /\ callers[c].pc = "unlink"
      BY <2>3 DEF RemoveFetched, At
    <3>2. QED
      BY <1>1, <1>3, <3>1, CallerMoves DEF Places
  <2>4. QED
    BY <2>1, <2>2, <2>3
<1>6. MirrorTypes'
  BY <1>1, <1>2, <1>4, <1>5 DEF MirrorTypes
<1>7. Sees(callers[c])' /\ Knows(callers[c])'
  BY <1>1, <1>2, <1>3, <1>5 DEF Sees, Knows, WithLink, WithoutLink
<1>8. ShowsList(callers[c])'
  <2>1. SUFFICES ASSUME used'.troubles = 0 PROVE ShowsList(callers[c])'
    BY DEF ShowsList
  <2>2. /\ ~Owing(callers[c]) \/ callers[c].pc = "fetch"
        /\ link # 0 /\ Live(link) => entry = Past \/ scheduled[link].content = entry
                                     \/ Owing(callers[c])
        /\ \A id \in 1..Len(scheduled) :
             Live(id) /\ scheduled[id].by = "bot" => id = link
        /\ found <=> Live(link)
    BY <1>1, <1>2, <1>4, <2>1 DEF ShowsList, Owing, Painting
  <2>3. QED
    BY <1>2, <1>5, <2>2 DEF ShowsList, Owing, Live
<1>9. ShowsCard(callers[c])'
  BY <1>1, <1>2, <1>4, <1>5 DEF ShowsCard, Painting
<1>10. QED
  BY <1>6, <1>7, <1>8, <1>9, CallSteps

LEMMA EventsKeep ==
  ASSUME NEW c \in Callers, LoneInv(c),
         EditEvent(c) \/ MatchEvent(c) \/ MintEvent(c) \/ LinkEvent(c)
  PROVE  LoneInv(c)'
<1>1. /\ MirrorTypes /\ Sees(callers[c]) /\ Knows(callers[c])
      /\ ShowsList(callers[c]) /\ ShowsCard(callers[c])
  BY DEF LoneInv
<1>2. Len(scheduled) \in Nat /\ callers[c] \in Pass
  BY <1>1 DEF MirrorTypes
<1>3. ASSUME EditEvent(c) PROVE LoneInv(c)'
  <2>1. /\ callers[c].pc = "edit" /\ callers[c].id = link /\ link # 0
        /\ callers[c].seen = entry /\ entry # Gone
        /\ link \in 1..Len(scheduled)
    BY <1>1, <1>2, <1>3 DEF EditEvent, At, Sees, Knows, WithLink, MirrorTypes
  <2>2. /\ callers' \in [Callers -> Pass] /\ callers'[c].pc = "idle"
        /\ UNCHANGED <<entry, link, board, tracked, used>>
    BY <1>1, <1>3, CallerMoves DEF EditEvent
  <2>3. /\ scheduled' \in Seq(Listings) /\ Len(scheduled') = Len(scheduled)
        /\ Live(link) => scheduled'[link].content = entry
        /\ \A id \in 1..Len(scheduled) :
             /\ scheduled'[id].live = scheduled[id].live
             /\ scheduled'[id].by = scheduled[id].by
    <3>1. CASE Live(link)
      <4>1. scheduled' = [scheduled EXCEPT ![link] = [scheduled[link] EXCEPT !.content = entry]]
        BY <1>3, <2>1, <3>1 DEF EditEvent
      <4>2. [scheduled[link] EXCEPT !.content = entry] \in Listings
        <5>1. scheduled[link] \in Listings /\ entry \in Wordings
          BY <1>1, <2>1 DEF MirrorTypes
        <5>2. QED
          BY <5>1 DEF Listings
      <4>3. QED
        BY <1>1, <2>1, <4>1, <4>2 DEF MirrorTypes, Listings
    <3>2. CASE ~Live(link)
      BY <1>1, <1>3, <2>1, <3>2 DEF EditEvent, MirrorTypes
    <3>3. QED
      BY <3>1, <3>2
  <2>4. MirrorTypes'
    BY <1>1, <2>2, <2>3 DEF MirrorTypes
  <2>5. Sees(callers[c])' /\ Knows(callers[c])'
    BY <1>1, <2>1, <2>2 DEF Sees, Knows, WithLink, WithoutLink
  <2>6. ShowsList(callers[c])' /\ ShowsCard(callers[c])'
    BY <1>1, <2>1, <2>2, <2>3 DEF ShowsList, ShowsCard, Painting, Live
  <2>7. QED
    BY <2>4, <2>5, <2>6, CallSteps
<1>4. ASSUME MatchEvent(c) PROVE LoneInv(c)'
  <2>1. /\ callers[c].pc = "match" /\ link = 0
        /\ callers[c].seen = entry /\ entry # Gone
        /\ UNCHANGED <<entry, scheduled, board, tracked, used>>
    BY <1>1, <1>4 DEF MatchEvent, At, Sees, Knows, WithoutLink
  <2>2. Matches(c) \subseteq 1..Len(scheduled) /\ IsFiniteSet(Matches(c))
    <3>1. Matches(c) \subseteq 1..Len(scheduled)
      BY DEF Matches, LiveWith
    <3>2. IsFiniteSet(1..Len(scheduled))
      BY <1>2, FS_Interval
    <3>3. QED
      BY <3>1, <3>2, FS_Subset
  <2>3. Matches(c) = {} \/ Cardinality(Matches(c)) # 0
    BY <2>2, FS_EmptySet
  <2>4. CASE /\ callers[c].seen # Past /\ Matches(c) = {}
             /\ Cardinality(Matches(c)) = 0
    <3>1. Proceed(c, "create") /\ link' = 0
      BY <1>4, <2>1, <2>4 DEF MatchEvent
    <3>2. /\ callers' \in [Callers -> Pass] /\ callers'[c].pc = "create"
          /\ callers'[c].seen = entry
      BY <1>1, <2>1, <3>1, CallerMoves DEF Places
    <3>3. \A id \in 1..Len(scheduled) : ~(Live(id) /\ scheduled[id].content = entry)
      BY <2>1, <2>4 DEF Matches, LiveWith
    <3>4. MirrorTypes'
      BY <1>1, <2>1, <3>1, <3>2 DEF MirrorTypes
    <3>5. Sees(callers[c])' /\ Knows(callers[c])'
      BY <1>1, <2>1, <3>1, <3>2, <3>3 DEF Sees, Knows, WithLink, WithoutLink, Live
    <3>6. ShowsList(callers[c])' /\ ShowsCard(callers[c])'
      BY <1>1, <2>1, <3>1, <3>2 DEF ShowsList, ShowsCard, Painting, Live
    <3>7. QED
      BY <3>4, <3>5, <3>6, CallSteps
  <2>5. CASE ~(callers[c].seen # Past /\ Cardinality(Matches(c)) = 0)
    <3>1. callers' \in [Callers -> Pass] /\ callers'[c].pc = "idle"
      BY <1>1, <1>4, <2>5, CallerMoves DEF MatchEvent
    <3>2. \/ link' = 0
          \/ link' \in 1..Len(scheduled) /\ Live(link') /\ scheduled[link'].content = entry
      <4>1. CASE callers[c].seen # Past /\ Cardinality(Matches(c)) = 1
        <5>1. Matches(c) # {}
          BY <4>1, FS_EmptySet
        <5>2. link' \in Matches(c)
          BY <1>4, <4>1, <5>1 DEF MatchEvent
        <5>3. QED
          BY <2>1, <5>2 DEF Matches, LiveWith
      <4>2. CASE ~(callers[c].seen # Past /\ Cardinality(Matches(c)) = 1)
        BY <1>4, <2>1, <4>2 DEF MatchEvent
      <4>3. QED
        BY <4>1, <4>2
    <3>3. link' \in 0..Len(scheduled)
      BY <1>2, <3>2
    <3>4. MirrorTypes'
      BY <1>1, <2>1, <3>1, <3>3 DEF MirrorTypes
    <3>5. Sees(callers[c])' /\ Knows(callers[c])'
      BY <1>1, <2>1, <3>1 DEF Sees, Knows, WithLink, WithoutLink
    <3>6. used.troubles = 0 =>
            \A id \in 1..Len(scheduled) : ~(Live(id) /\ scheduled[id].by = "bot")
      BY <1>1, <2>1 DEF ShowsList
    <3>7. ShowsList(callers[c])'
      BY <2>1, <3>1, <3>2, <3>6 DEF ShowsList, Live
    <3>8. ShowsCard(callers[c])'
      BY <1>1, <2>1 DEF ShowsCard, Painting
    <3>9. QED
      BY <3>4, <3>5, <3>7, <3>8, CallSteps
  <2>6. QED
    BY <2>3, <2>4, <2>5
<1>5. ASSUME MintEvent(c) PROVE LoneInv(c)'
  <2> DEFINE fresh == [content |-> callers[c].seen, live |-> TRUE, by |-> "bot"]
  <2>1. /\ callers[c].pc = "create" /\ link = 0
        /\ callers[c].seen = entry /\ entry # Gone
        /\ scheduled' = Append(scheduled, fresh)
        /\ UNCHANGED <<entry, link, board, tracked, used>>
    BY <1>1, <1>5 DEF MintEvent, At, Sees, Knows, WithoutLink
  <2>2. fresh \in Listings /\ fresh.content = entry
    BY <1>2, <2>1 DEF Listings, Pass
  <2>3. /\ scheduled' \in Seq(Listings) /\ Len(scheduled') = Len(scheduled) + 1
        /\ \A id \in 1..Len(scheduled) : scheduled'[id] = scheduled[id]
        /\ scheduled'[Len(scheduled) + 1] = fresh
    BY <1>1, <2>1, <2>2 DEF MirrorTypes
  <2>4. /\ callers' \in [Callers -> Pass]
        /\ callers'[c].pc = "link" /\ callers'[c].seen = entry
        /\ callers'[c].id = Len(scheduled) + 1
    <3>1. callers' = [callers EXCEPT ![c] =
                        [callers[c] EXCEPT !.pc = "link", !.id = Len(scheduled) + 1]]
      BY <1>1, <1>5 DEF MintEvent, MirrorTypes
    <3>2. Len(scheduled) + 1 \in Nat
      BY <1>2
    <3>3. [callers[c] EXCEPT !.pc = "link", !.id = Len(scheduled) + 1] \in Pass
      BY <1>2, <3>2 DEF Pass, Places
    <3>4. QED
      BY <1>1, <1>2, <2>1, <3>1, <3>3 DEF MirrorTypes, Pass
  <2>5. MirrorTypes'
    <3>1. link' \in 0..Len(scheduled')
      BY <1>2, <2>1, <2>3
    <3>2. QED
      BY <1>1, <2>1, <2>3, <2>4, <3>1 DEF MirrorTypes
  <2>6. callers'[c].id \in 1..Len(scheduled') /\ scheduled'[callers'[c].id].content = entry
    BY <1>2, <2>2, <2>3, <2>4
  <2>7. Sees(callers[c])' /\ Knows(callers[c])'
    BY <1>1, <2>1, <2>4, <2>6 DEF Sees, Knows, WithLink, WithoutLink
  <2>8. ShowsList(callers[c])'
    <3>1. SUFFICES ASSUME used.troubles = 0 PROVE ShowsList(callers[c])'
      BY <2>1 DEF ShowsList
    <3>2. \A id \in 1..Len(scheduled) : ~(Live(id) /\ scheduled[id].by = "bot")
      BY <1>1, <2>1, <3>1 DEF ShowsList
    <3>3. ASSUME NEW id \in 1..Len(scheduled'), Live(id)', scheduled'[id].by = "bot"
          PROVE  id = callers'[c].id
      <4>1. CASE id \in 1..Len(scheduled)
        BY <2>3, <3>2, <3>3, <4>1 DEF Live
      <4>2. CASE id \notin 1..Len(scheduled)
        BY <1>2, <2>3, <2>4, <4>2
      <4>3. QED
        BY <4>1, <4>2
    <3>4. QED
      BY <2>1, <2>4, <3>3 DEF ShowsList
  <2>9. ShowsCard(callers[c])'
    BY <1>1, <2>1 DEF ShowsCard, Painting
  <2>10. QED
    BY <2>5, <2>7, <2>8, <2>9, CallSteps
<1>6. ASSUME LinkEvent(c) PROVE LoneInv(c)'
  <2>1. /\ callers[c].pc = "link" /\ link = 0 /\ entry # Gone
        /\ callers[c].id \in 1..Len(scheduled) /\ scheduled[callers[c].id].content = entry
        /\ link' = callers[c].id
        /\ UNCHANGED <<entry, scheduled, board, tracked, used>>
    BY <1>1, <1>6 DEF LinkEvent, At, Sees, Knows, WithoutLink
  <2>2. callers' \in [Callers -> Pass] /\ callers'[c].pc = "idle"
    BY <1>1, <1>6, CallerMoves DEF LinkEvent
  <2>3. MirrorTypes'
    BY <1>1, <1>2, <2>1, <2>2 DEF MirrorTypes
  <2>4. Sees(callers[c])' /\ Knows(callers[c])'
    BY <1>1, <2>1, <2>2 DEF Sees, Knows, WithLink, WithoutLink
  <2>5. ShowsList(callers[c])' /\ ShowsCard(callers[c])'
    BY <1>1, <2>1, <2>2 DEF ShowsList, ShowsCard, Painting, Live
  <2>6. QED
    BY <2>3, <2>4, <2>5, CallSteps
<1>7. QED
  BY <1>3, <1>4, <1>5, <1>6

LEMMA RemovalsKeep ==
  ASSUME NEW c \in Callers, LoneInv(c),
         CancelEvent(c) \/ DropRow(c) \/ RequestFails(c)
  PROVE  LoneInv(c)'
<1>1. /\ MirrorTypes /\ Sees(callers[c]) /\ Knows(callers[c])
      /\ ShowsList(callers[c]) /\ ShowsCard(callers[c])
  BY DEF LoneInv
<1>2. ASSUME CancelEvent(c) PROVE LoneInv(c)'
  <2>0. callers[c].pc = "cancel" /\ callers[c].id = link /\ link # 0
    BY <1>1, <1>2 DEF CancelEvent, At, Knows, WithLink
  <2>1. /\ callers[c].pc = "cancel" /\ link \in 1..Len(scheduled)
        /\ scheduled' = [scheduled EXCEPT ![link] = [scheduled[link] EXCEPT !.live = FALSE]]
        /\ link' = 0 /\ UNCHANGED <<entry, board, tracked, used>>
    <3>1. link \in 1..Len(scheduled)
      BY <1>1, <2>0 DEF MirrorTypes
    <3>2. QED
      BY <1>2, <2>0, <3>1 DEF CancelEvent
  <2>2. callers' \in [Callers -> Pass] /\ callers'[c].pc = "drop"
    BY <1>1, <1>2, CallerMoves DEF CancelEvent, Places
  <2>3. [scheduled[link] EXCEPT !.live = FALSE] \in Listings
    <3>1. scheduled[link] \in Listings
      BY <1>1, <2>1 DEF MirrorTypes
    <3>2. QED
      BY <3>1 DEF Listings
  <2>4. /\ scheduled' \in Seq(Listings) /\ Len(scheduled') = Len(scheduled)
        /\ \A id \in 1..Len(scheduled) :
             /\ id = link => ~scheduled'[id].live
             /\ id # link => scheduled'[id] = scheduled[id]
    BY <1>1, <2>1, <2>3 DEF MirrorTypes, Listings
  <2>5. MirrorTypes'
    <3>1. link' \in 0..Len(scheduled')
      BY <1>1, <2>1, <2>4 DEF MirrorTypes
    <3>2. QED
      BY <1>1, <2>1, <2>2, <2>4, <3>1 DEF MirrorTypes
  <2>6. Sees(callers[c])' /\ Knows(callers[c])'
    BY <1>1, <2>1, <2>2 DEF Sees, Knows, WithLink, WithoutLink
  <2>7. ShowsList(callers[c])' /\ ShowsCard(callers[c])'
    BY <1>1, <2>1, <2>2, <2>4 DEF ShowsList, ShowsCard, Painting, Live
  <2>8. QED
    BY <2>5, <2>6, <2>7, CallSteps
<1>3. ASSUME DropRow(c) PROVE LoneInv(c)'
  <2>1. /\ callers[c].pc = "drop" /\ entry' = Gone /\ link' = 0
        /\ Proceed(c, IF entry = Gone THEN "idle" ELSE "publish")
        /\ UNCHANGED <<scheduled, board, tracked, used>>
    BY <1>3 DEF DropRow, At
  <2>2. /\ callers' \in [Callers -> Pass]
        /\ callers'[c].pc \in {"idle", "publish"}
        /\ callers'[c].pc = "idle" => entry = Gone
    BY <1>1, <2>1, CallerMoves DEF Places
  <2>3. Gone \in Wordings
    BY DEF Wordings
  <2>4. MirrorTypes'
    BY <1>1, <2>1, <2>2, <2>3 DEF MirrorTypes
  <2>5. Sees(callers[c])' /\ Knows(callers[c])'
    BY <1>1, <2>1, <2>2 DEF Sees, Knows, WithLink, WithoutLink
  <2>6. ShowsList(callers[c])' /\ ShowsCard(callers[c])'
    BY <1>1, <2>1, <2>2 DEF ShowsList, ShowsCard, Painting, Live
  <2>7. QED
    BY <2>4, <2>5, <2>6, CallSteps
<1>4. ASSUME RequestFails(c) PROVE LoneInv(c)'
  <2>1. /\ Proceed(c, "drop") \/ End(c)
        /\ Trouble /\ UNCHANGED <<entry, link, scheduled, board, tracked>>
    BY <1>4 DEF RequestFails, AfterFailure
  <2>2. /\ callers' \in [Callers -> Pass] /\ callers'[c].pc \in {"idle", "drop"}
        /\ used' \in [writes : Nat, troubles : Nat, hands : Nat, together : BOOLEAN] /\ used'.troubles # 0
    BY <1>1, <2>1, CallerMoves DEF Places
  <2>3. MirrorTypes'
    BY <1>1, <2>1, <2>2 DEF MirrorTypes
  <2>4. Sees(callers[c])' /\ Knows(callers[c])'
    BY <1>1, <2>1, <2>2 DEF Sees, Knows, WithLink, WithoutLink
  <2>5. ShowsList(callers[c])' /\ ShowsCard(callers[c])'
    BY <2>2 DEF ShowsList, ShowsCard
  <2>6. QED
    BY <2>3, <2>4, <2>5, CallSteps
<1>5. QED
  BY <1>2, <1>3, <1>4

LEMMA MirrorWorldKeeps ==
  ASSUME NEW c \in Callers, LoneInv(c), World PROVE LoneInv(c)'
<1>1. /\ MirrorTypes /\ Sees(callers[c]) /\ Knows(callers[c])
      /\ ShowsList(callers[c]) /\ ShowsCard(callers[c])
  BY DEF LoneInv
<1>2. Len(scheduled) \in Nat /\ callers[c] \in Pass
  BY <1>1 DEF MirrorTypes
<1>3. ASSUME NEW k \in Contents, HandMakes(k) PROVE LoneInv(c)'
  <2> DEFINE fresh == [content |-> k, live |-> TRUE, by |-> "hand"]
  <2>1. scheduled' = Append(scheduled, fresh)
        /\ used' = [used EXCEPT !.hands = @ + 1]
        /\ UNCHANGED <<entry, link, board, tracked, callers>>
    BY <1>3 DEF HandMakes, Hand
  <2>2. fresh \in Listings
    BY DEF Listings, Wordings, Shown
  <2>3. /\ scheduled' \in Seq(Listings) /\ Len(scheduled') = Len(scheduled) + 1
        /\ \A id \in 1..Len(scheduled) : scheduled'[id] = scheduled[id]
        /\ scheduled'[Len(scheduled) + 1] = fresh
    BY <1>1, <2>1, <2>2 DEF MirrorTypes
  <2>4. /\ used' \in [writes : Nat, troubles : Nat, hands : Nat, together : BOOLEAN]
        /\ used'.troubles = used.troubles
    <3>1. used \in [writes : Nat, troubles : Nat, hands : Nat, together : BOOLEAN]
      BY <1>1 DEF MirrorTypes
    <3>2. QED
      BY <2>1, <3>1
  <2>5. link \in 0..Len(scheduled) /\ link \in 0..Len(scheduled')
    BY <1>1, <1>2, <2>3 DEF MirrorTypes
  <2>6. MirrorTypes'
    BY <1>1, <2>1, <2>3, <2>4, <2>5 DEF MirrorTypes
  <2>7. \A id \in 1..Len(scheduled') :
          id \in 1..Len(scheduled) \/ scheduled'[id].by = "hand"
    BY <1>2, <2>3
  <2>8. Sees(callers[c])' /\ Knows(callers[c])'
    <3>1. callers[c].pc = "link" =>
            callers[c].id \in 1..Len(scheduled') /\ scheduled'[callers[c].id].content = entry
      BY <1>1, <1>2, <2>3 DEF Knows
    <3>2. callers[c].pc = "create" =>
            \A id \in 1..Len(scheduled') :
              Live(id)' /\ scheduled'[id].content = entry => scheduled'[id].by = "hand"
      BY <1>1, <2>3, <2>7 DEF Knows, Live
    <3>3. QED
      BY <1>1, <2>1, <3>1, <3>2 DEF Sees, Knows
  <2>9. ShowsList(callers[c])'
    <3>1. SUFFICES ASSUME used.troubles = 0 PROVE ShowsList(callers[c])'
      BY <2>4 DEF ShowsList
    <3>2. link # 0 /\ Live(link)' => Live(link) /\ scheduled'[link] = scheduled[link]
      <4>1. link # 0 => link \in 1..Len(scheduled)
        BY <1>2, <2>5
      <4>2. QED
        BY <2>1, <2>3, <4>1 DEF Live
    <3>3. \A id \in 1..Len(scheduled') : Live(id)' /\ scheduled'[id].by = "bot" =>
            id \in 1..Len(scheduled) /\ Live(id) /\ scheduled[id].by = "bot"
      BY <2>3, <2>7, <1>2 DEF Live
    <3>4. QED
      BY <1>1, <2>1, <3>1, <3>2, <3>3 DEF ShowsList, Owing, Painting
  <2>10. ShowsCard(callers[c])'
    BY <1>1, <2>1, <2>4 DEF ShowsCard, Painting
  <2>11. QED
    BY <2>6, <2>8, <2>9, <2>10, CallSteps
<1>4. ASSUME NEW e \in 1..Len(scheduled), HandDeletes(e) PROVE LoneInv(c)'
  <2>1. /\ scheduled' = [scheduled EXCEPT ![e] = [scheduled[e] EXCEPT !.live = FALSE]]
        /\ used' = [used EXCEPT !.hands = @ + 1]
        /\ UNCHANGED <<entry, link, board, tracked, callers>>
    BY <1>4 DEF HandDeletes, Hand
  <2>2. [scheduled[e] EXCEPT !.live = FALSE] \in Listings
    <3>1. scheduled[e] \in Listings
      BY <1>1 DEF MirrorTypes
    <3>2. QED
      BY <3>1 DEF Listings
  <2>3. /\ scheduled' \in Seq(Listings) /\ Len(scheduled') = Len(scheduled)
        /\ \A id \in 1..Len(scheduled) :
             /\ scheduled'[id].live => scheduled[id].live
             /\ scheduled'[id].by = scheduled[id].by
             /\ scheduled'[id].content = scheduled[id].content
    BY <1>1, <2>1, <2>2 DEF MirrorTypes, Listings
  <2>4. /\ used' \in [writes : Nat, troubles : Nat, hands : Nat, together : BOOLEAN]
        /\ used'.troubles = used.troubles
    <3>1. used \in [writes : Nat, troubles : Nat, hands : Nat, together : BOOLEAN]
      BY <1>1 DEF MirrorTypes
    <3>2. used.hands + 1 \in Nat
      BY <3>1
    <3>3. QED
      BY <2>1, <3>1, <3>2
  <2>5. MirrorTypes'
    BY <1>1, <2>1, <2>3, <2>4 DEF MirrorTypes
  <2>6. Sees(callers[c])' /\ Knows(callers[c])'
    BY <1>1, <2>1, <2>3 DEF Sees, Knows, WithLink, WithoutLink, Live
  <2>7. ShowsList(callers[c])'
    <3>1. link # 0 => link \in 1..Len(scheduled)
      BY <1>1, <1>2 DEF MirrorTypes
    <3>2. QED
      BY <1>1, <2>1, <2>3, <2>4, <3>1 DEF ShowsList, Owing, Painting, Live
  <2>8. ShowsCard(callers[c])'
    BY <1>1, <2>1, <2>4 DEF ShowsCard, Painting
  <2>9. QED
    BY <2>5, <2>6, <2>7, <2>8, CallSteps
<1>5. ASSUME MirrorRestart PROVE LoneInv(c)'
  <2>1. /\ Trouble /\ UNCHANGED <<entry, link, scheduled, board, tracked>>
        /\ callers' = [d \in Callers |-> Idle]
    BY <1>5 DEF MirrorRestart
  <2>2. Idle \in Pass /\ Idle.pc = "idle"
    BY DEF Idle, Pass, Places, Wordings
  <2>3. /\ callers' \in [Callers -> Pass] /\ callers'[c].pc = "idle"
        /\ used' \in [writes : Nat, troubles : Nat, hands : Nat, together : BOOLEAN] /\ used'.troubles # 0
    BY <1>1, <2>1, <2>2, CallerMoves
  <2>4. MirrorTypes'
    BY <1>1, <2>1, <2>3 DEF MirrorTypes
  <2>5. Sees(callers[c])' /\ Knows(callers[c])'
    BY <1>1, <2>1, <2>3 DEF Sees, Knows, WithLink, WithoutLink
  <2>6. ShowsList(callers[c])' /\ ShowsCard(callers[c])'
    BY <2>3 DEF ShowsList, ShowsCard
  <2>7. QED
    BY <2>4, <2>5, <2>6, CallSteps
<1>6. QED
  BY <1>3, <1>4, <1>5 DEF World

LEMMA SyncingKeeps ==
  ASSUME NEW c \in Callers, LoneInv(c), Syncing(c) PROVE LoneInv(c)'
<1>1. CASE Ensure(c) \/ RefreshStart(c) \/ SyncStart(c) \/ RemoveStart(c)
  BY <1>1, LooksKeep
<1>2. CASE \E found \in BOOLEAN :
             RefreshFetched(c, found) \/ SyncFetched(c, found) \/ RemoveFetched(c, found)
  BY <1>2, FetchesKeep
<1>3. CASE EditEvent(c) \/ MatchEvent(c) \/ MintEvent(c) \/ LinkEvent(c)
  BY <1>3, EventsKeep
<1>4. CASE CancelEvent(c) \/ DropRow(c) \/ RequestFails(c)
  BY <1>4, RemovalsKeep
<1>5. QED
  BY <1>1, <1>2, <1>3, <1>4 DEF Syncing

LEMMA MirrorStutters ==
  ASSUME MirrorInv, UNCHANGED mirrorVars PROVE MirrorInv'
BY DEF MirrorInv, LoneInv, Single, MirrorTypes, Sees, Knows, ShowsList, ShowsCard, Owing,
       Painting, Live, mirrorVars

\* A step of one caller leaves the others where they are, and that two ran
\* together is not forgotten.
Stays(c) == \A d \in Callers \ {c} : callers'[d].pc = callers[d].pc

LEMMA OthersStay ==
  ASSUME MirrorTypes, NEW c \in Callers, MirrorCall(c) \/ Publishing(c) \/ Syncing(c)
  PROVE  Stays(c)
<1>1. callers \in [Callers -> Pass]
  BY DEF MirrorTypes
<1>2. \E r : callers' = [callers EXCEPT ![c] = r]
  <2>1. CASE MirrorCall(c)
    BY <2>1 DEF MirrorCall, UpdateEvent, SetTheme, DeleteEvent, SyncEvent, PublishAll, Begin
  <2>2. CASE Publishing(c)
    <3>1. CASE ReadRows(c) \/ SendCard(c)
      BY <1>1, <3>1 DEF ReadRows, SendCard
    <3>2. CASE EditCard(c) \/ TrackCard(c) \/ PublishFails(c)
      BY <3>2 DEF EditCard, TrackCard, PublishFails, Afterwards, End, Proceed
    <3>3. QED
      BY <2>2, <3>1, <3>2 DEF Publishing
  <2>3. CASE Syncing(c)
    <3>1. CASE Ensure(c) \/ RefreshStart(c) \/ SyncStart(c) \/ RemoveStart(c)
      BY <3>1 DEF Ensure, RefreshStart, SyncStart, RemoveStart, End, Proceed, Look
    <3>2. ASSUME NEW found \in BOOLEAN,
                 RefreshFetched(c, found) \/ SyncFetched(c, found) \/ RemoveFetched(c, found)
          PROVE  \E r : callers' = [callers EXCEPT ![c] = r]
      BY <3>2 DEF RefreshFetched, SyncFetched, RemoveFetched, End, Proceed
    <3>3. CASE MintEvent(c)
      BY <1>1, <3>3 DEF MintEvent
    <3>4. CASE EditEvent(c) \/ MatchEvent(c) \/ LinkEvent(c)
      BY <3>4 DEF EditEvent, MatchEvent, LinkEvent, End, Proceed
    <3>5. CASE CancelEvent(c) \/ DropRow(c) \/ RequestFails(c)
      BY <3>5 DEF CancelEvent, DropRow, RequestFails, AfterFailure, End, Proceed
    <3>6. QED
      BY <2>3, <3>1, <3>2, <3>3, <3>4, <3>5 DEF Syncing
  <2>4. QED
    BY <2>1, <2>2, <2>3
<1>3. QED
  BY <1>1, <1>2 DEF Stays

LEMMA BusyMoves ==
  ASSUME NEW c \in Callers, Publishing(c) \/ Syncing(c)
  PROVE  callers[c].pc # "idle"
BY DEF Publishing, ReadRows, EditCard, SendCard, TrackCard, PublishFails, Syncing, Ensure,
       RefreshStart, SyncStart, RemoveStart, RefreshFetched, SyncFetched, RemoveFetched,
       EditEvent, MatchEvent, MintEvent, LinkEvent, CancelEvent, DropRow, RequestFails, At

\* What holds of an idle caller holds of any other idle one.
LEMMA IdleAlike ==
  ASSUME NEW c \in Callers, NEW d \in Callers, LoneInv(c),
         callers[c].pc = "idle", callers[d].pc = "idle"
  PROVE  LoneInv(d)
BY DEF LoneInv, Sees, Knows, ShowsList, ShowsCard, Owing, Painting, WithLink, WithoutLink

LEMMA CallsKeep ==
  ASSUME NEW c \in Callers, LoneInv(c), Single(c), MirrorCall(c) \/ Publishing(c) \/ Syncing(c)
  PROVE  LoneInv(c)' /\ Single(c)'
<1>1. LoneInv(c)'
  BY WritesKeep, PublishingKeeps, SyncingKeeps
<1>2. Stays(c)
  BY OthersStay DEF LoneInv
<1>3. QED
  BY <1>1, <1>2 DEF Single, Stays

LEMMA TogetherLasts ==
  ASSUME used.together, [MirrorNext]_mirrorVars, UsedTypes
  PROVE  used'.together
<1>1. ASSUME NEW c \in Callers, MirrorCall(c) PROVE used'.together
  BY <1>1 DEF UsedTypes, MirrorCall, UpdateEvent, SetTheme, DeleteEvent, SyncEvent, PublishAll,
              Begin
<1>2. ASSUME NEW c \in Callers, Publishing(c) \/ Syncing(c) PROVE used'.together
  BY <1>2 DEF UsedTypes, Publishing, ReadRows, EditCard, SendCard, TrackCard, PublishFails,
              Syncing, Ensure, RefreshStart, SyncStart, RemoveStart, RefreshFetched,
              SyncFetched, RemoveFetched, Fetched, EditEvent, MatchEvent, MintEvent,
              LinkEvent, CancelEvent, DropRow, RequestFails, Trouble
<1>3. CASE World
  BY <1>3 DEF UsedTypes, World, HandMakes, HandDeletes, MirrorRestart, Hand, Trouble
<1>4. CASE UNCHANGED mirrorVars
  BY <1>4 DEF mirrorVars
<1>5. QED
  BY <1>1, <1>2, <1>3, <1>4 DEF MirrorNext

\* The counters keep their shape whoever runs.
LEMMA UsedKeeps ==
  ASSUME UsedTypes, [MirrorNext]_mirrorVars PROVE UsedTypes'
<1>1. ASSUME NEW c \in Callers, MirrorCall(c) PROVE UsedTypes'
  BY <1>1, BeginsAreCounted DEF MirrorCall, UpdateEvent, SetTheme, DeleteEvent, SyncEvent, PublishAll
<1>2. ASSUME NEW c \in Callers, Publishing(c) \/ Syncing(c) PROVE UsedTypes'
  <2>1. UNCHANGED used \/ Trouble
    BY <1>2 DEF Publishing, ReadRows, EditCard, SendCard, TrackCard, PublishFails,
                Syncing, Ensure, RefreshStart, SyncStart, RemoveStart, RefreshFetched,
                SyncFetched, RemoveFetched, Fetched, EditEvent, MatchEvent, MintEvent,
                LinkEvent, CancelEvent, DropRow, RequestFails
  <2>2. QED
    BY <2>1 DEF UsedTypes, Trouble
<1>3. CASE World
  <2>1. Hand \/ Trouble
    BY <1>3 DEF World, HandMakes, HandDeletes, MirrorRestart
  <2>2. QED
    BY <2>1 DEF UsedTypes, Hand, Trouble
<1>4. CASE UNCHANGED mirrorVars
  BY <1>4 DEF mirrorVars, UsedTypes
<1>5. QED
  BY <1>1, <1>2, <1>3, <1>4 DEF MirrorNext

LEMMA MirrorSteps ==
  ASSUME UsedTypes, MirrorInv, [MirrorNext]_mirrorVars PROVE MirrorInv'
<1>1. CASE used.together
  BY <1>1, TogetherLasts DEF MirrorInv
<1>2. CASE UNCHANGED mirrorVars
  BY <1>2, MirrorStutters
<1>3. CASE ~used.together /\ World
  <2>1. PICK c \in Callers : LoneInv(c) /\ Single(c)
    BY <1>3 DEF MirrorInv
  <2>2. LoneInv(c)'
    BY <1>3, <2>1, MirrorWorldKeeps
  <2>3. Single(c)'
    <3>1. UNCHANGED callers \/ callers' = [d \in Callers |-> Idle]
      BY <1>3 DEF World, HandMakes, HandDeletes, MirrorRestart
    <3>2. QED
      BY <2>1, <3>1 DEF Single, Idle
  <2>4. QED
    BY <2>2, <2>3 DEF MirrorInv
<1>4. ASSUME ~used.together, NEW d \in Callers, MirrorCall(d) \/ Publishing(d) \/ Syncing(d)
      PROVE  MirrorInv'
  <2>1. PICK c \in Callers : LoneInv(c) /\ Single(c)
    BY <1>4 DEF MirrorInv
  <2>2. CASE c = d
    BY <1>4, <2>1, <2>2, CallsKeep DEF MirrorInv
  <2>3. CASE c # d /\ callers[c].pc # "idle"
    <3>1. MirrorCall(d)
      BY <1>4, <2>1, <2>3, BusyMoves DEF Single
    <3>2. used'.together
      <4>1. PICK pc, then : Begin(d, pc, then)
        BY <3>1 DEF MirrorCall, UpdateEvent, SetTheme, DeleteEvent, SyncEvent, PublishAll
      <4>2. QED
        BY <2>3, <4>1 DEF Begin, At, UsedTypes
    <3>3. QED
      BY <3>2 DEF MirrorInv
  <2>4. CASE c # d /\ callers[c].pc = "idle"
    <3>1. callers[d].pc = "idle"
      BY <2>1, <2>4 DEF Single
    <3>2. LoneInv(d) /\ Single(d)
      BY <2>1, <2>4, <3>1, IdleAlike DEF Single
    <3>3. QED
      BY <1>4, <3>2, CallsKeep DEF MirrorInv
  <2>5. QED
    BY <2>2, <2>3, <2>4
<1>5. QED
  BY <1>1, <1>2, <1>3, <1>4 DEF MirrorNext

\* What a caller may rely on between its requests, and what is owed, for as long
\* as no other runs beside it, whichever they are.
THEOREM MirrorInvariant == MirrorSpec => []MirrorInv
<1>1. MirrorInit => UsedTypes /\ MirrorInv
  BY MirrorStarts DEF MirrorInit, UsedTypes
<1>2. UsedTypes /\ MirrorInv /\ [MirrorNext]_mirrorVars => UsedTypes' /\ MirrorInv'
  BY MirrorSteps, UsedKeeps
<1>3. QED
  BY <1>1, <1>2, PTL DEF MirrorSpec

LEMMA MirrorShows ==
  ASSUME MirrorInv PROVE MirrorCurrent /\ (~used.together => MintsNoSecond)
<1>1. SUFFICES ASSUME ~used.together PROVE MirrorCurrent /\ MintsNoSecond
  BY DEF MirrorCurrent
<1>2. PICK c \in Callers : LoneInv(c) /\ Single(c)
  BY <1>1 DEF MirrorInv
<1>3. /\ MirrorTypes /\ Sees(callers[c]) /\ Knows(callers[c])
      /\ ShowsList(callers[c]) /\ ShowsCard(callers[c])
  BY <1>2 DEF LoneInv
<1>4. MirrorCurrent
  <2>1. SUFFICES ASSUME callers[c].pc = "idle", used.troubles = 0 PROVE MirrorCurrent
    BY DEF MirrorCurrent, Quiet, At
  <2>2. ~Owing(callers[c]) /\ ~Painting(callers[c])
    BY <2>1 DEF Owing, Painting
  <2>3. QED
    BY <1>3, <2>1, <2>2 DEF MirrorCurrent, ShowsList, ShowsCard
<1>5. MintsNoSecond
  <2>1. SUFFICES ASSUME NEW d \in Callers, MintEvent(d), NEW id \in LiveWith(callers[d].seen)
                 PROVE  scheduled[id].by = "hand"
    BY DEF MintsNoSecond
  <2>2. callers[d].pc = "create"
    BY <2>1 DEF MintEvent, At
  <2>3. d = c
    BY <1>2, <2>2 DEF Single
  <2>4. QED
    BY <1>3, <2>1, <2>2, <2>3 DEF Sees, Knows, WithoutLink, LiveWith
<1>6. QED
  BY <1>4, <1>5

\* OneTrueList: for as long as no call begins beside another, however the tool
\* calls of any turns, failed requests, restarts and the hands of moderators
\* follow each other, the bot makes no second list for a session while its first
\* is live; and after calls in which nothing failed, the event and the card show
\* what the row says. Calls that do run together are the run calendar_two_lists.
THEOREM OneListPerSession == MirrorSpec => OneTrueList
<1>1. MirrorInv /\ MirrorInv' /\ [MirrorNext]_mirrorVars
        => [MirrorCurrent' /\ (~used.together => MintsNoSecond)]_mirrorVars
  <2>1. MirrorInv => (~used.together => MintsNoSecond)
    BY MirrorShows
  <2>2. MirrorInv' => MirrorCurrent'
    BY MirrorShows, PTL
  <2>3. QED
    BY <2>1, <2>2
<1>2. QED
  BY <1>1, MirrorInvariant, PTL DEF MirrorSpec, OneTrueList

-----------------------------------------------------------------------------
(* The cards of the months (MonthBoard).                                   *)

Keys == Months \cup {Feed}
Channeled == Outlets \cup {NoOutlet}
Posts == [outlet : Outlets, key : Keys, up : BOOLEAN]
Stages == {"idle", "connect", "edit", "send", "record", "prune"}
Facings == {"edit", "send", "record"}
PassStates ==
  [pc : Stages, to : Channeled, wanted : SUBSET Months, left : SUBSET Months, key : Keys,
   id : Nat, seen : {<<>>} \cup [Keys -> Nat], alone : BOOLEAN, turning : BOOLEAN]

BoardTypes ==
  /\ month \in Months /\ booked \subseteq Months /\ \A m \in booked : m > month
  /\ outlet \in Channeled
  /\ cards \in Seq(Posts)
  /\ published \in [Keys -> Nat]
  /\ passes \in [Runners -> PassStates]
  /\ settled \in BOOLEAN /\ strayed \in BOOLEAN

\* A message that was posted for the key.
Posted(k, id) == id \in 1..Len(cards) /\ cards[id].key = k

RowsPosted == \A k \in Keys : published[k] # 0 => Posted(k, published[k])

\* What a pass holds over its awaits.
Carries(p) ==
  /\ p.pc # "idle" => p.to \in Outlets
  /\ p.pc \in {"edit", "record"} => Posted(p.key, p.id) /\ cards[p.id].outlet = p.to
  /\ p.pc \in Facings => IF p.left = {} THEN p.key = Feed ELSE p.key = Min(p.left)
  /\ p.pc = "prune" =>
       p.left # {} /\ p.seen \in [Keys -> Nat] /\ \A m \in p.left : Posted(m, p.seen[m])

\* A pass that is alone runs alone.
Alone == \A r \in Runners : ~Still(r) /\ passes[r].alone => Still(Other(r))

\* While nothing was left behind there was one channel, and what a pass holds is
\* still tracked, or gone.
OneOutlet ==
  /\ \A id \in 1..Len(cards) : cards[id].outlet = outlet
  /\ \A r \in Runners : ~Still(r) => passes[r].to = outlet
Follows(p) ==
  /\ p.pc = "edit" =>
       published[p.key] \in {0, p.id} /\ (cards[p.id].up => published[p.key] = p.id)
  /\ p.pc \in {"send", "record"} /\ p.alone => published[p.key] = 0
  /\ p.pc = "prune" => \A m \in p.left : published[m] \in {0, p.seen[m]}
Tidy == ~strayed => OneOutlet /\ \A r \in Runners : Follows(passes[r])

\* How far a pass that is alone has come.
Shows(k, to) == published[k] # 0 /\ cards[published[k]].outlet = to
Advances(p) ==
  p.alone =>
    /\ p.pc \in Facings =>
         /\ p.left \subseteq p.wanted
         /\ \A m \in p.wanted \ p.left : Shows(m, p.to)
         /\ p.left = {} => \A m \in Months \ p.wanted : published[m] = 0
    /\ p.pc = "prune" =>
         /\ p.left \cap p.wanted = {}
         /\ \A m \in p.wanted : Shows(m, p.to)
         /\ \A m \in Months \ p.wanted : published[m] # 0 => m \in p.left

Settled ==
  settled =>
    /\ \A r \in Runners : Still(r)
    /\ \A k \in Keys : IF k \in Wanted \cup {Feed} THEN Shows(k, outlet) ELSE published[k] = 0

BoardInv ==
  /\ BoardTypes /\ RowsPosted /\ Alone /\ Tidy /\ NoStrays /\ Settled
  /\ \A r \in Runners : Carries(passes[r]) /\ Advances(passes[r])

LEMMA TwoRunners ==
  ASSUME NEW r \in Runners
  PROVE  /\ Other(r) \in Runners /\ Other(r) # r
         /\ \A s \in Runners : s = r \/ s = Other(r)
BY DEF Runners, Other

LEMMA LeastOf ==
  ASSUME NEW S \in SUBSET Nat, S # {}
  PROVE  Min(S) \in S /\ \A y \in S : Min(S) <= y
<1> DEFINE R == OpToRel(<, Nat)
<1>1. \A x, y \in Nat : y < x => <<y, x>> \in R
  BY DEF OpToRel
<1>2. IsWellFoundedOn(R, Nat)
  BY NatLessThanWellFounded
<1> HIDE DEF R
<1>3. PICK x \in S : \A y \in S : ~ (<<y, x>> \in R)
  BY <1>2, WFMin
<1>4. ASSUME NEW y \in S PROVE x <= y
  <2>1. x \in Nat /\ y \in Nat
    OBVIOUS
  <2>2. ~(y < x)
    BY <1>1, <1>3, <2>1
  <2>3. QED
    BY <2>1, <2>2
<1>5. QED
  BY <1>4 DEF Min

LEMMA FirstMonth == ASSUME NEW S \in SUBSET Months, S # {} PROVE Min(S) \in S
<1>1. S \in SUBSET Nat
  BY DEF Months
<1>2. QED
  BY <1>1, LeastOf

LEMMA BoardConstants ==
  /\ Feed \notin Months /\ Feed \in Keys /\ Months \subseteq Keys /\ Keys \subseteq Nat
  /\ LastMonth \in Nat /\ Templates \subseteq Months
  /\ NoOutlet \notin Outlets /\ EnvOutlet \in Channeled
BY BoardAssumption DEF Feed, Months, Keys, Channeled

\* Cards are posted and removed, never changed.
CardsStand ==
  /\ Len(cards) <= Len(cards')
  /\ \A id \in 1..Len(cards) : /\ cards'[id].outlet = cards[id].outlet
                               /\ cards'[id].key = cards[id].key
                               /\ cards'[id].up => cards[id].up

\* A row keeps its card, or loses one that is gone.
RowsStand ==
  \A k \in Keys :
    \/ published'[k] = published[k]
    \/ published'[k] = 0 /\ (published[k] # 0 => ~cards'[published[k]].up)

LEMMA PostedStays ==
  ASSUME CardsStand, cards \in Seq(Posts), cards' \in Seq(Posts)
  PROVE  \A k, id : Posted(k, id) =>
           Posted(k, id)' /\ cards'[id].outlet = cards[id].outlet /\ id \in Nat /\ id # 0
<1>1. Len(cards) \in Nat /\ Len(cards') \in Nat
  OBVIOUS
<1>2. QED
  BY <1>1 DEF Posted, CardsStand

LEMMA OthersCarry ==
  ASSUME NEW s \in Runners, passes'[s] = passes[s], Carries(passes[s]),
         CardsStand, cards \in Seq(Posts), cards' \in Seq(Posts)
  PROVE  Carries(passes[s])'
<1>1. \A k, id : Posted(k, id) =>
        Posted(k, id)' /\ cards'[id].outlet = cards[id].outlet
  BY PostedStays
<1>2. QED
  BY <1>1 DEF Carries, Facings

LEMMA OthersFollow ==
  ASSUME NEW s \in Runners, passes'[s] = passes[s], passes[s] \in PassStates,
         Carries(passes[s]), Follows(passes[s]), CardsStand, RowsStand,
         cards \in Seq(Posts), cards' \in Seq(Posts)
  PROVE  (passes[s].pc \in {"send", "record"} /\ passes[s].alone) \/ Follows(passes[s])'
<1> DEFINE p == passes[s]
<1>1. \A k, id : Posted(k, id) => id \in 1..Len(cards) /\ id # 0
  BY PostedStays DEF Posted
<1>2. ASSUME p.pc = "edit"
      PROVE  /\ published'[p.key] \in {0, p.id}
             /\ cards'[p.id].up => published'[p.key] = p.id
  <2>1. p.key \in Keys /\ p.id \in 1..Len(cards) /\ p.id # 0
    BY <1>1, <1>2 DEF Carries, PassStates
  <2>2. cards'[p.id].up => cards[p.id].up
    BY <2>1 DEF CardsStand
  <2>3. /\ published[p.key] \in {0, p.id}
        /\ cards[p.id].up => published[p.key] = p.id
    BY <1>2 DEF Follows
  <2>4. \/ published'[p.key] = published[p.key]
        \/ published'[p.key] = 0 /\ (published[p.key] # 0 => ~cards'[published[p.key]].up)
    BY <2>1 DEF RowsStand
  <2>5. QED
    BY <2>1, <2>2, <2>3, <2>4
<1>3. ASSUME p.pc = "prune", NEW m \in p.left
      PROVE  published'[m] \in {0, p.seen[m]}
  <2>1. m \in Keys
    BY BoardConstants DEF PassStates
  <2>2. published[m] \in {0, p.seen[m]}
    BY <1>3 DEF Follows
  <2>3. QED
    BY <2>1, <2>2 DEF RowsStand
<1>4. QED
  BY <1>2, <1>3 DEF Follows

\* A step of one runner, with what it must see to.
LEMMA RunnerSteps ==
  ASSUME BoardInv, NEW r \in Runners, ~Still(r), BoardTypes', RowsPosted', CardsStand,
         UNCHANGED outside, strayed => strayed',
         passes'[Other(r)] = passes[Other(r)],
         ~Still(r)' => passes'[r].to = passes[r].to /\ passes'[r].alone = passes[r].alone,
         Carries(passes[r])', Advances(passes[r])',
         ~strayed' => /\ Still(Other(r)) \/ RowsStand
                      /\ \A id \in 1..Len(cards') : cards'[id].outlet = outlet
                      /\ Follows(passes[r])',
         NoStrays', Settled'
  PROVE  BoardInv'
<1> DEFINE s == Other(r)
<1>1. s \in Runners /\ s # r /\ \A x \in Runners : x = r \/ x = s
  BY TwoRunners
<1>2. /\ cards \in Seq(Posts) /\ cards' \in Seq(Posts)
      /\ passes[s] \in PassStates /\ Carries(passes[s])
  BY <1>1 DEF BoardInv, BoardTypes
<1>3. Other(s) = r
  BY <1>1, TwoRunners
<1>4. ~(~Still(s) /\ passes[s].alone)
  BY <1>1, <1>3 DEF BoardInv, Alone
<1>5. Alone'
  <2>1. ~Still(r)' /\ passes'[r].alone => Still(s)'
    BY <1>1 DEF BoardInv, Alone, Still
  <2>2. ~(~Still(s)' /\ passes'[s].alone)
    BY <1>4 DEF Still
  <2>3. QED
    BY <1>1, <2>1, <2>2 DEF Alone
<1>6. Carries(passes[s])'
  BY <1>1, <1>2, OthersCarry
<1>7. Advances(passes[s])'
  BY <1>4 DEF Advances, Still, Facings
<1>8. Tidy'
  <2>1. SUFFICES ASSUME ~strayed'
                 PROVE  OneOutlet' /\ Follows(passes[r])' /\ Follows(passes[s])'
    BY <1>1 DEF Tidy
  <2>2. ~strayed
    BY <2>1
  <2>3. OneOutlet /\ Follows(passes[s])
    BY <1>1, <2>2 DEF BoardInv, Tidy
  <2>4. OneOutlet'
    BY <1>1, <2>1, <2>3 DEF OneOutlet, outside, Still
  <2>5. Follows(passes[s])'
    <3>1. CASE Still(s)
      BY <3>1 DEF Follows, Still
    <3>2. CASE ~Still(s)
      BY <1>1, <1>2, <1>4, <2>1, <2>3, <3>2, OthersFollow
    <3>3. QED
      BY <3>1, <3>2
  <2>6. QED
    BY <2>1, <2>4, <2>5
<1>9. QED
  BY <1>1, <1>5, <1>6, <1>7, <1>8 DEF BoardInv

-----------------------------------------------------------------------------
(* What a pass turns to next.                                              *)

LEMMA FacingStands ==
  ASSUME NEW p \in PassStates, NEW k \in Keys, NEW list \in [Keys -> Nat],
         NEW q, q = Facing(p, k, list)
  PROVE  /\ q \in PassStates /\ q.pc \in {"edit", "send"} /\ q.key = k
         /\ q.to = p.to /\ q.wanted = p.wanted /\ q.left = p.left /\ q.alone = p.alone
         /\ q.pc = "edit" => q.id = list[k] /\ list[k] # 0 /\ cards[list[k]].outlet = p.to
         /\ q.pc = "send" => list[k] = 0 \/ cards[list[k]].outlet # p.to
<1>1. list[k] \in Nat
  OBVIOUS
<1> DEFINE known == list[k] # 0 /\ cards[list[k]].outlet = p.to
<1>2. q = [p EXCEPT !.pc = IF known THEN "edit" ELSE "send", !.key = k,
                    !.id = IF known THEN list[k] ELSE 0]
  BY DEF Facing
<1>3. CASE known
  BY <1>1, <1>2, <1>3 DEF PassStates, Stages
<1>4. CASE ~known
  <2>1. q = [p EXCEPT !.pc = "send", !.key = k, !.id = 0]
    BY <1>2, <1>4
  <2>2. list[k] = 0 \/ cards[list[k]].outlet # p.to
    BY <1>4
  <2> HIDE DEF known
  <2>3. q \in PassStates
    <3>1. "send" \in Stages /\ 0 \in Nat
      BY DEF Stages
    <3>2. QED
      BY <2>1, <3>1 DEF PassStates
  <2>4. /\ q.pc = "send" /\ q.key = k /\ q.to = p.to /\ q.wanted = p.wanted
        /\ q.left = p.left /\ q.alone = p.alone
    BY <2>1 DEF PassStates
  <2>5. QED
    BY <2>2, <2>3, <2>4
<1>5. QED
  BY <1>3, <1>4

LEMMA OnwardStands ==
  ASSUME NEW p \in PassStates, NEW list \in [Keys -> Nat],
         NEW q, q = Onward(p, list)
  PROVE  /\ q \in PassStates /\ q.pc \in {"edit", "send", "prune"}
         /\ q.to = p.to /\ q.wanted = p.wanted /\ q.alone = p.alone
         /\ q.pc = "edit" =>
              q.id = list[q.key] /\ list[q.key] # 0 /\ cards[list[q.key]].outlet = p.to
         /\ q.pc = "send" => list[q.key] = 0 \/ cards[list[q.key]].outlet # p.to
         /\ q.pc \in {"edit", "send"} =>
              /\ q.left = p.left
              /\ p.left # {} => q.key = Min(p.left)
              /\ p.left = {} => q.key = Feed /\ Unwanted(p, list) = {}
         /\ q.pc = "prune" =>
              /\ p.left = {} /\ q.left = Unwanted(p, list) /\ q.left # {} /\ q.seen = list
<1>1. CASE p.left # {}
  <2>1. Min(p.left) \in Keys
    BY <1>1, FirstMonth, BoardConstants DEF PassStates
  <2>2. q = Facing(p, Min(p.left), list)
    BY <1>1 DEF Onward
  <2>3. QED
    BY <1>1, <2>1, <2>2, FacingStands
<1>2. CASE p.left = {} /\ Unwanted(p, list) = {}
  <2>1. q = Facing(p, Feed, list)
    BY <1>2 DEF Onward
  <2>2. QED
    BY <1>2, <2>1, FacingStands, BoardConstants
<1>3. CASE p.left = {} /\ Unwanted(p, list) # {}
  <2>1. q = [p EXCEPT !.pc = "prune", !.left = Unwanted(p, list),
                      !.key = Feed, !.id = 0, !.seen = list]
    BY <1>3 DEF Onward
  <2>2. Unwanted(p, list) \in SUBSET Months
    BY DEF Unwanted
  <2>3. Feed \in Keys
    BY BoardConstants
  <2>4. q \in PassStates
    <3>1. p \in PassStates /\ "prune" \in Stages /\ list \in {<<>>} \cup [Keys -> Nat] /\ 0 \in Nat
      BY DEF Stages
    <3>2. QED
      BY <2>1, <2>2, <2>3, <3>1 DEF PassStates
  <2>5. /\ q.pc = "prune" /\ q.to = p.to /\ q.wanted = p.wanted /\ q.alone = p.alone
        /\ q.left = Unwanted(p, list) /\ q.seen = list
    BY <2>1 DEF PassStates
  <2>6. QED
    BY <1>3, <2>4, <2>5
<1>4. QED
  BY <1>1, <1>2, <1>3

\* What it turns to is as it should be.
LEMMA OnwardKeeps ==
  ASSUME NEW p \in PassStates, p.to \in Outlets,
         cards \in Seq(Posts), cards' = cards,
         published' \in [Keys -> Nat], RowsPosted',
         p.alone => p.left \subseteq p.wanted /\ \A m \in p.wanted \ p.left : Shows(m, p.to)',
         NEW r \in Runners, passes'[r] = Onward(p, published')
  PROVE  /\ passes'[r] \in PassStates /\ passes'[r].pc \in {"edit", "send", "prune"}
         /\ passes'[r].to = p.to /\ passes'[r].alone = p.alone
         /\ Carries(passes[r])' /\ Advances(passes[r])'
         /\ (\A id \in 1..Len(cards) : cards[id].outlet = p.to) => Follows(passes[r])'
<1>p. PICK q, list : q = passes'[r] /\ list = published'
  OBVIOUS
<1>1. list \in [Keys -> Nat] /\ q = Onward(p, list)
  BY <1>p
<1>2. /\ q \in PassStates /\ q.pc \in {"edit", "send", "prune"}
      /\ q.to = p.to /\ q.wanted = p.wanted /\ q.alone = p.alone
  BY <1>1, OnwardStands
<1>3. q.pc = "edit" =>
        q.id = list[q.key] /\ list[q.key] # 0 /\ cards[list[q.key]].outlet = p.to
  BY <1>1, OnwardStands
<1>4. q.pc = "send" => list[q.key] = 0 \/ cards[list[q.key]].outlet # p.to
  BY <1>1, OnwardStands
<1>5. q.pc \in {"edit", "send"} =>
        /\ q.left = p.left
        /\ p.left # {} => q.key = Min(p.left)
        /\ p.left = {} => q.key = Feed /\ Unwanted(p, list) = {}
  BY <1>1, OnwardStands
<1>6. q.pc = "prune" =>
        /\ p.left = {} /\ q.left = Unwanted(p, list) /\ q.left # {} /\ q.seen = list
  BY <1>1, OnwardStands
<1>7. q.key \in Keys /\ q.left \subseteq Months /\ Months \subseteq Keys
  BY <1>2, BoardConstants DEF PassStates
<1>8. \A k \in Keys : list[k] # 0 => list[k] \in 1..Len(cards) /\ cards[list[k]].key = k
  BY <1>p DEF RowsPosted, Posted
<1>9. Unwanted(p, list) = {m \in Months \ p.wanted : list[m] # 0}
  BY DEF Unwanted
<1>10. Carries(passes[r])'
  <2>1. q.pc = "edit" => Posted(q.key, q.id)' /\ cards'[q.id].outlet = q.to
    BY <1>2, <1>3, <1>7, <1>8 DEF Posted
  <2>2. q.pc = "prune" =>
          q.left # {} /\ q.seen \in [Keys -> Nat] /\ \A m \in q.left : Posted(m, q.seen[m])'
    BY <1>1, <1>6, <1>7, <1>8, <1>9 DEF Posted
  <2>3. q.pc \in {"edit", "send"} => IF q.left = {} THEN q.key = Feed ELSE q.key = Min(q.left)
    BY <1>5
  <2>4. QED
    BY <1>p, <1>2, <2>1, <2>2, <2>3 DEF Carries, Facings
<1>11. Advances(passes[r])'
  <2>1. SUFFICES ASSUME p.alone
                 PROVE  Advances(passes[r])'
    BY <1>p, <1>2 DEF Advances
  <2>2. p.left \subseteq p.wanted /\ \A m \in p.wanted \ p.left : Shows(m, p.to)'
    BY <2>1
  <2>3. q.pc \in {"edit", "send"} =>
          /\ q.left \subseteq q.wanted
          /\ \A m \in q.wanted \ q.left : Shows(m, q.to)'
          /\ q.left = {} => \A m \in Months \ q.wanted : list[m] = 0
    BY <1>2, <1>5, <1>9, <2>2
  <2>4. q.pc = "prune" =>
          /\ q.left \cap q.wanted = {}
          /\ \A m \in q.wanted : Shows(m, q.to)'
          /\ \A m \in Months \ q.wanted : list[m] # 0 => m \in q.left
    BY <1>2, <1>6, <1>9, <2>2
  <2>5. QED
    BY <1>p, <1>2, <2>3, <2>4 DEF Advances, Facings
<1>12. ASSUME \A id \in 1..Len(cards) : cards[id].outlet = p.to
       PROVE  Follows(passes[r])'
  <2>1. q.pc = "send" => list[q.key] = 0
    BY <1>4, <1>7, <1>8, <1>12
  <2>2. q.pc = "edit" => list[q.key] = q.id
    BY <1>3
  <2>3. q.pc = "prune" => \A m \in q.left : list[m] = q.seen[m]
    BY <1>6
  <2>4. QED
    BY <1>p, <1>2, <2>1, <2>2, <2>3 DEF Follows
<1>13. QED
  BY <1>p, <1>2, <1>10, <1>11, <1>12

-----------------------------------------------------------------------------
(* The steps of a pass.                                                    *)

\* What is known of a pass that takes a step.
LEMMA OnePass ==
  ASSUME BoardInv, NEW r \in Runners
  PROVE  /\ passes \in [Runners -> PassStates] /\ passes[r] \in PassStates
         /\ Other(r) \in Runners /\ Other(r) # r
         /\ cards \in Seq(Posts) /\ published \in [Keys -> Nat] /\ RowsPosted
         /\ Carries(passes[r]) /\ Advances(passes[r])
         /\ ~Still(r) => ~settled /\ passes[r].to \in Outlets
         /\ ~Still(r) /\ passes[r].alone => Still(Other(r))
         /\ ~strayed => /\ OneOutlet /\ Follows(passes[r]) /\ Follows(passes[Other(r)])
                        /\ ~Still(r) => \A id \in 1..Len(cards) : cards[id].outlet = passes[r].to
<1>1. Other(r) \in Runners /\ Other(r) # r
  BY TwoRunners
<1>2. passes \in [Runners -> PassStates] /\ passes[r] \in PassStates
  BY DEF BoardInv, BoardTypes
<1>3. cards \in Seq(Posts) /\ published \in [Keys -> Nat]
  BY DEF BoardInv, BoardTypes
<1>4. Carries(passes[r]) /\ Advances(passes[r]) /\ RowsPosted
  BY DEF BoardInv
<1>5. ~Still(r) => ~settled /\ passes[r].to \in Outlets
  BY <1>4 DEF BoardInv, Settled, Carries, Still
<1>6. ~Still(r) /\ passes[r].alone => Still(Other(r))
  BY DEF BoardInv, Alone
<1>7. ~strayed => OneOutlet /\ Follows(passes[r]) /\ Follows(passes[Other(r)])
  BY <1>1 DEF BoardInv, Tidy
<1>8. ~strayed /\ ~Still(r) => \A id \in 1..Len(cards) : cards[id].outlet = passes[r].to
  BY <1>7 DEF OneOutlet
<1>9. QED
  BY <1>1, <1>2, <1>3, <1>4, <1>5, <1>6, <1>7, <1>8

LEMMA WantedMonths == ASSUME BoardTypes PROVE Wanted \in SUBSET Months /\ Wanted \subseteq Keys
BY BoardConstants DEF Wanted, BoardTypes

\* The types after a step of a pass.
LEMMA PassTypes ==
  ASSUME BoardTypes, NEW r \in Runners, UNCHANGED outside,
         cards' \in Seq(Posts), published' \in [Keys -> Nat],
         NEW p \in PassStates, Moves(r, p), settled' \in BOOLEAN, strayed' \in BOOLEAN
  PROVE  BoardTypes' /\ passes'[r] = p /\ passes'[Other(r)] = passes[Other(r)]
<1>1. passes' \in [Runners -> PassStates] /\ passes'[r] = p /\ passes'[Other(r)] = passes[Other(r)]
  BY TwoRunners DEF Moves, BoardTypes
<1>2. QED
  BY <1>1 DEF BoardTypes, outside

LEMMA NoPassState ==
  /\ NoPass \in PassStates /\ NoPass.pc = "idle" /\ NoPass.to = NoOutlet /\ NoPass.alone = TRUE
<1>1. "idle" \in Stages /\ NoOutlet \in Channeled /\ Feed \in Keys /\ 0 \in Nat /\ {} \in SUBSET Months
  BY BoardConstants DEF Stages, Channeled
<1>2. <<>> \in {<<>>} \cup [Keys -> Nat]
  OBVIOUS
<1>3. QED
  BY <1>1, <1>2 DEF NoPass, PassStates

\* A pass at the next of its keys, or at its end.
LEMMA StandingKeeps ==
  ASSUME BoardInv, NEW r \in Runners, ~Still(r), UNCHANGED <<outside, cards>>,
         NEW q \in PassStates, q.to = passes[r].to, q.alone = passes[r].alone,
         Moves(r, Onward(q, published')), RowsPosted', published' \in [Keys -> Nat],
         q.alone => q.left \subseteq q.wanted /\ \A m \in q.wanted \ q.left : Shows(m, q.to)',
         settled' = settled, strayed' \in BOOLEAN, strayed => strayed',
         ~strayed' => (Still(Other(r)) \/ RowsStand) /\ NoStrays'
  PROVE  BoardInv'
<1>1. /\ cards \in Seq(Posts) /\ ~settled /\ passes[r].to \in Outlets
      /\ ~strayed => \A id \in 1..Len(cards) : cards[id].outlet = passes[r].to
  BY OnePass
<1>2. Onward(q, published') \in PassStates
  BY OnwardStands
<1>3. BoardTypes' /\ passes'[r] = Onward(q, published') /\ passes'[Other(r)] = passes[Other(r)]
  BY <1>1, <1>2, PassTypes DEF BoardInv, BoardTypes
<1>4. /\ passes'[r].to = q.to /\ passes'[r].alone = q.alone
      /\ Carries(passes[r])' /\ Advances(passes[r])'
      /\ (\A id \in 1..Len(cards) : cards[id].outlet = q.to) => Follows(passes[r])'
  BY <1>1, <1>3, OnwardKeeps
<1>5. CardsStand
  BY <1>1 DEF CardsStand
<1>6. NoStrays' /\ Settled'
  BY <1>1 DEF NoStrays, Settled
<1>7. ~strayed' => \A id \in 1..Len(cards') : cards'[id].outlet = outlet
  BY DEF BoardInv, Tidy, OneOutlet
<1>8. QED
  BY <1>1, <1>3, <1>4, <1>5, <1>6, <1>7, RunnerSteps

LEMMA ConnectKeeps == ASSUME BoardInv, NEW r \in Runners, Connect(r) PROVE BoardInv'
<1>1. /\ passes[r] \in PassStates /\ ~Still(r) /\ Wanted \in SUBSET Months
      /\ published \in [Keys -> Nat] /\ RowsPosted /\ cards \in Seq(Posts)
  BY OnePass, WantedMonths DEF Connect, Standing, Still, BoardInv
<1>2. PICK q : q = [passes[r] EXCEPT !.wanted = Wanted, !.left = Wanted]
  OBVIOUS
<1>3. /\ q \in PassStates /\ q.to = passes[r].to /\ q.alone = passes[r].alone
      /\ q.left = q.wanted
  BY <1>1, <1>2 DEF PassStates
<1>4. /\ UNCHANGED <<outside, cards, published, settled, strayed>>
      /\ Moves(r, Onward(q, published'))
  BY <1>2 DEF Connect
<1>5. RowsPosted' /\ RowsStand
  BY <1>1, <1>4 DEF RowsPosted, Posted, RowsStand
<1>6. NoStrays'
  <2>1. \A x \in Runners : \A id : Standing(x, "record") /\ passes[x].id = id =>
          (Standing(x, "record") /\ passes[x].id = id)'
    BY <1>4, TwoRunners DEF Standing, Connect, Moves, BoardInv, BoardTypes
  <2>2. QED
    BY <1>4, <2>1 DEF NoStrays, BoardInv
<1>7. QED
  BY <1>1, <1>3, <1>4, <1>5, <1>6, StandingKeeps DEF BoardInv, BoardTypes

\* A key is brought up to date: while nothing is left behind, a row either stays
\* or is written by a pass that is alone.
LEMMA BroughtKeeps ==
  ASSUME BoardInv, NEW r \in Runners, passes[r].pc \in {"edit", "record"},
         Brought(r, passes[r].id), UNCHANGED <<outside, cards>>,
         strayed' \in BOOLEAN, strayed => strayed',
         ~strayed' => \/ passes[r].pc = "edit" /\ cards[passes[r].id].up
                      \/ passes[r].pc = "record" /\ passes[r].alone
  PROVE  BoardInv'
<1>p. PICK p : p = passes[r]
  OBVIOUS
<1>1. /\ passes \in [Runners -> PassStates] /\ p \in PassStates
      /\ Other(r) \in Runners /\ Other(r) # r
      /\ cards \in Seq(Posts) /\ published \in [Keys -> Nat] /\ RowsPosted
      /\ Carries(passes[r]) /\ Advances(passes[r])
      /\ ~Still(r) /\ ~settled /\ p.to \in Outlets
      /\ p.alone => Still(Other(r))
      /\ ~strayed => OneOutlet /\ Follows(passes[r])
  BY <1>p, OnePass DEF Still
<1>2. /\ p.key \in Keys /\ p.id \in 1..Len(cards) /\ p.id \in Nat /\ p.id # 0
      /\ cards[p.id].key = p.key /\ cards[p.id].outlet = p.to
      /\ IF p.left = {} THEN p.key = Feed ELSE p.key = Min(p.left)
  BY <1>p, <1>1 DEF Carries, Posted, Facings, PassStates
<1>3. published' = [published EXCEPT ![p.key] = p.id] /\ published' \in [Keys -> Nat]
  BY <1>p, <1>1, <1>2 DEF Brought
<1>4. RowsPosted'
  <2>1. \A k \in Keys : published'[k] = IF k = p.key THEN p.id ELSE published[k]
    BY <1>1, <1>2, <1>3
  <2>2. QED
    BY <1>1, <1>2, <2>1 DEF RowsPosted, Posted
<1>5. ~strayed' => \/ p.pc = "edit" /\ cards[p.id].up /\ published' = published
                   \/ p.pc = "record" /\ p.alone /\ published[p.key] = 0
  <2>1. ASSUME ~strayed', p.pc = "edit", cards[p.id].up PROVE published' = published
    <3>1. published[p.key] = p.id
      BY <1>p, <1>1, <2>1 DEF Follows
    <3>2. QED
      BY <1>1, <1>2, <1>3, <3>1
  <2>2. ASSUME ~strayed', p.pc = "record", p.alone PROVE published[p.key] = 0
    BY <1>p, <1>1, <2>2 DEF Follows
  <2>3. SUFFICES ASSUME ~strayed'
                 PROVE  \/ p.pc = "edit" /\ cards[p.id].up /\ published' = published
                        \/ p.pc = "record" /\ p.alone /\ published[p.key] = 0
    OBVIOUS
  <2>4. \/ p.pc = "edit" /\ cards[p.id].up
        \/ p.pc = "record" /\ p.alone
    BY <1>p, <2>3
  <2>5. QED
    BY <2>1, <2>2, <2>3, <2>4
<1>6. ~strayed' => Still(Other(r)) \/ RowsStand
  BY <1>1, <1>5 DEF RowsStand
<1>7. ASSUME \A x \in Runners : x # r => passes'[x] = passes[x]
      PROVE  NoStrays'
  <2>1. SUFFICES ASSUME NEW id \in 1..Len(cards), cards[id].up, ~strayed'
                 PROVE  \/ published'[cards[id].key] = id
                        \/ \E x \in Runners : passes'[x].pc = "record" /\ passes'[x].id = id
    BY DEF NoStrays, Standing
  <2>2. \/ published[cards[id].key] = id
        \/ \E x \in Runners : passes[x].pc = "record" /\ passes[x].id = id
    BY <2>1 DEF BoardInv, NoStrays, Standing
  <2>3. cards[id].key \in Keys /\ id # 0
    <3>1. cards[id] \in Posts /\ id # 0
      BY <1>1
    <3>2. QED
      BY <3>1 DEF Posts
  <2>4. CASE published[cards[id].key] = id
    BY <1>1, <1>2, <1>3, <1>5, <2>1, <2>3, <2>4
  <2>5. CASE passes[r].pc = "record" /\ passes[r].id = id
    BY <1>p, <1>1, <1>2, <1>3, <2>5
  <2>6. CASE \E x \in Runners : x # r /\ passes[x].pc = "record" /\ passes[x].id = id
    BY <1>7, <2>6
  <2>7. QED
    BY <2>2, <2>4, <2>5, <2>6
<1>8. ASSUME NEW k \in Keys, k = p.key \/ Shows(k, p.to)
      PROVE  Shows(k, p.to)'
  BY <1>1, <1>2, <1>3, <1>8 DEF Shows
<1>9. CASE p.key # Feed
  <2>1. p.left # {} /\ p.key = Min(p.left)
    BY <1>2, <1>9
  <2>2. PICK q : q = [p EXCEPT !.left = @ \ {p.key}]
    OBVIOUS
  <2>3. /\ q \in PassStates /\ q.to = p.to /\ q.alone = p.alone /\ q.wanted = p.wanted
        /\ q.left = p.left \ {p.key} /\ q.wanted \subseteq Months
    BY <1>1, <2>2 DEF PassStates
  <2>4. Moves(r, Onward(q, published')) /\ settled' = settled
    BY <1>p, <1>3, <1>9, <2>2 DEF Brought
  <2>5. q.alone => q.left \subseteq q.wanted /\ \A m \in q.wanted \ q.left : Shows(m, q.to)'
    <3>1. SUFFICES ASSUME p.alone
                   PROVE  q.left \subseteq q.wanted /\ \A m \in q.wanted \ q.left : Shows(m, p.to)'
      BY <2>3
    <3>2. p.left \subseteq p.wanted /\ \A m \in p.wanted \ p.left : Shows(m, p.to)
      BY <1>p, <1>1, <3>1 DEF Advances, Facings
    <3>3. \A m \in q.wanted \ q.left : m \in Keys /\ (m = p.key \/ Shows(m, p.to))
      BY <2>3, <3>2, BoardConstants
    <3>4. QED
      BY <1>8, <2>3, <3>2, <3>3
  <2>6. \A x \in Runners : x # r => passes'[x] = passes[x]
    BY <1>1, <2>4 DEF Moves
  <2>7. QED
    BY <1>p, <1>1, <1>3, <1>4, <1>6, <1>7, <2>3, <2>4, <2>5, <2>6, StandingKeeps
<1>10. CASE p.key = Feed
  <2>1. p.left = {}
    BY <1>1, <1>2, <1>10, FirstMonth, BoardConstants DEF PassStates
  <2>2. Moves(r, NoPass) /\ settled' = (p.alone /\ p.to = outlet /\ p.wanted = Wanted)
    BY <1>p, <1>10 DEF Brought
  <2>3. NoPass \in PassStates /\ NoPass.pc = "idle"
    BY NoPassState
  <2>4. BoardTypes' /\ passes'[r] = NoPass /\ passes'[Other(r)] = passes[Other(r)]
    BY <1>1, <1>3, <2>2, <2>3, PassTypes DEF BoardInv
  <2>5. Carries(passes[r])' /\ Advances(passes[r])' /\ Follows(passes[r])' /\ Still(r)'
    BY <2>3, <2>4 DEF Carries, Advances, Follows, Facings, Still
  <2>6. Settled'
    <3>1. SUFFICES ASSUME p.alone, p.to = outlet, p.wanted = Wanted
                   PROVE  /\ \A x \in Runners : Still(x)'
                          /\ \A k \in Keys : IF k \in Wanted \cup {Feed} THEN Shows(k, outlet)'
                                            ELSE published'[k] = 0
      BY <2>2 DEF Settled, outside, Wanted
    <3>2. \A x \in Runners : Still(x)'
      BY <1>1, <2>4, <2>5, <3>1, TwoRunners DEF Still
    <3>3. ASSUME NEW k \in Wanted \cup {Feed} PROVE k \in Keys /\ Shows(k, outlet)'
      <4>1. k \in Keys /\ (k = p.key \/ Shows(k, p.to))
        BY <1>p, <1>1, <1>10, <2>1, <3>1, <3>3, WantedMonths, BoardConstants DEF Advances, Facings, BoardInv
      <4>2. Shows(k, p.to)'
        BY <1>8, <4>1
      <4>3. QED
        BY <3>1, <4>1, <4>2 DEF outside, Shows
    <3>4. ASSUME NEW k \in Keys, k \notin Wanted \cup {Feed} PROVE published'[k] = 0
      <4>1. k \in Months \ p.wanted /\ k # p.key
        BY <1>10, <3>1, <3>4 DEF Keys
      <4>2. published[k] = 0
        BY <1>p, <1>1, <2>1, <3>1, <4>1 DEF Advances, Facings
      <4>3. QED
        BY <1>1, <1>3, <4>1, <4>2
    <3>5. QED
      BY <3>2, <3>3, <3>4
  <2>7. NoStrays'
    BY <1>1, <1>7, <2>4, TwoRunners
  <2>8. CardsStand
    BY <1>1 DEF CardsStand
  <2>9. ~strayed' => \A id \in 1..Len(cards') : cards'[id].outlet = outlet
    BY <1>1 DEF OneOutlet
  <2>10. QED
    BY <1>1, <1>4, <1>6, <2>4, <2>5, <2>6, <2>7, <2>8, <2>9, RunnerSteps DEF BoardInv
<1>11. QED
  BY <1>9, <1>10

LEMMA EditKeeps == ASSUME BoardInv, NEW r \in Runners, EditCardInPlace(r) PROVE BoardInv'
<1>1. strayed' \in BOOLEAN /\ (strayed => strayed')
  BY DEF EditCardInPlace, BoardInv, BoardTypes
<1>2. QED
  BY <1>1, BroughtKeeps DEF EditCardInPlace, Standing

LEMMA RecordKeeps == ASSUME BoardInv, NEW r \in Runners, RecordCard(r) PROVE BoardInv'
<1>1. passes[r] \in PassStates
  BY OnePass
<1>2. strayed' \in BOOLEAN /\ (strayed => strayed') /\ (~strayed' => passes[r].alone)
  BY <1>1 DEF RecordCard, BoardInv, BoardTypes, PassStates
<1>3. QED
  BY <1>2, BroughtKeeps DEF RecordCard, Standing

\* A step that leaves the rows it does not name: no card is left behind if the
\* one a row forgets is gone.
LEMMA ForgottenCard ==
  ASSUME BoardInv, NEW r \in Runners, ~Still(r), NEW k \in Keys, NEW gone,
         passes[r].pc # "record", published[k] \in {0, gone}, \A id : id = gone => ~cards'[id].up,
         published' = [published EXCEPT ![k] = 0], CardsStand, Len(cards') = Len(cards),
         cards' \in Seq(Posts), ~strayed, \A x \in Runners : x # r => passes'[x] = passes[x]
  PROVE  RowsStand /\ NoStrays'
<1>1. cards \in Seq(Posts) /\ published \in [Keys -> Nat]
  BY OnePass
<1>2. RowsStand
  BY <1>1 DEF RowsStand
<1>3. ASSUME NEW id \in 1..Len(cards'), cards'[id].up
      PROVE  \/ published'[cards'[id].key] = id
             \/ \E x \in Runners : passes'[x].pc = "record" /\ passes'[x].id = id
  <2>1. id \in 1..Len(cards) /\ cards[id].up /\ cards'[id].key = cards[id].key
    BY <1>3 DEF CardsStand
  <2>2. \/ published[cards[id].key] = id
        \/ \E x \in Runners : passes[x].pc = "record" /\ passes[x].id = id
    BY <2>1 DEF BoardInv, NoStrays, Standing
  <2>3. cards[id].key \in Keys /\ id # 0
    <3>1. cards[id] \in Posts /\ id # 0
      BY <1>1, <2>1
    <3>2. QED
      BY <3>1 DEF Posts
  <2>4. CASE published[cards[id].key] = id
    <3>1. cards[id].key # k
      BY <1>3, <2>3, <2>4
    <3>2. QED
      BY <1>1, <2>1, <2>3, <2>4, <3>1
  <2>5. CASE \E x \in Runners : passes[x].pc = "record" /\ passes[x].id = id
    BY <2>5
  <2>6. QED
    BY <2>2, <2>4, <2>5
<1>4. QED
  BY <1>2, <1>3 DEF NoStrays, Standing

LEMMA ForgottenRow ==
  ASSUME published \in [Keys -> Nat], RowsPosted, CardsStand, NEW k \in Keys,
         cards \in Seq(Posts), cards' \in Seq(Posts),
         published' = [published EXCEPT ![k] = 0]
  PROVE  RowsPosted' /\ published' \in [Keys -> Nat]
<1>1. \A j \in Keys : published'[j] = IF j = k THEN 0 ELSE published[j]
  OBVIOUS
<1>2. QED
  BY <1>1, PostedStays DEF RowsPosted

LEMMA CannotEditKeeps == ASSUME BoardInv, NEW r \in Runners, CardCannotBeEdited(r) PROVE BoardInv'
<1>p. PICK p : p = passes[r]
  OBVIOUS
<1>1. /\ p \in PassStates /\ p.pc = "edit" /\ ~Still(r) /\ ~settled /\ p.to \in Outlets
      /\ Other(r) \in Runners /\ Other(r) # r
      /\ cards \in Seq(Posts) /\ published \in [Keys -> Nat] /\ RowsPosted
      /\ Carries(passes[r]) /\ Advances(passes[r])
      /\ ~strayed => OneOutlet /\ Follows(passes[r])
  BY <1>p, OnePass DEF CardCannotBeEdited, Standing, Still
<1>2. /\ p.key \in Keys /\ p.id \in 1..Len(cards)
      /\ IF p.left = {} THEN p.key = Feed ELSE p.key = Min(p.left)
  BY <1>p, <1>1 DEF Carries, Posted, Facings, PassStates
<1>3. PICK q : q = [p EXCEPT !.pc = "send", !.id = 0]
  OBVIOUS
<1>4. /\ q \in PassStates /\ q.pc = "send" /\ q.to = p.to /\ q.wanted = p.wanted
      /\ q.left = p.left /\ q.key = p.key /\ q.alone = p.alone
  <2>1. "send" \in Stages
    BY DEF Stages
  <2>2. QED
    BY <1>1, <1>3, <2>1 DEF PassStates
<1>5. /\ UNCHANGED <<outside, cards, settled>> /\ Moves(r, q)
      /\ published' = [published EXCEPT ![p.key] = 0]
      /\ strayed' \in BOOLEAN /\ (strayed => strayed')
      /\ ~strayed' => ~cards[p.id].up
  BY <1>p, <1>3 DEF CardCannotBeEdited, BoardInv, BoardTypes
<1>6. CardsStand
  BY <1>1, <1>5 DEF CardsStand
<1>7. RowsPosted' /\ published' \in [Keys -> Nat]
  BY <1>1, <1>2, <1>5, <1>6, ForgottenRow
<1>8. BoardTypes' /\ passes'[r] = q /\ passes'[Other(r)] = passes[Other(r)]
  BY <1>1, <1>4, <1>5, <1>7, PassTypes DEF BoardInv, BoardTypes
<1>9. ~strayed' => RowsStand /\ NoStrays'
  <2>1. SUFFICES ASSUME ~strayed'
                 PROVE  RowsStand /\ NoStrays'
    OBVIOUS
  <2>2. published[p.key] \in {0, p.id} /\ ~strayed /\ ~cards'[p.id].up
    BY <1>p, <1>1, <1>5, <2>1 DEF Follows
  <2>3. \A x \in Runners : x # r => passes'[x] = passes[x]
    BY <1>8, TwoRunners
  <2>4. QED
    BY <1>p, <1>1, <1>2, <1>5, <1>6, <2>2, <2>3, ForgottenCard
<1>10. Settled' /\ NoStrays'
  BY <1>1, <1>5, <1>9 DEF Settled, NoStrays
<1>11. Carries(passes[r])'
  BY <1>1, <1>2, <1>4, <1>8 DEF Carries, Facings
<1>12. Follows(passes[r])'
  BY <1>1, <1>2, <1>4, <1>5, <1>8 DEF Follows
<1>13. Advances(passes[r])'
  <2>1. SUFFICES ASSUME p.alone
                 PROVE  Advances(passes[r])'
    BY <1>4, <1>8 DEF Advances
  <2>2. /\ p.left \subseteq p.wanted /\ \A m \in p.wanted \ p.left : Shows(m, p.to)
        /\ p.left = {} => \A m \in Months \ p.wanted : published[m] = 0
    BY <1>p, <1>1, <2>1 DEF Advances, Facings
  <2>3. \A m \in p.wanted \ p.left : m \in Keys /\ m # p.key
    <3>1. p.left # {} => p.key \in p.left
      BY <1>1, <1>2, FirstMonth DEF PassStates
    <3>2. p.wanted \subseteq Months
      BY <1>1 DEF PassStates
    <3>3. QED
      BY <1>2, <3>1, <3>2, BoardConstants
  <2>4. \A m \in p.wanted \ p.left : Shows(m, p.to)'
    BY <1>1, <1>2, <1>5, <2>2, <2>3 DEF Shows
  <2>5. p.left = {} => \A m \in Months \ p.wanted : published'[m] = 0
    BY <1>1, <1>2, <1>5, <2>2, BoardConstants
  <2>6. QED
    BY <1>4, <1>8, <2>2, <2>4, <2>5 DEF Advances, Facings
<1>14. ~strayed' => \A id \in 1..Len(cards') : cards'[id].outlet = outlet
  BY <1>1, <1>5 DEF OneOutlet
<1>15. QED
  BY <1>p, <1>1, <1>4, <1>5, <1>6, <1>7, <1>8, <1>9, <1>10, <1>11, <1>12, <1>13, <1>14, RunnerSteps

LEMMA SendKeeps == ASSUME BoardInv, NEW r \in Runners, SendNewCard(r) PROVE BoardInv'
<1>p. PICK p : p = passes[r]
  OBVIOUS
<1>1. /\ p \in PassStates /\ p.pc = "send" /\ ~Still(r) /\ ~settled /\ p.to \in Outlets
      /\ Other(r) \in Runners /\ Other(r) # r
      /\ cards \in Seq(Posts) /\ published \in [Keys -> Nat] /\ RowsPosted
      /\ Carries(passes[r]) /\ Advances(passes[r])
      /\ ~strayed => /\ OneOutlet /\ Follows(passes[r])
                     /\ \A id \in 1..Len(cards) : cards[id].outlet = p.to
  BY <1>p, OnePass DEF SendNewCard, Standing, Still
<1>2. PICK card, q : /\ card = [outlet |-> p.to, key |-> p.key, up |-> TRUE]
                     /\ q = [p EXCEPT !.pc = "record", !.id = Len(cards) + 1]
  OBVIOUS
<1>3. card \in Posts /\ card.outlet = p.to /\ card.key = p.key
  BY <1>1, <1>2 DEF Posts, PassStates
<1>4. /\ q \in PassStates /\ q.pc = "record" /\ q.to = p.to /\ q.wanted = p.wanted
      /\ q.left = p.left /\ q.key = p.key /\ q.alone = p.alone /\ q.id = Len(cards) + 1
  <2>1. "record" \in Stages /\ Len(cards) + 1 \in Nat
    BY <1>1 DEF Stages
  <2>2. QED
    BY <1>1, <1>2, <2>1 DEF PassStates
<1>5. /\ UNCHANGED <<outside, published, settled, strayed>> /\ Moves(r, q)
      /\ cards' = Append(cards, card)
  BY <1>p, <1>2 DEF SendNewCard
<1>6. /\ cards' \in Seq(Posts) /\ Len(cards') = Len(cards) + 1 /\ Len(cards) \in Nat
      /\ cards'[Len(cards) + 1] = card
      /\ \A id \in 1..Len(cards) : cards'[id] = cards[id]
  BY <1>1, <1>3, <1>5
<1>7. CardsStand /\ RowsStand
  BY <1>1, <1>5, <1>6 DEF CardsStand, RowsStand
<1>8. RowsPosted'
  BY <1>1, <1>5, <1>6, <1>7, PostedStays DEF RowsPosted
<1>9. BoardTypes' /\ passes'[r] = q /\ passes'[Other(r)] = passes[Other(r)]
  BY <1>1, <1>4, <1>5, <1>6, PassTypes DEF BoardInv, BoardTypes
<1>10. Settled'
  BY <1>1, <1>5 DEF Settled
<1>11. NoStrays'
  <2>1. SUFFICES ASSUME NEW id \in 1..Len(cards'), cards'[id].up, ~strayed
                 PROVE  \/ published'[cards'[id].key] = id
                        \/ \E x \in Runners : passes'[x].pc = "record" /\ passes'[x].id = id
    BY <1>5 DEF NoStrays, Standing
  <2>2. CASE id = Len(cards) + 1
    BY <1>4, <1>9, <2>2
  <2>3. CASE id \in 1..Len(cards)
    <3>1. \/ published[cards[id].key] = id
          \/ \E x \in Runners : passes[x].pc = "record" /\ passes[x].id = id
      BY <1>6, <2>1, <2>3 DEF BoardInv, NoStrays, Standing
    <3>2. \A x \in Runners : passes[x].pc = "record" => x = Other(r)
      BY <1>p, <1>1, TwoRunners
    <3>3. QED
      BY <1>5, <1>6, <1>9, <2>3, <3>1, <3>2
  <2>4. QED
    BY <1>6, <2>1, <2>2, <2>3
<1>12. Carries(passes[r])'
  <2>1. Posted(q.key, q.id)' /\ cards'[q.id].outlet = q.to
    BY <1>3, <1>4, <1>6 DEF Posted
  <2>2. QED
    BY <1>p, <1>1, <1>4, <1>9, <2>1 DEF Carries, Facings
<1>13. ~strayed' => Follows(passes[r])'
  BY <1>p, <1>1, <1>4, <1>5, <1>9 DEF Follows
<1>14. Advances(passes[r])'
  <2>1. SUFFICES ASSUME p.alone
                 PROVE  Advances(passes[r])'
    BY <1>4, <1>9 DEF Advances
  <2>2. /\ p.left \subseteq p.wanted /\ \A m \in p.wanted \ p.left : Shows(m, p.to)
        /\ p.left = {} => \A m \in Months \ p.wanted : published[m] = 0
    BY <1>p, <1>1, <2>1 DEF Advances, Facings
  <2>3. \A m \in p.wanted \ p.left : Shows(m, p.to)'
    <3>1. \A m \in p.wanted : m \in Keys
      BY <1>1, BoardConstants DEF PassStates
    <3>2. QED
      BY <1>1, <1>5, <1>6, <2>2, <3>1 DEF Shows, RowsPosted, Posted
  <2>4. QED
    BY <1>4, <1>5, <1>9, <2>2, <2>3 DEF Advances, Facings
<1>15. ~strayed' => \A id \in 1..Len(cards') : cards'[id].outlet = outlet
  <2>1. SUFFICES ASSUME ~strayed, NEW id \in 1..Len(cards')
                 PROVE  cards'[id].outlet = outlet
    BY <1>5
  <2>2. p.to = outlet /\ \A i \in 1..Len(cards) : cards[i].outlet = outlet
    BY <1>p, <1>1, <2>1 DEF OneOutlet
  <2>3. QED
    BY <1>3, <1>6, <2>2
<1>16. QED
  BY <1>p, <1>1, <1>4, <1>5, <1>7, <1>8, <1>9, <1>10, <1>11, <1>12, <1>13, <1>14, <1>15, RunnerSteps

LEMMA FailsKeeps == ASSUME BoardInv, NEW r \in Runners, PassFails(r) PROVE BoardInv'
<1>1. /\ ~Still(r) /\ ~settled /\ Other(r) \in Runners /\ passes[r].pc # "record"
      /\ cards \in Seq(Posts) /\ published \in [Keys -> Nat] /\ RowsPosted
      /\ ~strayed => OneOutlet
  BY OnePass DEF PassFails, Still
<1>2. NoPass \in PassStates /\ NoPass.pc = "idle"
  BY NoPassState
<1>3. UNCHANGED <<outside, cards, published, settled, strayed>> /\ Moves(r, NoPass)
  BY DEF PassFails
<1>4. BoardTypes' /\ passes'[r] = NoPass /\ passes'[Other(r)] = passes[Other(r)]
  BY <1>1, <1>2, <1>3, PassTypes DEF BoardInv, BoardTypes
<1>5. CardsStand /\ RowsStand /\ RowsPosted'
  BY <1>1, <1>3 DEF CardsStand, RowsStand, RowsPosted, Posted
<1>6. Still(r)' /\ Carries(passes[r])' /\ Advances(passes[r])' /\ Follows(passes[r])'
  BY <1>2, <1>4 DEF Still, Carries, Advances, Follows, Facings
<1>7. Settled'
  BY <1>1, <1>3 DEF Settled
<1>8. NoStrays'
  <2>1. \A x \in Runners : passes[x].pc = "record" => x = Other(r)
    BY <1>1, TwoRunners
  <2>2. QED
    BY <1>3, <1>4, <2>1 DEF BoardInv, NoStrays, Standing
<1>9. ~strayed' => \A id \in 1..Len(cards') : cards'[id].outlet = outlet
  BY <1>1, <1>3 DEF OneOutlet
<1>10. QED
  BY <1>1, <1>3, <1>4, <1>5, <1>6, <1>7, <1>8, <1>9, RunnerSteps

LEMMA PruneKeeps ==
  ASSUME BoardInv, NEW r \in Runners, NEW deleted \in BOOLEAN, PruneCard(r, deleted)
  PROVE  BoardInv'
<1>p. PICK p, m, id, list, rest :
        /\ p = passes[r] /\ m = Min(p.left) /\ id = p.seen[m]
        /\ list = [published EXCEPT ![m] = 0] /\ rest = p.left \ {m}
  OBVIOUS
<1>1. /\ p \in PassStates /\ p.pc = "prune" /\ ~Still(r) /\ ~settled /\ p.to \in Outlets
      /\ Other(r) \in Runners /\ Other(r) # r
      /\ cards \in Seq(Posts) /\ published \in [Keys -> Nat] /\ RowsPosted
      /\ Carries(passes[r]) /\ Advances(passes[r])
      /\ ~strayed => /\ OneOutlet /\ Follows(passes[r])
                     /\ \A i \in 1..Len(cards) : cards[i].outlet = p.to
  BY <1>p, OnePass DEF PruneCard, Standing, Still
<1>2. /\ p.left # {} /\ p.seen \in [Keys -> Nat] /\ p.left \in SUBSET Months
      /\ \A k \in p.left : Posted(k, p.seen[k])
  BY <1>p, <1>1 DEF Carries, PassStates
<1>3. m \in p.left /\ m \in Months /\ m \in Keys /\ m # Feed
  BY <1>p, <1>2, FirstMonth, BoardConstants
<1>4. id \in 1..Len(cards) /\ id # 0 /\ cards[id] \in Posts
  BY <1>p, <1>1, <1>2, <1>3 DEF Posted
<1>5. /\ UNCHANGED <<outside, settled>> /\ published' = list
      /\ strayed' \in BOOLEAN /\ (strayed => strayed') /\ (~strayed' => deleted)
      /\ cards' = IF cards[id].outlet = p.to /\ cards[id].up /\ deleted
                  THEN [cards EXCEPT ![id].up = FALSE] ELSE cards
      /\ Moves(r, IF rest = {} THEN Facing([p EXCEPT !.left = {}, !.seen = <<>>], Feed, list)
                  ELSE [p EXCEPT !.left = rest])
  BY <1>p DEF PruneCard, BoardInv, BoardTypes
<1>6. /\ cards' \in Seq(Posts) /\ Len(cards') = Len(cards) /\ CardsStand
      /\ ~strayed' => ~cards'[id].up
  <2>1. CASE cards' = cards /\ ~(cards[id].outlet = p.to /\ cards[id].up /\ deleted)
    <3>1. ~strayed' => ~cards[id].up
      BY <1>1, <1>4, <1>5, <2>1
    <3>2. QED
      BY <1>1, <2>1, <3>1 DEF CardsStand
  <2>2. CASE cards' = [cards EXCEPT ![id].up = FALSE]
    <3>1. [cards[id] EXCEPT !.up = FALSE] \in Posts
      BY <1>4 DEF Posts
    <3>c. PICK c : c = [cards[id] EXCEPT !.up = FALSE]
      OBVIOUS
    <3>d. cards' = [cards EXCEPT ![id] = c]
      BY <2>2, <3>c
    <3>2. /\ Len(cards') = Len(cards) /\ cards'[id] = [cards[id] EXCEPT !.up = FALSE]
          /\ \A i \in 1..Len(cards) : i # id => cards'[i] = cards[i]
      <4>1. cards \in Seq(Posts) /\ id \in 1..Len(cards) /\ c \in Posts
        BY <1>1, <1>4, <3>1, <3>c
      <4>2. Len(cards') = Len(cards) /\ cards'[id] = c
        BY <3>d, <4>1
      <4>3. \A i \in 1..Len(cards) : i # id => cards'[i] = cards[i]
        BY <3>d, <4>1
      <4>4. QED
        BY <3>c, <4>2, <4>3
    <3>3. cards' \in Seq(Posts)
      BY <1>1, <1>4, <3>1, <3>c, <3>d
    <3>4. cards'[id].outlet = cards[id].outlet /\ cards'[id].key = cards[id].key /\ ~cards'[id].up
      BY <1>4, <3>2 DEF Posts
    <3>5. CardsStand
      <4>1. ASSUME NEW i \in 1..Len(cards)
            PROVE  /\ cards'[i].outlet = cards[i].outlet /\ cards'[i].key = cards[i].key
                   /\ cards'[i].up => cards[i].up
        BY <3>2, <3>4
      <4>2. Len(cards) <= Len(cards')
        BY <1>1, <3>2
      <4>3. QED
        BY <4>1, <4>2 DEF CardsStand
    <3>6. QED
      BY <3>2, <3>3, <3>4, <3>5
  <2>3. QED
    BY <1>5, <2>1, <2>2
<1>7. RowsPosted' /\ published' \in [Keys -> Nat]
  BY <1>p, <1>1, <1>3, <1>5, <1>6, ForgottenRow
<1>8. /\ \A k \in Keys : published'[k] = IF k = m THEN 0 ELSE published[k]
      /\ \A i \in 1..Len(cards) : cards'[i].outlet = cards[i].outlet
  BY <1>p, <1>1, <1>3, <1>5, <1>6 DEF CardsStand
\* A pass that is alone has seen to the months it wants, and only what it has yet
\* to prune stands besides.
<1>9. p.alone => /\ \A k \in p.wanted : Shows(k, p.to)'
                 /\ \A k \in Months \ p.wanted : published'[k] # 0 => k \in rest
                 /\ rest \cap p.wanted = {}
  <2>1. SUFFICES ASSUME p.alone
                 PROVE  /\ \A k \in p.wanted : Shows(k, p.to)'
                        /\ \A k \in Months \ p.wanted : published'[k] # 0 => k \in rest
                        /\ rest \cap p.wanted = {}
    OBVIOUS
  <2>2. /\ p.left \cap p.wanted = {} /\ \A k \in p.wanted : Shows(k, p.to)
        /\ \A k \in Months \ p.wanted : published[k] # 0 => k \in p.left
    BY <1>p, <1>1, <2>1 DEF Advances, Facings
  <2>3. \A k \in p.wanted : k \in Keys /\ k # m
    BY <1>1, <1>3, <2>2, BoardConstants DEF PassStates
  <2>4. \A k \in p.wanted : Shows(k, p.to)'
    BY <1>1, <1>8, <2>2, <2>3 DEF Shows, RowsPosted, Posted
  <2>5. QED
    BY <1>p, <1>8, <2>2, <2>4, BoardConstants
<1>10. ~strayed' => RowsStand /\ NoStrays'
  <2>1. SUFFICES ASSUME ~strayed', \A x \in Runners : x # r => passes'[x] = passes[x]
                 PROVE  RowsStand /\ NoStrays'
    BY <1>1, <1>5 DEF Moves
  <2>2. published[m] \in {0, id} /\ ~strayed
    BY <1>p, <1>1, <1>3, <1>5, <2>1 DEF Follows
  <2>3. QED
    BY <1>p, <1>1, <1>3, <1>5, <1>6, <2>1, <2>2, ForgottenCard
<1>11. Settled' /\ NoStrays'
  BY <1>1, <1>5, <1>10 DEF Settled, NoStrays
<1>12. ~strayed' => \A i \in 1..Len(cards') : cards'[i].outlet = outlet
  BY <1>1, <1>5, <1>6, <1>8 DEF OneOutlet
<1>13. CASE rest # {}
  <2>1. PICK q : q = [p EXCEPT !.left = rest]
    OBVIOUS
  <2>2. /\ q \in PassStates /\ q.pc = "prune" /\ q.to = p.to /\ q.wanted = p.wanted
        /\ q.left = rest /\ q.alone = p.alone /\ q.seen = p.seen
    BY <1>p, <1>1, <1>2, <2>1 DEF PassStates
  <2>3. Moves(r, q)
    BY <1>5, <1>13, <2>1
  <2>4. BoardTypes' /\ passes'[r] = q /\ passes'[Other(r)] = passes[Other(r)]
    BY <1>1, <1>5, <1>6, <1>7, <2>2, <2>3, PassTypes DEF BoardInv, BoardTypes
  <2>5. \A k \in rest : k \in p.left /\ Posted(k, p.seen[k])'
    BY <1>p, <1>1, <1>2, <1>6, PostedStays
  <2>6. Carries(passes[r])'
    BY <1>1, <1>2, <1>13, <2>2, <2>4, <2>5 DEF Carries, Facings
  <2>7. Advances(passes[r])'
    BY <1>9, <2>2, <2>4 DEF Advances, Facings
  <2>8. ~strayed' => Follows(passes[r])'
    <3>1. SUFFICES ASSUME ~strayed', NEW k \in rest
                   PROVE  published'[k] \in {0, p.seen[k]}
      BY <2>2, <2>4 DEF Follows
    <3>2. published[k] \in {0, p.seen[k]} /\ k \in Keys
      BY <1>p, <1>1, <1>2, <1>5, <2>5, <3>1, BoardConstants DEF Follows
    <3>3. QED
      BY <1>8, <3>2
  <2>9. QED
    BY <1>p, <1>1, <1>5, <1>6, <1>7, <1>10, <1>11, <1>12, <2>2, <2>4, <2>6, <2>7, <2>8, RunnerSteps
<1>14. CASE rest = {}
  <2>1. PICK w : w = [p EXCEPT !.left = {}, !.seen = <<>>]
    OBVIOUS
  <2>2. /\ w \in PassStates /\ w.to = p.to /\ w.wanted = p.wanted /\ w.left = {}
        /\ w.alone = p.alone
    <3>1. <<>> \in {<<>>} \cup [Keys -> Nat] /\ {} \in SUBSET Months
      OBVIOUS
    <3>2. QED
      BY <1>1, <2>1, <3>1 DEF PassStates
  <2>3. PICK q : q = Facing(w, Feed, list)
    OBVIOUS
  <2>4. /\ q \in PassStates /\ q.pc \in {"edit", "send"} /\ q.key = Feed
        /\ q.to = p.to /\ q.wanted = p.wanted /\ q.left = {} /\ q.alone = p.alone
        /\ q.pc = "edit" => q.id = list[Feed] /\ list[Feed] # 0 /\ cards[list[Feed]].outlet = p.to
        /\ q.pc = "send" => list[Feed] = 0 \/ cards[list[Feed]].outlet # p.to
    BY <1>5, <1>7, <2>2, <2>3, BoardConstants, FacingStands
  <2>5. Moves(r, q)
    BY <1>5, <1>14, <2>1, <2>3
  <2>6. BoardTypes' /\ passes'[r] = q /\ passes'[Other(r)] = passes[Other(r)]
    BY <1>1, <1>5, <1>6, <1>7, <2>4, <2>5, PassTypes DEF BoardInv, BoardTypes
  <2>7. published'[Feed] # 0 =>
          published'[Feed] \in 1..Len(cards') /\ cards'[published'[Feed]].key = Feed
    BY <1>7, BoardConstants DEF RowsPosted, Posted
  <2>8. Carries(passes[r])'
    <3>1. q.pc = "edit" => Posted(Feed, q.id)' /\ cards'[q.id].outlet = p.to
      BY <1>5, <1>6, <1>8, <2>4, <2>7 DEF Posted
    <3>2. QED
      BY <1>1, <2>4, <2>6, <3>1 DEF Carries, Facings
  <2>9. Advances(passes[r])'
    BY <1>9, <1>14, <2>4, <2>6 DEF Advances, Facings
  <2>10. ~strayed' => Follows(passes[r])'
    BY <1>1, <1>5, <1>6, <2>4, <2>6, <2>7 DEF Follows
  <2>11. QED
    BY <1>p, <1>1, <1>5, <1>6, <1>7, <1>10, <1>11, <1>12, <2>4, <2>6, <2>8, <2>9, <2>10, RunnerSteps
<1>15. QED
  BY <1>13, <1>14

-----------------------------------------------------------------------------
(* What begins a pass, and the world.                                      *)

\* What a pass holds does not depend on what it is alone with.
LEMMA PassesBegin ==
  ASSUME BoardInv, NEW r \in Runners, NEW turning \in BOOLEAN, Still(r),
         passes' = Begun(r, outlet, turning)
  PROVE  /\ passes' \in [Runners -> PassStates] /\ Alone'
         /\ \A x \in Runners :
              \/ /\ passes'[x].pc \in {"idle", "connect"}
                 /\ passes'[x].pc = "connect" => passes'[x].to = outlet /\ outlet \in Outlets
              \/ /\ passes'[x] = [passes[x] EXCEPT !.alone = passes'[x].alone]
                 /\ passes'[x].alone => passes[x].alone
<1> DEFINE s == Other(r)
           first == IF outlet = NoOutlet THEN NoPass
                    ELSE [NoPass EXCEPT !.pc = "connect", !.to = outlet, !.turning = turning,
                                        !.alone = Still(s)]
           still == passes[s].alone /\ (outlet = NoOutlet \/ Still(s))
           second == [passes[s] EXCEPT !.alone = still]
<1>1. s \in Runners /\ s # r /\ \A x \in Runners : x = r \/ x = s
  BY TwoRunners
<1>2. passes \in [Runners -> PassStates] /\ passes[s] \in PassStates /\ outlet \in Channeled
  BY <1>1 DEF BoardInv, BoardTypes
<1>3. passes'[r] = first /\ passes'[s] = second /\ DOMAIN passes' = Runners
  BY <1>1, <1>2 DEF Begun
<1>4. first \in PassStates /\ (first.pc = "connect" => first.to = outlet /\ outlet \in Outlets)
      /\ first.pc \in {"idle", "connect"} /\ (first.pc = "connect" /\ first.alone => Still(s))
      /\ (first.pc = "connect" => outlet # NoOutlet)
  <2>1. "connect" \in Stages /\ Still(s) \in BOOLEAN
    BY DEF Stages, Still
  <2>2. NoPass \in PassStates /\ NoPass.pc = "idle"
    BY NoPassState
  <2>3. outlet # NoOutlet => outlet \in Outlets
    BY <1>2 DEF Channeled
  <2>4. CASE outlet = NoOutlet
    BY <2>2, <2>4
  <2>5. CASE outlet # NoOutlet
    BY <1>2, <2>1, <2>2, <2>3, <2>5 DEF PassStates
  <2>6. QED
    BY <2>4, <2>5
<1>5. still \in BOOLEAN /\ (still => passes[s].alone)
  BY <1>2 DEF PassStates
<1>6. second \in PassStates /\ second.alone = still /\ second.pc = passes[s].pc
      /\ second = [passes[s] EXCEPT !.alone = second.alone]
  BY <1>2, <1>5 DEF PassStates
<1>7. passes' \in [Runners -> PassStates]
  <2>1. passes' = [x \in Runners |-> passes'[x]]
    BY <1>1, <1>2 DEF Begun
  <2>2. \A x \in Runners : passes'[x] \in PassStates
    BY <1>1, <1>3, <1>4, <1>6
  <2>3. QED
    BY <2>1, <2>2
<1>8. Alone'
  <2>1. passes'[r].pc = "connect" /\ passes'[r].alone => passes'[s].pc = "idle"
    BY <1>3, <1>4, <1>6 DEF Still
  <2>2. passes'[s].pc # "idle" /\ passes'[s].alone => passes'[r].pc = "idle"
    <3>1. passes'[s].pc # "idle" /\ passes'[s].alone => still /\ ~Still(s)
      BY <1>3, <1>6 DEF Still
    <3>2. passes'[s].pc # "idle" /\ passes'[s].alone => outlet = NoOutlet
      BY <3>1
    <3>3. QED
      BY <1>3, <1>4, <3>2
  <2>3. Other(s) = r
    BY <1>1, TwoRunners
  <2>4. ASSUME NEW x \in Runners, passes'[x].pc # "idle", passes'[x].alone
        PROVE  passes'[Other(x)].pc = "idle"
    BY <1>1, <1>3, <1>4, <2>1, <2>2, <2>3, <2>4
  <2>5. QED
    BY <2>4 DEF Alone, Still
<1> HIDE DEF s, first, second, still
<1>9. QED
  BY <1>1, <1>3, <1>4, <1>5, <1>6, <1>7, <1>8

\* A step that brings no key up to date.
LEMMA WorldSteps ==
  ASSUME BoardInv, BoardTypes', ~settled', published' = published, strayed => strayed', Alone',
         CardsStand, Len(cards') = Len(cards),
         \A x \in Runners :
           \/ /\ passes'[x].pc \in {"idle", "connect"}
              /\ passes'[x].pc = "connect" => passes'[x].to = outlet' /\ outlet' \in Outlets
           \/ /\ passes'[x] = [passes[x] EXCEPT !.alone = passes'[x].alone]
              /\ passes'[x].alone => passes[x].alone,
         ~strayed' => /\ OneOutlet'
                      /\ \A x \in Runners : passes[x].pc = "record" =>
                            passes'[x].pc = "record" /\ passes'[x].id = passes[x].id
  PROVE  BoardInv'
<1>1. /\ cards \in Seq(Posts) /\ published \in [Keys -> Nat] /\ RowsPosted
      /\ cards' \in Seq(Posts)
  BY DEF BoardInv, BoardTypes
<1>2. RowsPosted'
  BY <1>1, PostedStays DEF RowsPosted
<1>3. NoStrays'
  <2>1. SUFFICES ASSUME ~strayed', NEW id \in 1..Len(cards), cards'[id].up
                 PROVE  \/ published[cards[id].key] = id
                        \/ \E x \in Runners : passes'[x].pc = "record" /\ passes'[x].id = id
    BY DEF NoStrays, Standing, CardsStand
  <2>2. \/ published[cards[id].key] = id
        \/ \E x \in Runners : passes[x].pc = "record" /\ passes[x].id = id
    BY <2>1 DEF BoardInv, NoStrays, Standing, CardsStand
  <2>3. QED
    BY <2>1, <2>2
<1>4. Settled'
  BY DEF Settled
<1>5. ASSUME NEW x \in Runners
      PROVE  Carries(passes[x])' /\ Advances(passes[x])' /\ (~strayed' => Follows(passes[x])')
  <2>1. Carries(passes[x]) /\ Advances(passes[x]) /\ (~strayed => Follows(passes[x]))
        /\ passes[x] \in PassStates
    BY DEF BoardInv, BoardTypes, Tidy
  <2>2. CASE /\ passes'[x].pc \in {"idle", "connect"}
             /\ passes'[x].pc = "connect" => passes'[x].to = outlet' /\ outlet' \in Outlets
    BY <2>2 DEF Carries, Advances, Follows, Facings
  <2>3. CASE /\ passes'[x] = [passes[x] EXCEPT !.alone = passes'[x].alone]
             /\ passes'[x].alone => passes[x].alone
    <3>1. PICK p, q : p = passes[x] /\ q = passes'[x]
      OBVIOUS
    <3>2. /\ q.pc = p.pc /\ q.to = p.to /\ q.wanted = p.wanted /\ q.left = p.left
          /\ q.key = p.key /\ q.id = p.id /\ q.seen = p.seen /\ (q.alone => p.alone)
          /\ p.key \in Keys /\ p.left \subseteq Keys
      BY <2>1, <2>3, <3>1, BoardConstants DEF PassStates
    <3>3. \A k, id : Posted(k, id) =>
            /\ Posted(k, id)' /\ cards'[id].outlet = cards[id].outlet
            /\ cards'[id].up => cards[id].up
      BY <1>1, PostedStays DEF CardsStand, Posted
    <3>4. Carries(passes[x])'
      BY <2>1, <3>1, <3>2, <3>3 DEF Carries, Facings
    <3>5. \A k \in Keys : Shows(k, p.to) => Shows(k, p.to)'
      BY <1>1, <3>3 DEF Shows, RowsPosted
    <3>6. Advances(passes[x])'
      <4>1. p.wanted \subseteq Keys
        BY <2>1, <3>1, BoardConstants DEF PassStates
      <4>2. p.alone => Advances(passes[x])'
        BY <2>1, <3>1, <3>2, <3>5, <4>1 DEF Advances, Facings
      <4>3. QED
        BY <3>1, <3>2, <4>2 DEF Advances
    <3>7. ~strayed' => Follows(passes[x])'
      <4>1. SUFFICES ASSUME ~strayed'
                     PROVE  Follows(passes[x])'
        OBVIOUS
      <4>2. Follows(passes[x])
        BY <2>1, <4>1
      <4>3. p.pc = "edit" /\ cards'[p.id].up => cards[p.id].up
        BY <2>1, <3>1, <3>3 DEF Carries
      <4>4. QED
        BY <3>1, <3>2, <4>2, <4>3 DEF Follows
    <3>8. QED
      BY <3>4, <3>6, <3>7
  <2>4. QED
    BY <2>2, <2>3
<1>6. Tidy'
  BY <1>5 DEF Tidy
<1>7. QED
  BY <1>2, <1>3, <1>4, <1>5, <1>6 DEF BoardInv

\* A count that is not zero counts a first one.
LEMMA NoneBelow ==
  ASSUME NEW n \in Nat, n # 0
  PROVE  1 \in 1..n
OBVIOUS

\* Nothing happens to the passes and the channel stays, or there was none.
LEMMA PassesGoOn ==
  ASSUME BoardInv, passes' = passes, strayed => strayed', CardsStand, Len(cards') = Len(cards),
         outlet' = outlet \/ strayed' \/ outlet = NoOutlet, NEW x \in Runners
  PROVE  /\ Alone' /\ (~strayed' => OneOutlet')
         /\ passes'[x] = [passes[x] EXCEPT !.alone = passes'[x].alone]
<1>1. passes[x] \in PassStates
  BY DEF BoardInv, BoardTypes
<1>2. passes'[x] = [passes[x] EXCEPT !.alone = passes'[x].alone]
  BY <1>1 DEF PassStates
<1>3. Alone'
  BY DEF BoardInv, Alone, Still
<1>4. ASSUME ~strayed' PROVE OneOutlet'
  <2>1. OneOutlet
    BY <1>4 DEF BoardInv, Tidy
  <2>2. ASSUME outlet = NoOutlet PROVE (\A r \in Runners : Still(r)) /\ Len(cards) = 0
    <3>1. cards \in Seq(Posts) /\ Len(cards) \in Nat
      BY DEF BoardInv, BoardTypes
    <3>2. \A id \in 1..Len(cards) : cards[id] \in Posts /\ cards[id].outlet = NoOutlet
      BY <2>1, <2>2, <3>1 DEF OneOutlet
    <3>3. ~(1 \in 1..Len(cards))
      BY <3>2, BoardConstants DEF Posts
    <3>4. Len(cards) \in Nat
      BY <3>1
    <3>5. Len(cards) = 0
      BY ONLY <3>3, <3>4, NoneBelow
    <3>6. \A r \in Runners : Still(r)
      BY <2>1, <2>2, BoardConstants DEF BoardInv, OneOutlet, Carries, Still
    <3>7. QED
      BY <3>5, <3>6
  <2>3. CASE outlet = NoOutlet
    BY <2>2, <2>3 DEF OneOutlet, Still
  <2>4. CASE outlet # NoOutlet
    BY <1>4, <2>1, <2>4 DEF OneOutlet, Still, CardsStand
  <2>5. QED
    BY <2>3, <2>4
<1>5. QED
  BY <1>2, <1>3, <1>4

LEMMA CardsTheSame ==
  ASSUME cards' = cards, cards \in Seq(Posts)
  PROVE  CardsStand /\ Len(cards') = Len(cards)
BY DEF CardsStand

\* A pass begins where none was.
LEMMA BeginKeeps ==
  ASSUME BoardInv, BoardTypes, NEW r \in Runners, NEW turning \in BOOLEAN, Still(r),
         passes' = Begun(r, outlet, turning), month' \in Months, booked' \subseteq Months,
         \A m \in booked' : m > month', ~settled', settled' \in BOOLEAN,
         UNCHANGED <<outlet, cards, published, strayed>>
  PROVE  BoardInv'
<1>1. /\ passes' \in [Runners -> PassStates] /\ Alone'
      /\ \A x \in Runners :
           \/ /\ passes'[x].pc \in {"idle", "connect"}
              /\ passes'[x].pc = "connect" => passes'[x].to = outlet /\ outlet \in Outlets
           \/ /\ passes'[x] = [passes[x] EXCEPT !.alone = passes'[x].alone]
              /\ passes'[x].alone => passes[x].alone
  BY PassesBegin
<1>2. BoardTypes'
  BY <1>1 DEF BoardTypes
<1>3. CardsStand /\ Len(cards') = Len(cards)
  BY CardsTheSame DEF BoardTypes
<1>4. ASSUME NEW x \in Runners
      PROVE  \/ /\ passes'[x].pc \in {"idle", "connect"}
                /\ passes'[x].pc = "connect" => passes'[x].to = outlet
             \/ /\ passes'[x].pc = passes[x].pc /\ passes'[x].to = passes[x].to
                /\ passes'[x].id = passes[x].id
  <2>1. passes[x] \in PassStates
    BY DEF BoardTypes
  <2>2. QED
    BY <1>1, <2>1 DEF PassStates
<1>5. ASSUME ~strayed'
      PROVE  /\ OneOutlet'
             /\ \A x \in Runners : passes[x].pc = "record" =>
                   passes'[x].pc = "record" /\ passes'[x].id = passes[x].id
  <2>1. OneOutlet
    BY <1>5 DEF BoardInv, Tidy
  <2>2. OneOutlet'
    BY <1>4, <2>1 DEF OneOutlet, Still
  <2>3. ASSUME NEW x \in Runners, passes[x].pc = "record"
        PROVE  passes'[x].pc = "record" /\ passes'[x].id = passes[x].id
    <3>1. CASE x = r
      BY <2>3, <3>1 DEF Still
    <3>2. CASE x # r
      <4>1. x = Other(r) /\ passes[x] \in PassStates
        BY <3>2, TwoRunners DEF BoardTypes
      <4>2. /\ passes'[x].pc = passes[x].pc /\ passes'[x].id = passes[x].id
        BY <3>2, <4>1 DEF Begun, BoardTypes, PassStates
      <4>3. QED
        BY <2>3, <4>2
    <3>3. QED
      BY <3>1, <3>2
  <2>4. QED
    BY <2>2, <2>3
<1>6. QED
  BY <1>1, <1>2, <1>3, <1>5, WorldSteps

\* The months with something booked, after an edit.
LEMMA ChangesKeep ==
  ASSUME BoardTypes, NEW m \in Months, m >= month, Changes(m)
  PROVE  booked' \subseteq Months /\ \A n \in booked' : n > month
<1>1. month \in Nat /\ m \in Nat
  BY DEF BoardTypes, Months
<1>2. QED
  BY <1>1 DEF Changes, BoardTypes

LEMMA EditAndPublishKeeps ==
  ASSUME BoardInv, NEW m \in Months, EditAndPublish(m) PROVE BoardInv'
<1>1. BoardTypes /\ "turn" \in Runners /\ Still("turn") /\ m >= month /\ Changes(m)
  BY DEF BoardInv, EditAndPublish, Runners
<1>2. booked' \subseteq Months /\ \A n \in booked' : n > month
  BY <1>1, ChangesKeep
<1>3. /\ passes' = Begun("turn", outlet, FALSE) /\ settled' = FALSE
      /\ UNCHANGED <<month, outlet, cards, published, strayed>>
  BY DEF EditAndPublish
<1>4. QED
  BY <1>1, <1>2, <1>3, BeginKeeps DEF BoardTypes

LEMMA CheckMonthKeeps == ASSUME BoardInv, CheckMonth PROVE BoardInv'
<1>1. /\ BoardTypes /\ "watcher" \in Runners /\ Still("watcher") /\ settled' = FALSE
      /\ UNCHANGED <<outside, cards, published, strayed>>
      /\ passes' = passes \/ passes' = Begun("watcher", outlet, TRUE)
  BY DEF BoardInv, CheckMonth, Runners
<1>2. CASE passes' = Begun("watcher", outlet, TRUE)
  BY <1>1, <1>2, BeginKeeps DEF BoardTypes, outside
<1>3. CASE passes' = passes
  <2>1. BoardTypes' /\ CardsStand /\ Len(cards') = Len(cards)
    BY <1>1, <1>3, CardsTheSame DEF BoardTypes, outside
  <2>2. \A x \in Runners :
          /\ Alone' /\ (~strayed' => OneOutlet')
          /\ passes'[x] = [passes[x] EXCEPT !.alone = passes'[x].alone]
    BY <1>1, <1>3, <2>1, PassesGoOn DEF outside
  <2>3. QED
    BY <1>1, <1>3, <2>1, <2>2, WorldSteps
<1>4. QED
  BY <1>1, <1>2, <1>3

\* What changes nothing of the passes.
LEMMA ElsewhereKeeps ==
  ASSUME BoardInv, BoardTypes, BoardTypes', ~settled', UNCHANGED <<passes, published>>,
         strayed => strayed', CardsStand, Len(cards') = Len(cards),
         outlet' = outlet \/ strayed' \/ outlet = NoOutlet
  PROVE  BoardInv'
<1>1. "turn" \in Runners
  BY DEF Runners
<1>2. \A x \in Runners :
        /\ Alone' /\ (~strayed' => OneOutlet')
        /\ passes'[x] = [passes[x] EXCEPT !.alone = passes'[x].alone]
  BY PassesGoOn
<1>3. QED
  BY <1>1, <1>2, WorldSteps

LEMMA RemoveKeeps ==
  ASSUME BoardInv, NEW id \in 1..Len(cards), RemoveByHand(id) PROVE BoardInv'
<1>1. /\ BoardTypes /\ cards' = [cards EXCEPT ![id].up = FALSE] /\ settled' = FALSE
      /\ UNCHANGED <<month, booked, outlet, published, passes, strayed>>
      /\ cards \in Seq(Posts)
  BY DEF BoardInv, BoardTypes, RemoveByHand, outside
<1>2. PICK c : c = [cards[id] EXCEPT !.up = FALSE]
  OBVIOUS
<1>3. cards' = [cards EXCEPT ![id] = c] /\ cards[id] \in Posts
  BY <1>1, <1>2
<1>4. c \in Posts /\ c.outlet = cards[id].outlet /\ c.key = cards[id].key /\ ~c.up
  BY <1>2, <1>3 DEF Posts
<1>5. Len(cards') = Len(cards) /\ cards'[id] = c
  <2>1. cards \in Seq(Posts) /\ id \in 1..Len(cards) /\ c \in Posts
    BY <1>1, <1>4
  <2>2. Len(cards') = Len(cards)
    BY <1>3, <2>1
  <2>3. cards'[id] = c
    BY <1>3, <2>1
  <2>4. QED
    BY <2>2, <2>3
<1>6. \A i \in 1..Len(cards) : i # id => cards'[i] = cards[i]
  BY <1>1, <1>3
<1>7. cards' \in Seq(Posts)
  <2>1. cards \in Seq(Posts) /\ id \in 1..Len(cards) /\ c \in Posts
    BY <1>1, <1>4
  <2>2. QED
    BY <1>3, <2>1
<1>8. CardsStand
  <2>1. Len(cards) <= Len(cards')
    BY <1>1, <1>5
  <2>2. ASSUME NEW i \in 1..Len(cards)
        PROVE  /\ cards'[i].outlet = cards[i].outlet /\ cards'[i].key = cards[i].key
               /\ cards'[i].up => cards[i].up
    BY <1>4, <1>5, <1>6
  <2>3. QED
    BY <2>1, <2>2 DEF CardsStand
<1>9. BoardTypes'
  BY <1>1, <1>7 DEF BoardTypes
<1>10. QED
  BY <1>1, <1>5, <1>8, <1>9, ElsewhereKeeps

LEMMA RestartKeeps == ASSUME BoardInv, RestartBoard PROVE BoardInv'
<1>1. PICK to : to = IF outlet = NoOutlet THEN EnvOutlet ELSE outlet
  OBVIOUS
<1>2. PICK begun : begun = [NoPass EXCEPT !.pc = "connect", !.to = to]
  OBVIOUS
<1>3. /\ BoardTypes /\ cards \in Seq(Posts) /\ to \in Channeled /\ outlet' = to
      /\ passes' = [r \in Runners |-> IF r = "watcher" /\ to # NoOutlet THEN begun ELSE NoPass]
      /\ settled' = FALSE /\ strayed' = (strayed \/ \E r \in Runners : Standing(r, "record"))
      /\ UNCHANGED <<month, booked, cards, published>>
  BY <1>1, <1>2, BoardConstants DEF BoardInv, BoardTypes, RestartBoard
<1>4. /\ NoPass \in PassStates /\ NoPass.pc = "idle"
      /\ begun.pc = "connect" /\ begun.to = to /\ begun \in PassStates
  <2>1. NoPass \in PassStates /\ NoPass.pc = "idle"
    BY NoPassState
  <2>2. "connect" \in Stages
    BY DEF Stages
  <2>3. QED
    BY <1>2, <1>3, <2>1, <2>2 DEF PassStates
<1>5. \A x \in Runners :
        /\ passes'[x] \in PassStates /\ passes'[x].pc \in {"idle", "connect"}
        /\ passes'[x].pc = "connect" => x = "watcher" /\ to # NoOutlet /\ passes'[x].to = to
  BY <1>3, <1>4
<1>6. BoardTypes'
  <2>1. strayed' \in BOOLEAN /\ settled' \in BOOLEAN
    BY <1>3 DEF BoardTypes
  <2>2. passes' \in [Runners -> PassStates]
    BY <1>3, <1>4
  <2>3. QED
    BY <1>3, <2>1, <2>2 DEF BoardTypes
<1>7. Alone'
  <2>1. ASSUME NEW x \in Runners, passes'[x].pc # "idle" PROVE passes'[Other(x)].pc = "idle"
    BY <1>5, <2>1, TwoRunners
  <2>2. QED
    BY <2>1 DEF Alone, Still
<1>8. CardsStand /\ Len(cards') = Len(cards)
  BY <1>3, CardsTheSame
<1>9. ASSUME ~strayed'
      PROVE  /\ OneOutlet'
             /\ \A x \in Runners : passes[x].pc # "record"
  <2>1. OneOutlet /\ \A x \in Runners : passes[x].pc # "record"
    BY <1>3, <1>9 DEF BoardInv, Tidy, Standing
  <2>2. \A id \in 1..Len(cards) : cards[id].outlet = to
    <3>1. \A id \in 1..Len(cards) : cards[id] \in Posts /\ cards[id].outlet # NoOutlet
      <4>1. \A id \in 1..Len(cards) : cards[id] \in Posts
        BY <1>3
      <4>2. \A card \in Posts : card.outlet # NoOutlet
        BY BoardConstants DEF Posts
      <4>3. QED
        BY <4>1, <4>2
    <3>2. QED
      BY <1>1, <2>1, <3>1 DEF OneOutlet
  <2>3. QED
    BY <1>3, <1>5, <2>1, <2>2 DEF OneOutlet, Still
<1>10. \A x \in Runners : /\ passes'[x].pc \in {"idle", "connect"}
                          /\ passes'[x].pc = "connect" => passes'[x].to = outlet' /\ outlet' \in Outlets
  BY <1>3, <1>5 DEF Channeled
<1>11. QED
  BY <1>3, <1>6, <1>7, <1>8, <1>9, <1>10, WorldSteps

-----------------------------------------------------------------------------

LEMMA BoardStarts == ASSUME BoardInit PROVE BoardInv
<1>1. PICK begun : begun = [NoPass EXCEPT !.pc = "connect", !.to = EnvOutlet]
  OBVIOUS
<1>2. /\ NoPass \in PassStates /\ NoPass.pc = "idle"
      /\ begun.pc = "connect" /\ begun.to = EnvOutlet /\ begun \in PassStates
  <2>1. NoPass \in PassStates /\ NoPass.pc = "idle"
    BY NoPassState
  <2>2. "connect" \in Stages
    BY DEF Stages
  <2>3. QED
    BY <1>1, <2>1, <2>2, BoardConstants DEF PassStates
<1>3. passes = [r \in Runners |-> IF r = "watcher" /\ EnvOutlet # NoOutlet THEN begun ELSE NoPass]
  BY <1>1 DEF BoardInit
<1>4. \A x \in Runners :
        /\ passes[x] \in PassStates /\ passes[x].pc \in {"idle", "connect"}
        /\ passes[x].pc = "connect" => x = "watcher" /\ EnvOutlet # NoOutlet /\ passes[x].to = EnvOutlet
  BY <1>2, <1>3
<1>5. /\ outlet = EnvOutlet /\ cards = <<>> /\ published \in [Keys -> Nat]
      /\ \A k \in Keys : published[k] = 0
      /\ month \in Months /\ booked = {} /\ settled = FALSE /\ strayed = FALSE
  BY DEF BoardInit, Keys
<1>6. BoardTypes
  <2>1. passes \in [Runners -> PassStates]
    BY <1>2, <1>3
  <2>2. cards \in Seq(Posts) /\ outlet \in Channeled
    BY <1>5, BoardConstants
  <2>3. QED
    BY <1>5, <2>1, <2>2 DEF BoardTypes
<1>7. Alone
  <2>1. ASSUME NEW x \in Runners, passes[x].pc # "idle" PROVE passes[Other(x)].pc = "idle"
    BY <1>4, <2>1, TwoRunners
  <2>2. QED
    BY <2>1 DEF Alone, Still
<1>8. RowsPosted /\ NoStrays /\ Settled
  BY <1>5 DEF RowsPosted, NoStrays, Settled
<1>9. \A x \in Runners : Carries(passes[x]) /\ Advances(passes[x]) /\ Follows(passes[x])
  BY <1>4, BoardConstants DEF Carries, Advances, Follows, Facings, Channeled
<1>10. Tidy
  BY <1>4, <1>5, <1>9 DEF Tidy, OneOutlet, Still
<1>11. QED
  BY <1>6, <1>7, <1>8, <1>9, <1>10 DEF BoardInv

LEMMA MonthTurns == ASSUME BoardInv, TurnMonth PROVE BoardInv'
<1>1. /\ BoardTypes /\ cards \in Seq(Posts) /\ month' = month + 1 /\ month + 1 \in Months
      /\ booked' = booked \ {month + 1} /\ settled' = FALSE
      /\ UNCHANGED <<outlet, cards, published, passes, strayed>>
  BY DEF BoardInv, BoardTypes, TurnMonth
<1>2. booked' \subseteq Months /\ \A m \in booked' : m > month'
  <2>1. booked \subseteq Nat /\ month \in Nat /\ \A m \in booked : m > month
    BY <1>1 DEF BoardTypes, Months
  <2>2. QED
    BY <1>1, <2>1 DEF BoardTypes
<1>3. BoardTypes'
  BY <1>1, <1>2 DEF BoardTypes
<1>4. CardsStand /\ Len(cards') = Len(cards)
  BY <1>1, CardsTheSame
<1>5. QED
  BY <1>1, <1>3, <1>4, ElsewhereKeeps

LEMMA ConsoleEdits == ASSUME BoardInv, NEW m \in Months, EditFromConsole(m) PROVE BoardInv'
<1>1. /\ BoardTypes /\ cards \in Seq(Posts) /\ m >= month /\ Changes(m) /\ settled' = FALSE
      /\ UNCHANGED <<month, outlet, cards, published, passes, strayed>>
  BY DEF BoardInv, BoardTypes, EditFromConsole, Months
<1>2. BoardTypes'
  BY <1>1, ChangesKeep DEF BoardTypes
<1>3. CardsStand /\ Len(cards') = Len(cards)
  BY <1>1, CardsTheSame
<1>4. QED
  BY <1>1, <1>2, <1>3, ElsewhereKeeps

LEMMA OutletMoves == ASSUME BoardInv, NEW o \in Outlets, MoveOutlet(o) PROVE BoardInv'
<1>1. /\ BoardTypes /\ cards \in Seq(Posts) /\ outlet' = o /\ settled' = FALSE
      /\ strayed' = (strayed \/ outlet # NoOutlet)
      /\ UNCHANGED <<month, booked, cards, published, passes>>
  BY DEF BoardInv, BoardTypes, MoveOutlet
<1>2. BoardTypes'
  BY <1>1 DEF BoardTypes, Channeled
<1>3. CardsStand /\ Len(cards') = Len(cards)
  BY <1>1, CardsTheSame
<1>4. QED
  BY <1>1, <1>2, <1>3, ElsewhereKeeps

LEMMA BoardGoesOn == ASSUME BoardInv, [BoardNext]_boardVars PROVE BoardInv'
<1>1. ASSUME NEW m \in Months, EditAndPublish(m) PROVE BoardInv'
  BY <1>1, EditAndPublishKeeps
<1>2. ASSUME NEW m \in Months, EditFromConsole(m) PROVE BoardInv'
  BY <1>2, ConsoleEdits
<1>3. ASSUME NEW o \in Outlets, MoveOutlet(o) PROVE BoardInv'
  BY <1>3, OutletMoves
<1>4. CASE CheckMonth
  BY <1>4, CheckMonthKeeps
<1>5. CASE TurnMonth
  BY <1>5, MonthTurns
<1>6. CASE RestartBoard
  BY <1>6, RestartKeeps
<1>7. ASSUME NEW r \in Runners, PassStep(r) PROVE BoardInv'
  <2>1. CASE Connect(r)
    BY <2>1, ConnectKeeps
  <2>2. CASE EditCardInPlace(r)
    BY <2>2, EditKeeps
  <2>3. CASE CardCannotBeEdited(r)
    BY <2>3, CannotEditKeeps
  <2>4. CASE SendNewCard(r)
    BY <2>4, SendKeeps
  <2>5. CASE RecordCard(r)
    BY <2>5, RecordKeeps
  <2>6. CASE PruneCard(r, TRUE)
    BY <2>6, PruneKeeps
  <2>7. QED
    BY <1>7, <2>1, <2>2, <2>3, <2>4, <2>5, <2>6 DEF PassStep
<1>8. ASSUME NEW r \in Runners, PruneCard(r, FALSE) PROVE BoardInv'
  BY <1>8, PruneKeeps
<1>9. ASSUME NEW r \in Runners, PassFails(r) PROVE BoardInv'
  BY <1>9, FailsKeeps
<1>10. ASSUME NEW id \in 1..Len(cards), RemoveByHand(id) PROVE BoardInv'
  BY <1>10, RemoveKeeps
<1>11. CASE UNCHANGED boardVars
  BY <1>11 DEF boardVars, BoardInv, BoardTypes, RowsPosted, Posted, Alone, Still, Tidy, OneOutlet,
     Follows, NoStrays, Standing, Settled, Shows, Wanted, Carries, Advances
<1>12. QED
  BY <1>1, <1>2, <1>3, <1>4, <1>5, <1>6, <1>7, <1>8, <1>9, <1>10, <1>11 DEF BoardNext

\* What a pass holds over its awaits is what the rows said when it looked, or less:
\* that is why the board stays in order whatever comes in between (publisher.ts,
\* reconcile).
THEOREM BoardInvariant == BoardSpec => []BoardInv
<1>1. BoardInit => BoardInv
  BY BoardStarts
<1>2. BoardInv /\ [BoardNext]_boardVars => BoardInv'
  BY BoardGoesOn
<1>3. QED
  BY <1>1, <1>2, PTL DEF BoardSpec

\* For any months, templates and channels: a card that stands in the channel is
\* tracked, and a pass that ran alone leaves exactly what is due
\* (publisher.ts, reconcile and desiredMonthKeys).
THEOREM BoardIsKept == BoardSpec => []BoardKept
<1>1. BoardInv => BoardKept
  <2>1. SUFFICES ASSUME BoardInv
                 PROVE  BoardKept
    OBVIOUS
  <2>2. MonthsDue = Wanted
    <3>1. \A m \in booked : m > month /\ m \in Nat /\ month \in Nat
      BY <2>1 DEF BoardInv, BoardTypes, Months
    <3>2. month \in Nat
      BY <2>1 DEF BoardInv, BoardTypes, Months
    <3>3. QED
      BY <3>1, <3>2 DEF MonthsDue, Wanted
  <2>3. LiveBoard
    BY <2>1, <2>2 DEF BoardInv, Settled, LiveBoard, Shows, Keys
  <2>4. QED
    BY <2>1, <2>3 DEF BoardInv, BoardKept
<1>2. QED
  BY <1>1, BoardInvariant, PTL

-----------------------------------------------------------------------------
(* The dates of a series (CalendarSeries).                                 *)

\* The greatest of some numbers up to n.
LEMMA GreatestUpTo ==
  ASSUME NEW n \in Nat, NEW S \in SUBSET (0..n), S # {}
  PROVE  Max(S) \in S /\ \A y \in S : y <= Max(S)
<1> DEFINE R == {n - x : x \in S}
<1>1. R \in SUBSET Nat /\ R # {}
  <2>1. \A x \in S : n - x \in Nat
    OBVIOUS
  <2>2. R \in SUBSET Nat
    BY <2>1
  <2>3. PICK x \in S : TRUE
    OBVIOUS
  <2>4. n - x \in R
    OBVIOUS
  <2>5. QED
    BY <2>2, <2>4
<1> HIDE DEF R
<1>2. Min(R) \in R /\ \A y \in R : Min(R) <= y
  BY <1>1, LeastOf
<1>3. PICK x \in S : Min(R) = n - x
  BY <1>2 DEF R
<1>4. \A y \in S : n - x <= n - y
  BY <1>2, <1>3 DEF R
<1>5. \A y \in S : y <= x
  BY <1>4
<1>6. QED
  BY <1>5 DEF Max

-----------------------------------------------------------------------------
(* The months.                                                             *)

MonthCount == Len(MonthLengths)

LEMMA SeriesConstants ==
  /\ DayLen \in Nat /\ DayLen >= 1
  /\ MonthCount \in Nat /\ MonthCount >= 1
  /\ \A m \in 1..MonthCount : MonthLengths[m] \in 28..31
BY SeriesAssumption DEF MonthCount

\* The first days of the first k months.
FirstDays(f, k) == f = [m \in 1..k |-> IF m = 1 THEN 0 ELSE f[m - 1] + MonthLengths[m - 1]]

LEMMA FirstDaysExist == ASSUME NEW k \in Nat, k >= 1 PROVE \E f : FirstDays(f, k)
<1> DEFINE Bad == {i \in Nat : i >= 1 /\ ~ \E f : FirstDays(f, i)}
<1>1. SUFFICES ASSUME Bad # {} PROVE FALSE
  OBVIOUS
<1> DEFINE i == Min(Bad)
<1>2. i \in Bad /\ \A j \in Bad : i <= j
  <2>1. Bad \in SUBSET Nat
    OBVIOUS
  <2> HIDE DEF Bad
  <2>2. QED
    BY <1>1, <2>1, LeastOf
<1>3. i \in Nat /\ i >= 1 /\ ~ \E f : FirstDays(f, i)
  BY <1>2
<1> HIDE DEF i
<1>4. CASE i = 1
  <2>1. FirstDays([m \in 1..1 |-> 0], 1)
    BY DEF FirstDays
  <2>2. QED
    BY <1>3, <1>4, <2>1
<1>5. CASE i > 1
  <2>1. i - 1 \in Nat /\ i - 1 >= 1 /\ i - 1 \notin Bad
    BY <1>2, <1>3, <1>5
  <2>2. PICK f : FirstDays(f, i - 1)
    BY <2>1
  <2> DEFINE g == [m \in 1..i |-> IF m = i THEN f[i - 1] + MonthLengths[i - 1] ELSE f[m]]
  <2>3. \A m \in 1..(i - 1) : g[m] = f[m]
    BY <1>3
  <2>4. \A m \in 1..(i - 1) : f[m] = IF m = 1 THEN 0 ELSE f[m - 1] + MonthLengths[m - 1]
    BY <2>2 DEF FirstDays
  <2>5. g[i] = f[i - 1] + MonthLengths[i - 1]
    BY <1>3
  <2>6. ASSUME NEW m \in 1..i
        PROVE  g[m] = IF m = 1 THEN 0 ELSE g[m - 1] + MonthLengths[m - 1]
    <3> HIDE DEF g
    <3>1. CASE m = i
      <4>1. g[i - 1] = f[i - 1]
        BY <1>3, <1>5, <2>3
      <4>2. QED
        BY <1>5, <2>5, <3>1, <4>1
    <3>2. CASE m # i /\ m # 1
      <4>1. m \in 1..(i - 1) /\ m - 1 \in 1..(i - 1)
        BY <1>3, <3>2
      <4>2. QED
        BY <2>3, <2>4, <3>2, <4>1
    <3>3. CASE m # i /\ m = 1
      <4>1. m \in 1..(i - 1)
        BY <1>3, <3>3
      <4>2. QED
        BY <2>3, <2>4, <3>3, <4>1
    <3>4. QED
      BY <3>1, <3>2, <3>3
  <2>7. FirstDays(g, i)
    BY <2>6 DEF FirstDays
  <2>8. QED
    BY <1>3, <2>7
<1>6. QED
  BY <1>3, <1>4, <1>5

LEMMA MonthStartMeans ==
  /\ MonthStart[1] = 0
  /\ \A m \in 1..MonthCount : MonthStart[m + 1] = MonthStart[m] + MonthLengths[m]
<1>1. \E f : FirstDays(f, MonthCount + 1)
  BY SeriesConstants, FirstDaysExist
<1>2. MonthStart = CHOOSE f : FirstDays(f, MonthCount + 1)
  BY DEF MonthStart, FirstDays, MonthCount
<1>3. FirstDays(MonthStart, MonthCount + 1)
  BY <1>1, <1>2, Zenon
<1>4. \A m \in 1..(MonthCount + 1) :
        MonthStart[m] = IF m = 1 THEN 0 ELSE MonthStart[m - 1] + MonthLengths[m - 1]
  BY <1>3 DEF FirstDays
<1>5. ASSUME NEW m \in 1..MonthCount
      PROVE  MonthStart[m + 1] = MonthStart[m] + MonthLengths[m]
  <2>1. m + 1 \in 1..(MonthCount + 1) /\ m + 1 # 1 /\ (m + 1) - 1 = m
    BY SeriesConstants
  <2>2. QED
    BY <1>4, <2>1
<1>6. 1 \in 1..(MonthCount + 1)
  BY SeriesConstants
<1>7. QED
  BY <1>4, <1>5, <1>6

LEMMA MonthStartType ==
  \A m \in 1..(MonthCount + 1) : MonthStart[m] \in Nat /\ m - 1 <= MonthStart[m]
<1> DEFINE Bad == {m \in 1..(MonthCount + 1) :
                     ~ (MonthStart[m] \in Nat /\ m - 1 <= MonthStart[m])}
<1>1. SUFFICES ASSUME Bad # {} PROVE FALSE
  OBVIOUS
<1> DEFINE i == Min(Bad)
<1>2. i \in Bad /\ \A j \in Bad : i <= j
  <2>1. Bad \in SUBSET Nat
    BY SeriesConstants
  <2> HIDE DEF Bad
  <2>2. QED
    BY <1>1, <2>1, LeastOf
<1> HIDE DEF i
<1>3. i \in 1..(MonthCount + 1) /\ ~ (MonthStart[i] \in Nat /\ i - 1 <= MonthStart[i])
  BY <1>2
<1>4. i # 1
  BY <1>3, MonthStartMeans
<1>5. i - 1 \in 1..MonthCount /\ i - 1 \notin Bad /\ (i - 1) + 1 = i
  BY <1>2, <1>3, <1>4, SeriesConstants
<1>6. MonthStart[i - 1] \in Nat /\ i - 2 <= MonthStart[i - 1]
  BY <1>5, SeriesConstants
<1>7. MonthStart[i] = MonthStart[i - 1] + MonthLengths[i - 1]
  BY <1>5, MonthStartMeans
<1>8. MonthLengths[i - 1] \in 28..31
  BY <1>5, SeriesConstants
<1>9. QED
  BY <1>3, <1>6, <1>7, <1>8

LEMMA MonthStartGrows ==
  ASSUME NEW m \in 1..(MonthCount + 1), NEW k \in 1..(MonthCount + 1), m < k
  PROVE  MonthStart[m] < MonthStart[k]
<1> DEFINE Bad == {j \in 1..(MonthCount + 1) : m < j /\ ~ (MonthStart[m] < MonthStart[j])}
<1>1. SUFFICES ASSUME Bad # {} PROVE FALSE
  OBVIOUS
<1> DEFINE i == Min(Bad)
<1>2. i \in Bad /\ \A j \in Bad : i <= j
  <2>1. Bad \in SUBSET Nat
    BY SeriesConstants
  <2> HIDE DEF Bad
  <2>2. QED
    BY <1>1, <2>1, LeastOf
<1> HIDE DEF i
<1>3. i \in 1..(MonthCount + 1) /\ m < i /\ ~ (MonthStart[m] < MonthStart[i])
  BY <1>2
<1>4. i - 1 \in 1..MonthCount /\ i - 1 \notin Bad /\ (i - 1) + 1 = i
  BY <1>2, <1>3, SeriesConstants
<1>5. MonthStart[i] = MonthStart[i - 1] + MonthLengths[i - 1] /\ MonthLengths[i - 1] \in 28..31
  BY <1>4, MonthStartMeans, SeriesConstants
<1>6. /\ MonthStart[m] \in Nat /\ MonthStart[i] \in Nat /\ MonthStart[i - 1] \in Nat
      /\ i - 1 \in 1..(MonthCount + 1)
  BY <1>3, <1>4, MonthStartType, SeriesConstants
<1>7. m = i - 1 \/ m < i - 1
  BY <1>3, <1>4
<1>8. MonthStart[m] <= MonthStart[i - 1]
  BY <1>4, <1>6, <1>7
<1>9. QED
  BY <1>3, <1>5, <1>6, <1>8

\* Day d is in month m.
In(d, m) == m \in 1..MonthCount /\ MonthStart[m] <= d /\ d < MonthStart[m + 1]

LEMMA InOneMonth ==
  ASSUME NEW d \in Nat, NEW m, In(d, m) PROVE MonthOf(d) = m /\ DateOf(d) = d - MonthStart[m] + 1
<1> DEFINE S == {j \in 1..MonthCount : MonthStart[j] <= d}
<1>1. m \in S /\ S \in SUBSET (0..MonthCount)
  BY SeriesConstants DEF In
<1>2. Max(S) \in S /\ m <= Max(S)
  <2> HIDE DEF S
  <2>1. QED
    BY <1>1, SeriesConstants, GreatestUpTo
<1>3. CASE m < Max(S)
  <2>1. Max(S) \in 1..MonthCount /\ MonthStart[Max(S)] <= d
    BY <1>2
  <2> DEFINE k == Max(S)
  <2>2. k \in 1..MonthCount /\ MonthStart[k] <= d /\ m < k
    BY <1>3, <2>1
  <2> HIDE DEF k
  <2>3. /\ m + 1 \in 1..(MonthCount + 1) /\ k \in 1..(MonthCount + 1)
        /\ m + 1 = k \/ m + 1 < k
    BY <2>2, SeriesConstants DEF In
  <2>4. MonthStart[m + 1] <= MonthStart[k]
    BY <2>3, MonthStartGrows, MonthStartType
  <2>5. QED
    BY <2>2, <2>3, <2>4, MonthStartType DEF In
<1>4. MonthOf(d) = Max(S)
  BY DEF MonthOf, MonthCount
<1>5. Max(S) \in 1..MonthCount /\ m \in 1..MonthCount
  BY <1>2 DEF In
<1>6. MonthOf(d) = m
  BY <1>2, <1>3, <1>4, <1>5, SeriesConstants
<1>7. QED
  BY <1>6 DEF DateOf

LEMMA EveryDayInAMonth ==
  ASSUME NEW d \in 0..LastDay
  PROVE  /\ In(d, MonthOf(d)) /\ DateOf(d) = d - MonthStart[MonthOf(d)] + 1
         /\ MonthOf(d) \in 1..MonthCount
         /\ DateOf(d) \in 1..MonthLengths[MonthOf(d)]
<1>1. /\ MonthStart[MonthCount + 1] \in Nat
      /\ LastDay = MonthStart[MonthCount + 1] - 1
  BY MonthStartType, SeriesConstants DEF LastDay, MonthCount
<1>2. d \in Nat /\ d < MonthStart[MonthCount + 1]
  BY <1>1
<1> DEFINE S == {j \in 1..MonthCount : MonthStart[j] <= d}
           k == Max(S)
<1>3. S \in SUBSET (0..MonthCount) /\ S # {}
  <2>1. 1 \in S
    BY <1>2, MonthStartMeans, SeriesConstants
  <2>2. QED
    BY <2>1, SeriesConstants
<1>4. k \in S /\ \A y \in S : y <= k
  <2> HIDE DEF S
  <2>1. QED
    BY <1>3, SeriesConstants, GreatestUpTo
<1>5. k \in 1..MonthCount /\ MonthStart[k] <= d
  BY <1>4
<1>6. d < MonthStart[k + 1]
  <2>1. CASE k = MonthCount
    BY <1>2, <2>1
  <2>2. CASE k # MonthCount
    <3>1. k + 1 \in 1..MonthCount /\ ~ (k + 1 <= k)
      BY <1>5, <2>2, SeriesConstants
    <3>2. k + 1 \notin S
      BY <1>4, <3>1
    <3>3. MonthStart[k + 1] \in Nat
      BY <3>1, MonthStartType, SeriesConstants
    <3>4. QED
      BY <1>2, <3>1, <3>2, <3>3
  <2>3. QED
    BY <2>1, <2>2
<1> HIDE DEF k
<1>7. In(d, k)
  BY <1>5, <1>6 DEF In
<1>8. MonthOf(d) = k /\ DateOf(d) = d - MonthStart[k] + 1
  BY <1>2, <1>7, InOneMonth
<1>9. MonthStart[k + 1] = MonthStart[k] + MonthLengths[k] /\ MonthStart[k] \in Nat
      /\ MonthLengths[k] \in 28..31
  BY <1>5, MonthStartMeans, MonthStartType, SeriesConstants
<1>10. QED
  BY <1>2, <1>5, <1>6, <1>7, <1>8, <1>9

-----------------------------------------------------------------------------
(* Days and instants.                                                      *)

LEMMA LessTimes ==
  ASSUME NEW a \in Nat, NEW b \in Nat, NEW k \in Nat, k >= 1
  PROVE  /\ a < b => a * k + k <= b * k
         /\ a <= b => a * k <= b * k
         /\ a <= a * k /\ a * k \in Nat
<1>1. \A x, y \in Int : (y - x) * k = y * k - x * k
  OBVIOUS
<1>2. \A x \in Nat : x * k \in Nat
  OBVIOUS
<1>3. ASSUME a < b PROVE a * k + k <= b * k
  <2>1. b - (a + 1) \in Nat
    BY <1>3
  <2>2. (b - (a + 1)) * k \in Nat /\ (b - (a + 1)) * k = b * k - (a + 1) * k
    BY <1>1, <1>2, <2>1
  <2>3. (a + 1) * k = a * k + k
    OBVIOUS
  <2>4. QED
    BY <2>2, <2>3
<1>4. ASSUME a <= b PROVE a * k <= b * k
  <2>1. b - a \in Nat
    BY <1>4
  <2>2. (b - a) * k \in Nat /\ (b - a) * k = b * k - a * k
    BY <1>1, <1>2, <2>1
  <2>3. QED
    BY <2>2
<1>5. a <= a * k
  <2>1. k - 1 \in Nat
    OBVIOUS
  <2>2. a * (k - 1) \in Nat /\ a * (k - 1) = a * k - a
    BY <2>1
  <2>3. QED
    BY <2>2
<1>6. QED
  BY <1>2, <1>3, <1>4, <1>5

\* A quotient and a remainder are one and the only ones.
LEMMA Divides ==
  ASSUME NEW t \in Nat, NEW k \in Nat, k >= 1
  PROVE  /\ t \div k \in Nat /\ t % k \in 0..(k - 1)
         /\ t = (t \div k) * k + (t % k)
OBVIOUS

LEMMA DividesOnce ==
  ASSUME NEW q \in Nat, NEW k \in Nat, k >= 1, NEW s \in 0..(k - 1), NEW t, t = q * k + s
  PROVE  t \in Nat /\ t \div k = q /\ t % k = s
<1>1. q * k \in Nat
  BY LessTimes
<1>2. t \in Nat
  BY <1>1
<1>3. t \div k \in Nat /\ t % k \in 0..(k - 1) /\ t = (t \div k) * k + (t % k)
  BY <1>2, Divides
<1> DEFINE p == t \div k
           r == t % k
<1>4. p \in Nat /\ r \in 0..(k - 1) /\ p * k + r = q * k + s
  BY <1>3
<1> HIDE DEF p, r
<1>5. p * k \in Nat
  BY <1>4, LessTimes
<1>6. ~ (p < q)
  <2>1. p < q => p * k + k <= q * k
    BY <1>4, LessTimes
  <2>2. QED
    BY <1>1, <1>4, <1>5, <2>1
<1>7. ~ (q < p)
  <2>1. q < p => q * k + k <= p * k
    BY <1>4, LessTimes
  <2>2. QED
    BY <1>1, <1>4, <1>5, <2>1
<1>8. p = q
  BY <1>4, <1>6, <1>7
<1>9. r = s
  BY <1>1, <1>4, <1>8
<1>10. QED
  BY <1>2, <1>8, <1>9 DEF p, r

\* The instant s of day d.
Slot(d, s) == d * DayLen + s

LEMMA InstantsOfDays ==
  ASSUME NEW d \in Nat, NEW s \in 0..(DayLen - 1)
  PROVE  /\ Slot(d, s) \in Nat /\ DayOf(Slot(d, s)) = d /\ Slot(d, s) % DayLen = s
         /\ Slot(d, s) < NoEnd <=> d <= LastDay
<1>1. Slot(d, s) \in Nat /\ Slot(d, s) \div DayLen = d /\ Slot(d, s) % DayLen = s
  BY SeriesConstants, DividesOnce DEF Slot
<1>2. LastDay \in Nat
  <2>1. MonthStart[MonthCount + 1] \in Nat /\ MonthCount <= MonthStart[MonthCount + 1]
    BY MonthStartType, SeriesConstants
  <2>2. QED
    BY <2>1, SeriesConstants DEF LastDay, MonthCount
<1>3. LastDay + 1 \in Nat /\ DayLen \in Nat /\ DayLen >= 1
  BY <1>2, SeriesConstants
<1> DEFINE k == LastDay + 1
<1>4. k \in Nat /\ d * DayLen \in Nat /\ k * DayLen \in Nat
  BY <1>3, LessTimes
<1>5. d < k => d * DayLen + DayLen <= k * DayLen
  BY <1>3, LessTimes
<1>6. k <= d => k * DayLen <= d * DayLen
  BY <1>3, LessTimes
<1>7. NoEnd = k * DayLen
  BY DEF NoEnd
<1> HIDE DEF k
<1>8. Slot(d, s) < NoEnd <=> d < k
  BY <1>3, <1>4, <1>5, <1>6, <1>7 DEF Slot
<1>9. QED
  BY <1>1, <1>2, <1>8 DEF DayOf, k

LEMMA DaysOfInstants ==
  ASSUME NEW t \in Nat
  PROVE  /\ DayOf(t) \in Nat /\ t % DayLen \in 0..(DayLen - 1)
         /\ t = Slot(DayOf(t), t % DayLen)
BY SeriesConstants, Divides DEF Slot, DayOf

LEMMA LaterDays ==
  ASSUME NEW d \in Nat, NEW n \in Nat, NEW s \in 0..(DayLen - 1)
  PROVE  Slot(d, s) + n * DayLen = Slot(d + n, s)
<1>1. (d + n) * DayLen = d * DayLen + n * DayLen
  BY SeriesConstants
<1>2. QED
  BY <1>1, SeriesConstants DEF Slot

-----------------------------------------------------------------------------
(* The dates of a rule, drawn here and by the clients.                     *)

\* Does the rule of a series that starts on day d0 give day d, for a client?
Fits(r, d0, d) ==
  LET days == IF r.days = {} THEN {WeekdayOf(d0)} ELSE r.days
      months == MonthOf(d) - MonthOf(d0)
  IN CASE r.freq = "daily" -> (d - d0) % r.every = 0
       [] r.freq = "weekly" ->
            /\ WeekdayOf(d) \in days
            /\ (d \div 7 - d0 \div 7) % r.every = 0
       [] r.freq = "monthly" ->
            /\ months % r.every = 0
            /\ IF r.mode = "date" THEN DateOf(d) = DateOf(d0)
               ELSE /\ WeekdayOf(d) = WeekdayOf(d0)
                    /\ IF r.mode = "last" THEN IsLastWeekday(d)
                       ELSE (DateOf(d) + 6) \div 7 = (DateOf(d0) + 6) \div 7

LEMMA ClientDatesMean ==
  ASSUME NEW row, row.rule.freq # "never"
  PROVE  ClientDates(row) =
           {row.start} \cup
           {t \in {Slot(d, row.start % DayLen) :
                    d \in {x \in DayOf(row.start)..LastDay :
                           Fits(row.rule, DayOf(row.start), x)}} :
              t <= row.until}
BY DEF ClientDates, Fits, Slot

\* What the board draws is drawn by the clients, but for the last days of months
\* that lack the date, and the other way round.
Shortens(r, d0, t) == r.freq = "monthly" /\ r.mode = "date" /\ DateOf(DayOf(t)) # DateOf(d0)
Drawn(r, d0, s) ==
  \A n \in 0..LastDay :
    n # 0 /\ Nth(Slot(d0, s), r, n) < NoEnd /\ ~Shortens(r, d0, Nth(Slot(d0, s), r, n)) =>
    \E d \in d0..LastDay : Fits(r, d0, d) /\ Nth(Slot(d0, s), r, n) = Slot(d, s)
Covered(r, d0, s) ==
  \A d \in d0..LastDay : Fits(r, d0, d) =>
    \E n \in 0..LastDay : Nth(Slot(d0, s), r, n) = Slot(d, s)
Start(d0, s) == d0 \in 0..LastDay /\ s \in 0..(DayLen - 1)

LEMMA LastDayType == LastDay \in Nat /\ MonthCount <= LastDay + 1
<1>1. MonthStart[MonthCount + 1] \in Nat /\ MonthCount <= MonthStart[MonthCount + 1]
  BY MonthStartType, SeriesConstants
<1>2. QED
  BY <1>1, SeriesConstants DEF LastDay, MonthCount

LEMMA SameDates ==
  ASSUME NEW row, row.rule.freq # "never", row.start \in Instants, row.start <= row.until,
         Drawn(row.rule, DayOf(row.start), row.start % DayLen),
         Covered(row.rule, DayOf(row.start), row.start % DayLen)
  PROVE  ClientDates(row) =
           {t \in Anchors(row) : ~Shortens(row.rule, DayOf(row.start), t)}
<1> DEFINE d0 == DayOf(row.start)
           s == row.start % DayLen
           r == row.rule
           A == {t \in Anchors(row) : ~Shortens(r, d0, t)}
           C == {t \in {Slot(d, s) : d \in {x \in d0..LastDay : Fits(r, d0, x)}} : t <= row.until}
<1>1. row.start \in Nat /\ NoEnd \in Nat /\ row.start < NoEnd
  BY LastDayType, SeriesConstants, LessTimes DEF Instants, NoEnd
<1>2. d0 \in Nat /\ s \in 0..(DayLen - 1) /\ row.start = Slot(d0, s) /\ d0 <= LastDay
  <2>1. d0 \in Nat /\ s \in 0..(DayLen - 1) /\ row.start = Slot(d0, s)
    BY <1>1, DaysOfInstants
  <2> HIDE DEF d0, s
  <2>2. d0 <= LastDay
    BY <1>1, <2>1, InstantsOfDays
  <2>3. QED
    BY <2>1, <2>2
<1>3. ClientDates(row) = {row.start} \cup C
  BY ClientDatesMean
<1>4. Anchors(row) = {t \in {Nth(row.start, r, n) : n \in 0..LastDay} :
                        t <= row.until /\ t < NoEnd}
  BY DEF Anchors, Within
<1>5. Nth(row.start, r, 0) = row.start /\ 0 \in 0..LastDay
  BY LastDayType DEF Nth
<1>6. ASSUME NEW t \in C PROVE t \in A
  <2>1. PICK d \in d0..LastDay : Fits(r, d0, d) /\ t = Slot(d, s) /\ t <= row.until
    OBVIOUS
  <2>2. PICK n \in 0..LastDay : Nth(Slot(d0, s), r, n) = Slot(d, s)
    BY <2>1 DEF Covered
  <2>3. d \in Nat /\ d <= LastDay
    BY <1>2, <2>1, LastDayType
  <2>4. Slot(d, s) < NoEnd
    BY <1>2, <2>3, InstantsOfDays
  <2>5. t \in Anchors(row)
    BY <1>2, <1>4, <2>1, <2>2, <2>4
  <2>6. DayOf(t) = d
    BY <1>2, <2>1, <2>3, InstantsOfDays
  <2>7. ~Shortens(r, d0, t)
    BY <2>1, <2>6 DEF Fits, Shortens
  <2>8. QED
    BY <2>5, <2>7
<1>7. ASSUME NEW t \in A PROVE t \in {row.start} \cup C
  <2>1. PICK n \in 0..LastDay : t = Nth(row.start, r, n) /\ t <= row.until /\ t < NoEnd
    BY <1>4
  <2>5. ~Shortens(r, d0, t)
    BY <1>7
  <2>2. CASE n = 0
    BY <1>5, <2>1, <2>2
  <2>3. CASE n # 0
    <3>1. PICK d \in d0..LastDay : Fits(r, d0, d) /\ Nth(Slot(d0, s), r, n) = Slot(d, s)
      BY <1>2, <2>1, <2>3, <2>5 DEF Drawn
    <3>2. QED
      BY <1>2, <2>1, <3>1
  <2>4. QED
    BY <2>2, <2>3
<1>8. row.start \in A
  BY <1>1, <1>4, <1>5 DEF Shortens
<1> HIDE DEF C, A
<1>9. ClientDates(row) = A
  BY <1>3, <1>6, <1>7, <1>8
<1>10. QED
  BY <1>9 DEF A

\* Multiples.
LEMMA Multiples ==
  ASSUME NEW a \in Nat, NEW e \in Nat, e >= 1
  PROVE  /\ a % e = 0 => a = (a \div e) * e /\ a \div e \in Nat
         /\ (a * e) % e = 0
<1>1. a % e = 0 => a = (a \div e) * e /\ a \div e \in Nat
  BY Divides
<1>2. 0 \in 0..(e - 1) /\ a * e = a * e + 0
  BY LessTimes
<1>3. (a * e) % e = 0
  BY <1>2, DividesOnce
<1>4. QED
  BY <1>1, <1>3

LEMMA DailyAlike ==
  ASSUME NEW r \in AnyRule, r.freq = "daily", NEW d0, NEW s, Start(d0, s)
  PROVE  Drawn(r, d0, s) /\ Covered(r, d0, s)
<1>1. r.every \in Nat /\ r.every >= 1 /\ d0 \in Nat /\ s \in 0..(DayLen - 1) /\ LastDay \in Nat
  BY LastDayType DEF AnyRule, Start
<1>2. ASSUME NEW n \in Nat
      PROVE  Nth(Slot(d0, s), r, n) = Slot(d0 + n * r.every, s) /\ n * r.every \in Nat
  <2>1. n * r.every \in Nat
    BY <1>1, LessTimes
  <2>2. Slot(d0, s) + (n * r.every) * DayLen = Slot(d0 + n * r.every, s)
    BY <1>1, <2>1, LaterDays
  <2>3. CASE n = 0
    BY <1>1, <2>3 DEF Nth
  <2>4. CASE n # 0
    BY <2>1, <2>2, <2>4 DEF Nth
  <2>5. QED
    BY <2>1, <2>3, <2>4
<1>3. ASSUME NEW d \in d0..LastDay PROVE Fits(r, d0, d) <=> (d - d0) % r.every = 0
  BY DEF Fits
<1>4. Drawn(r, d0, s)
  <2> SUFFICES ASSUME NEW n \in 0..LastDay, n # 0, Nth(Slot(d0, s), r, n) < NoEnd
               PROVE  \E d \in d0..LastDay : Fits(r, d0, d) /\ Nth(Slot(d0, s), r, n) = Slot(d, s)
    BY DEF Drawn
  <2> DEFINE d == d0 + n * r.every
  <2>1. n \in Nat /\ Nth(Slot(d0, s), r, n) = Slot(d, s) /\ n * r.every \in Nat
    BY <1>1, <1>2
  <2>2. d \in Nat /\ d - d0 = n * r.every /\ d0 <= d
    BY <1>1, <2>1
  <2> HIDE DEF d
  <2>3. d <= LastDay
    BY <1>1, <2>1, <2>2, InstantsOfDays
  <2>4. (d - d0) % r.every = 0
    BY <1>1, <2>1, <2>2, Multiples
  <2>5. QED
    BY <1>1, <1>3, <2>1, <2>2, <2>3, <2>4
<1>5. Covered(r, d0, s)
  <2> SUFFICES ASSUME NEW d \in d0..LastDay, Fits(r, d0, d)
               PROVE  \E n \in 0..LastDay : Nth(Slot(d0, s), r, n) = Slot(d, s)
    BY DEF Covered
  <2> DEFINE n == (d - d0) \div r.every
  <2>1. d - d0 \in Nat /\ (d - d0) % r.every = 0
    BY <1>1, <1>3
  <2>2. d - d0 = n * r.every /\ n \in Nat
    BY <1>1, <2>1, Multiples
  <2> HIDE DEF n
  <2>3. n <= n * r.every
    BY <1>1, <2>2, LessTimes
  <2>4. n \in 0..LastDay /\ d = d0 + n * r.every
    BY <1>1, <2>2, <2>3
  <2>5. QED
    BY <1>2, <2>2, <2>4
<1>6. QED
  BY <1>4, <1>5

-----------------------------------------------------------------------------
(* Weeks.                                                                  *)

\* How many members of S are less than o.
Rank(S, o) == Cardinality({x \in S : x < o})

LEMMA RanksMean ==
  ASSUME NEW S \in SUBSET (0..6)
  PROVE  /\ IsFiniteSet(S) /\ Cardinality(S) \in 0..7
         /\ \A o \in S : Rank(S, o) \in 0..(Cardinality(S) - 1) /\ Rank(S, o) <= o
         /\ \A o, p \in S : o < p => Rank(S, o) < Rank(S, p)
<1>1. IsFiniteSet(0..6) /\ Cardinality(0..6) = 7
  <2>1. 0 \in Int /\ 6 \in Int
    OBVIOUS
  <2>2. IsFiniteSet(0..6) /\ Cardinality(0..6) = IF 0 > 6 THEN 0 ELSE 6 - 0 + 1
    BY <2>1, FS_Interval
  <2>3. QED
    BY <2>2
<1>2. IsFiniteSet(S) /\ Cardinality(S) <= 7 /\ Cardinality(S) \in Nat
  BY <1>1, FS_Subset, FS_CardinalityType
<1>3. ASSUME NEW o \in S PROVE Rank(S, o) \in 0..(Cardinality(S) - 1) /\ Rank(S, o) <= o
  <2> DEFINE B == {x \in S : x < o}
  <2>1. o \in 0..6
    OBVIOUS
  <2>2. B \in SUBSET (S \ {o}) /\ B \in SUBSET (0..(o - 1))
    <3>1. \A x \in S : x \in Nat
      OBVIOUS
    <3>2. \A x \in B : x \in S /\ x < o /\ x \in Nat
      BY <3>1
    <3>3. \A x \in B : x \in S \ {o} /\ x \in 0..(o - 1)
      BY <2>1, <3>2
    <3> HIDE DEF B
    <3>4. QED
      BY <3>3
  <2>3. IsFiniteSet(S \ {o}) /\ Cardinality(S \ {o}) = Cardinality(S) - 1
    BY <1>2, FS_RemoveElement
  <2>4. IsFiniteSet(0..(o - 1)) /\ Cardinality(0..(o - 1)) = o
    <3>1. 0 \in Int /\ o - 1 \in Int
      BY <2>1
    <3>2. IsFiniteSet(0..(o - 1))
          /\ Cardinality(0..(o - 1)) = IF 0 > o - 1 THEN 0 ELSE (o - 1) - 0 + 1
      BY <3>1, FS_Interval
    <3>3. CASE o = 0
      <4>1. 0 > o - 1
        BY <3>3
      <4>2. QED
        BY <3>2, <3>3, <4>1
    <3>4. CASE o # 0
      <4>1. ~ (0 > o - 1) /\ (o - 1) - 0 + 1 = o
        BY <2>1, <3>4
      <4>2. QED
        BY <3>2, <4>1
    <3>5. QED
      BY <3>3, <3>4
  <2> HIDE DEF B
  <2>5. IsFiniteSet(B) /\ Cardinality(B) <= Cardinality(S) - 1
    <3> DEFINE T == S \ {o}
    <3>1. IsFiniteSet(T) /\ Cardinality(T) = Cardinality(S) - 1 /\ B \in SUBSET T
      BY <2>2, <2>3
    <3> HIDE DEF T
    <3>2. IsFiniteSet(B) /\ Cardinality(B) <= Cardinality(T)
      BY <3>1, FS_Subset
    <3>3. QED
      BY <3>1, <3>2
  <2>6. Cardinality(B) <= o
    BY <2>2, <2>4, FS_Subset
  <2>7. Cardinality(B) \in Nat
    BY <2>5, FS_CardinalityType
  <2>8. Rank(S, o) = Cardinality(B)
    BY DEF Rank, B
  <2>9. QED
    BY <1>2, <2>5, <2>6, <2>7, <2>8
<1>4. ASSUME NEW o \in S, NEW p \in S, o < p PROVE Rank(S, o) < Rank(S, p)
  <2> DEFINE B == {x \in S : x < o}
             C == {x \in S : x < p}
  <2>1. o \in 0..6 /\ p \in 0..6
    OBVIOUS
  <2>2. B \in SUBSET S /\ C \in SUBSET S /\ B \cup {o} \in SUBSET C /\ o \notin B
    <3>1. \A x \in S : x \in Int
      OBVIOUS
    <3>2. \A x \in S : x < o => x < p
      BY <1>4, <2>1, <3>1
    <3>3. B \subseteq S /\ C \subseteq S /\ B \subseteq C
      BY <3>2
    <3>4. o \in C /\ o \notin B
      BY <1>4, <2>1
    <3> HIDE DEF B, C
    <3>5. QED
      BY <3>3, <3>4
  <2> HIDE DEF B, C
  <2>3. IsFiniteSet(B) /\ IsFiniteSet(C)
    BY <1>2, <2>2, FS_Subset
  <2>4. Cardinality(B \cup {o}) = Cardinality(B) + 1
    BY <2>2, <2>3, FS_AddElement
  <2>5. Cardinality(B \cup {o}) <= Cardinality(C)
    BY <2>2, <2>3, FS_Subset
  <2>6. Cardinality(B) \in Nat /\ Cardinality(C) \in Nat
    BY <2>3, FS_CardinalityType
  <2>7. Rank(S, o) = Cardinality(B) /\ Rank(S, p) = Cardinality(C)
    BY DEF Rank, B, C
  <2>8. QED
    BY <2>4, <2>5, <2>6, <2>7
<1>5. QED
  BY <1>2, <1>3, <1>4

\* Each rank is that of one member.
LEMMA RanksReached ==
  ASSUME NEW S \in SUBSET (0..6), NEW j \in 0..(Cardinality(S) - 1)
  PROVE  /\ \E o \in S : Rank(S, o) = j
         /\ \A o, p \in S : Rank(S, o) = j /\ Rank(S, p) = j => o = p
<1> DEFINE k == Cardinality(S)
           T == 0..(k - 1)
           f == [o \in S |-> Rank(S, o)]
<1>1. IsFiniteSet(S) /\ k \in Nat /\ k >= 1
  BY RanksMean
<1>2. \A o, p \in S : Rank(S, o) = Rank(S, p) => o = p
  <2>1. TAKE o \in S, p \in S
  <2>2. o \in Int /\ p \in Int
    OBVIOUS
  <2>3. Rank(S, o) \in Int /\ Rank(S, p) \in Int
    BY RanksMean
  <2>4. o < p => Rank(S, o) < Rank(S, p)
    BY RanksMean
  <2>5. p < o => Rank(S, p) < Rank(S, o)
    BY RanksMean
  <2>6. QED
    BY <2>2, <2>3, <2>4, <2>5
<1>3. f \in [S -> T]
  <2>1. \A o \in S : Rank(S, o) \in T
    BY RanksMean
  <2>2. QED
    BY <2>1
<1>4. IsFiniteSet(T) /\ Cardinality(T) = k
  <2>1. 0 \in Int /\ k - 1 \in Int
    BY <1>1
  <2>2. IsFiniteSet(T) /\ Cardinality(T) = IF 0 > k - 1 THEN 0 ELSE (k - 1) - 0 + 1
    BY <2>1, FS_Interval
  <2>3. QED
    BY <1>1, <2>2
<1>5. f \in Injection(S, T)
  <2>1. \A a, b \in S : f[a] = f[b] => a = b
    BY <1>2
  <2> HIDE DEF f, T
  <2>2. f \in Injection(S, T) <=> f \in [S -> T] /\ \A a, b \in S : f[a] = f[b] => a = b
    BY DEF Injection, IsInjective
  <2>3. QED
    BY <1>3, <2>1, <2>2
<1>6. f \in Surjection(S, T)
  <2> HIDE DEF f, T
  <2>1. Cardinality(S) = Cardinality(T)
    BY <1>4 DEF k
  <2>2. QED
    BY <1>4, <1>5, <2>1, FS_Injection
<1>7. \E o \in S : f[o] = j
  <2>1. j \in T
    OBVIOUS
  <2> HIDE DEF f, T
  <2>2. QED
    BY <1>6, <2>1 DEF Surjection
<1>8. \E o \in S : Rank(S, o) = j
  BY <1>7
<1>9. QED
  BY <1>2, <1>8

LEMMA Weekdays ==
  ASSUME NEW d \in Nat
  PROVE  /\ WeekdayOf(d) \in 0..6 /\ d \div 7 \in Nat /\ d = (d \div 7) * 7 + WeekdayOf(d)
         /\ \A w \in 0..6 : Ahead(d, w) \in 0..6 /\ WeekdayOf(d + Ahead(d, w)) = w
         /\ \A o \in 0..6 : Ahead(d, WeekdayOf(d + o)) = o
         /\ \A q \in Nat : WeekdayOf(d + 7 * q) = WeekdayOf(d)
                           /\ (d + 7 * q) \div 7 = (d \div 7) + q
<1>1. WeekdayOf(d) \in 0..6 /\ d \div 7 \in Nat /\ d = (d \div 7) * 7 + WeekdayOf(d)
  BY DEF WeekdayOf
<1>2. ASSUME NEW w \in 0..6 PROVE Ahead(d, w) \in 0..6 /\ WeekdayOf(d + Ahead(d, w)) = w
  BY DEF WeekdayOf, Ahead
<1>3. ASSUME NEW o \in 0..6 PROVE Ahead(d, WeekdayOf(d + o)) = o
  BY DEF WeekdayOf, Ahead
<1>4. ASSUME NEW q \in Nat PROVE WeekdayOf(d + 7 * q) = WeekdayOf(d)
                           /\ (d + 7 * q) \div 7 = (d \div 7) + q
  BY DEF WeekdayOf
<1>5. QED
  BY <1>1, <1>2, <1>3, <1>4

\* The rule has one weekday, or names the weekday it starts on; and every week, or
\* that weekday is the first of its week.
WeeksSpelled(r, d0) ==
  r.days = {} \/ /\ WeekdayOf(d0) \in r.days
                 /\ r.every = 1 \/ \A w \in r.days : WeekdayOf(d0) <= w

\* Days of one week.
LEMMA WithinTheWeek ==
  ASSUME NEW d \in Nat, NEW w \in 0..6, WeekdayOf(d) <= w
  PROVE  Ahead(d, w) = w - WeekdayOf(d) /\ (d + Ahead(d, w)) \div 7 = d \div 7
<1> DEFINE v == WeekdayOf(d)
           q == d \div 7
<1>1. v \in 0..6 /\ q \in Nat /\ d = q * 7 + v
  BY Weekdays
<1>2. Ahead(d, w) = (w - v) % 7
  BY DEF Ahead
<1> HIDE DEF v, q
<1>3. w - v \in 0..6
  BY <1>1 DEF v
<1>4. Ahead(d, w) = w - v
  BY <1>2, <1>3
<1>5. d + Ahead(d, w) = q * 7 + w
  BY <1>1, <1>3, <1>4
<1>6. (q * 7 + w) \div 7 = q
  BY <1>1
<1>7. QED
  BY <1>4, <1>5, <1>6 DEF v, q

\* The n-th session of a weekly rule, for any way of writing n.
LEMMA WeeklyNth ==
  ASSUME NEW r \in AnyRule, r.freq = "weekly", NEW d0, NEW s, Start(d0, s),
         NEW S, S = WeeklyOffsets(Slot(d0, s), r.days),
         NEW q \in Nat, NEW o \in S, NEW n, n = q * Cardinality(S) + Rank(S, o)
  PROVE  n \in Nat /\ Nth(Slot(d0, s), r, n) = Slot(d0 + 7 * (q * r.every) + o, s)
<1>1. /\ r.every \in Nat /\ r.every >= 1 /\ d0 \in Nat /\ s \in 0..(DayLen - 1)
      /\ r.days \in SUBSET (0..6)
  BY LastDayType DEF AnyRule, Start
<1>2. DayOf(Slot(d0, s)) = d0
  BY <1>1, InstantsOfDays
<1>3. S = {0} \cup {Ahead(d0, w) : w \in r.days} /\ S \in SUBSET (0..6)
  <2>1. S = {0} \cup {Ahead(d0, w) : w \in r.days}
    BY <1>2 DEF WeeklyOffsets
  <2>2. \A w \in r.days : Ahead(d0, w) \in 0..6
    BY <1>1, Weekdays
  <2>3. QED
    BY <2>1, <2>2
<1> DEFINE k == Cardinality(S)
<1>4. k \in Nat /\ k >= 1 /\ Rank(S, o) \in 0..(k - 1) /\ 0 \in S /\ o \in 0..6
  BY <1>3, RanksMean
<1>5. n \in Nat /\ n \div k = q /\ n % k = Rank(S, o)
  <2> HIDE DEF k
  <2>1. n = q * k + Rank(S, o)
    BY DEF k
  <2>2. QED
    BY <1>4, <2>1, DividesOnce
<1>6. q * r.every \in Nat
  BY <1>1, LessTimes
<1>7. CASE n = 0
  <2>1. q = 0 /\ Rank(S, o) = 0
    <3> HIDE DEF k
    <3>1. 0 \in 0..(k - 1) /\ 0 = 0 * k + 0
      BY <1>4
    <3>2. 0 \div k = 0 /\ 0 % k = 0
      BY <1>4, <3>1, DividesOnce
    <3>3. QED
      BY <1>5, <1>7, <3>2
  <2>2. Rank(S, 0) = 0
    <3>1. \A x \in S : Rank(S, x) \in 0..(Cardinality(S) - 1) /\ Rank(S, x) <= x
      BY <1>3, RanksMean
    <3>2. Rank(S, 0) \in 0..(Cardinality(S) - 1) /\ Rank(S, 0) <= 0
      BY <1>4, <3>1
    <3>3. QED
      BY <3>2
  <2>3. 0 \in 0..(Cardinality(S) - 1)
    BY <1>4
  <2>4. o = 0
    BY <1>3, <1>4, <2>1, <2>2, <2>3, RanksReached
  <2>5. d0 + 7 * (q * r.every) + o = d0
    BY <1>1, <2>1, <2>4
  <2>6. QED
    BY <1>5, <1>7, <2>5 DEF Nth
<1>8. CASE n # 0
  <2> DEFINE slot == CHOOSE x \in S : Rank(S, x) = n % k
             gap == (n \div k) * 7 * r.every + slot
  <2>1. Nth(Slot(d0, s), r, n) = Slot(d0, s) + gap * DayLen
    BY <1>5, <1>8 DEF Nth, Rank
  <2>2. slot = o
    <3>1. n % k \in 0..(Cardinality(S) - 1)
      BY <1>4, <1>5
    <3>2. Rank(S, o) = n % k
      BY <1>5
    <3> HIDE DEF k
    <3>3. slot \in S /\ Rank(S, slot) = n % k
      BY <3>2
    <3> HIDE DEF slot
    <3>4. QED
      BY <1>3, <3>1, <3>2, <3>3, RanksReached
  <2>3. gap = q * 7 * r.every + o
    BY <1>5, <2>2
  <2> HIDE DEF gap
  <2>4. gap = 7 * (q * r.every) + o
    BY <1>1, <2>3
  <2>5. gap \in Nat /\ d0 + gap = d0 + 7 * (q * r.every) + o
    BY <1>1, <1>4, <1>6, <2>4
  <2>6. Slot(d0, s) + gap * DayLen = Slot(d0 + gap, s)
    BY <1>1, <2>5, LaterDays
  <2>7. QED
    BY <1>5, <2>1, <2>5, <2>6
<1>9. QED
  BY <1>7, <1>8

LEMMA WeeklyAlike ==
  ASSUME NEW r \in AnyRule, r.freq = "weekly", NEW d0, NEW s, Start(d0, s), WeeksSpelled(r, d0)
  PROVE  Drawn(r, d0, s) /\ Covered(r, d0, s)
<1>1. /\ r.every \in Nat /\ r.every >= 1 /\ d0 \in Nat /\ s \in 0..(DayLen - 1)
      /\ r.days \in SUBSET (0..6) /\ LastDay \in Nat
  BY LastDayType DEF AnyRule, Start
<1> DEFINE S == WeeklyOffsets(Slot(d0, s), r.days)
           k == Cardinality(S)
<1>2. S = {0} \cup {Ahead(d0, w) : w \in r.days} /\ S \in SUBSET (0..6)
  <2>1. S = {0} \cup {Ahead(d0, w) : w \in r.days}
    BY <1>1, InstantsOfDays DEF WeeklyOffsets
  <2>2. \A w \in r.days : Ahead(d0, w) \in 0..6
    BY <1>1, Weekdays
  <2>3. QED
    BY <2>1, <2>2
<1> HIDE DEF S
<1>3. k \in 0..7 /\ 0 \in S /\ k >= 1
  <2>1. 0 \in S
    BY <1>2
  <2>2. QED
    BY <1>2, <2>1, RanksMean
<1> HIDE DEF k
<1>4. ASSUME NEW d \in Nat
      PROVE  Fits(r, d0, d) <=>
               /\ WeekdayOf(d) \in (IF r.days = {} THEN {WeekdayOf(d0)} ELSE r.days)
               /\ ((d \div 7) - (d0 \div 7)) % r.every = 0
  BY DEF Fits
\* What an offset and a number of rounds make.
<1>5. ASSUME NEW q \in Nat, NEW o \in S
      PROVE  Fits(r, d0, d0 + 7 * (q * r.every) + o)
  <2> DEFINE p == q * r.every
             d == d0 + 7 * p + o
  <2>1. p \in Nat /\ o \in 0..6
    BY <1>1, <1>2, LessTimes
  <2>2. d \in Nat
    BY <1>1, <2>1
  <2>3. CASE r.days = {}
    <3>1. o = 0
      BY <1>2, <2>3
    <3>2. d = d0 + 7 * p
      BY <1>1, <2>1, <3>1
    <3> HIDE DEF p, d
    <3>3. WeekdayOf(d) = WeekdayOf(d0) /\ (d \div 7) = (d0 \div 7) + p /\ d0 \div 7 \in Nat
      BY <1>1, <2>1, <3>2, Weekdays
    <3>4. (d \div 7) - (d0 \div 7) = p
      BY <2>1, <3>3
    <3>5. p % r.every = 0
      BY <1>1, Multiples DEF p
    <3>6. Fits(r, d0, d)
      BY <1>4, <2>2, <2>3, <3>3, <3>4, <3>5
    <3>7. QED
      BY <3>6 DEF d, p
  <2>4. CASE r.days # {}
    <3>1. /\ WeekdayOf(d0) \in r.days
          /\ r.every = 1 \/ \A w \in r.days : WeekdayOf(d0) <= w
      BY <2>4 DEF WeeksSpelled
    <3>2. WeekdayOf(d0 + o) \in r.days
      <4>1. CASE o = 0
        <5>1. d0 + o = d0
          BY <1>1, <4>1
        <5>2. QED
          BY <3>1, <5>1
      <4>2. CASE o # 0
        <5>1. PICK w \in r.days : o = Ahead(d0, w)
          BY <1>2, <4>2
        <5>2. WeekdayOf(d0 + Ahead(d0, w)) = w
          BY <1>1, Weekdays
        <5>3. QED
          BY <5>1, <5>2
      <4>3. QED
        BY <4>1, <4>2
    <3>3. d0 + o \in Nat /\ d = (d0 + o) + 7 * p
      BY <1>1, <2>1
    <3>9. p % r.every = 0
      BY <1>1, Multiples
    <3> HIDE DEF p, d
    <3>4. WeekdayOf(d) = WeekdayOf(d0 + o)
      BY <2>1, <3>3, Weekdays
    <3>5. (d \div 7) - (d0 \div 7) \in Int
      BY <1>1, <2>2
    <3>6. ((d \div 7) - (d0 \div 7)) % r.every = 0
      <4>1. CASE r.every = 1
        BY <3>5, <4>1
      <4>2. CASE \A w \in r.days : WeekdayOf(d0) <= w
        <5>1. (d0 + o) \div 7 = d0 \div 7
          <6>1. CASE o = 0
            <7>1. d0 + o = d0
              BY <1>1, <6>1
            <7>2. QED
              BY <7>1
          <6>2. CASE o # 0
            <7>1. PICK w \in r.days : o = Ahead(d0, w)
              BY <1>2, <6>2
            <7>2. w \in 0..6 /\ WeekdayOf(d0) <= w
              BY <1>1, <4>2
            <7>3. (d0 + Ahead(d0, w)) \div 7 = d0 \div 7
              BY <1>1, <7>2, WithinTheWeek
            <7>4. QED
              BY <7>1, <7>3
          <6>3. QED
            BY <6>1, <6>2
        <5>2. d \div 7 = ((d0 + o) \div 7) + p
          BY <2>1, <3>3, Weekdays
        <5>3. d0 \div 7 \in Nat
          BY <1>1, Weekdays
        <5>4. (d \div 7) - (d0 \div 7) = p
          BY <2>1, <5>1, <5>2, <5>3
        <5>5. QED
          BY <3>9, <5>4
      <4>3. QED
        BY <3>1, <4>1, <4>2
    <3>7. Fits(r, d0, d)
      BY <1>4, <2>2, <2>4, <3>2, <3>4, <3>6
    <3>8. QED
      BY <3>7 DEF d, p
  <2>5. QED
    BY <2>3, <2>4
<1>6. Drawn(r, d0, s)
  <2> SUFFICES ASSUME NEW n \in 0..LastDay, n # 0, Nth(Slot(d0, s), r, n) < NoEnd
               PROVE  \E d \in d0..LastDay : Fits(r, d0, d) /\ Nth(Slot(d0, s), r, n) = Slot(d, s)
    BY DEF Drawn
  <2> DEFINE q == n \div k
  <2>0. n \in Nat /\ k \in Nat /\ k >= 1
    BY <1>1, <1>3
  <2>1. n \in Nat /\ q \in Nat /\ n % k \in 0..(k - 1) /\ n = q * k + (n % k)
    BY <2>0, Divides
  <2>2. PICK o \in S : Rank(S, o) = n % k
    BY <1>2, <2>1, RanksReached DEF k
  <2> HIDE DEF q
  <2>3. n = q * Cardinality(S) + Rank(S, o)
    BY <2>1, <2>2 DEF k
  <2> DEFINE d == d0 + 7 * (q * r.every) + o
  <2>4. Nth(Slot(d0, s), r, n) = Slot(d, s)
    BY <2>1, <2>3, WeeklyNth DEF S
  <2>5. Fits(r, d0, d)
    BY <1>5, <2>1
  <2>6. d \in Nat /\ d0 <= d
    <3>1. q * r.every \in Nat /\ o \in 0..6
      BY <1>1, <1>2, <2>1, LessTimes
    <3>2. QED
      BY <1>1, <3>1
  <2> HIDE DEF d
  <2>7. d <= LastDay
    BY <1>1, <2>4, <2>6, InstantsOfDays
  <2>8. QED
    BY <1>1, <2>4, <2>5, <2>6, <2>7
<1>7. Covered(r, d0, s)
  <2> SUFFICES ASSUME NEW d \in d0..LastDay, Fits(r, d0, d)
               PROVE  \E n \in 0..LastDay : Nth(Slot(d0, s), r, n) = Slot(d, s)
    BY DEF Covered
  <2>1. d \in Nat /\ d0 <= d /\ d <= LastDay
    BY <1>1
  <2>2. /\ WeekdayOf(d) \in (IF r.days = {} THEN {WeekdayOf(d0)} ELSE r.days)
        /\ ((d \div 7) - (d0 \div 7)) % r.every = 0
    BY <1>4, <2>1
  <2>3. PICK q \in Nat, o \in S : d = d0 + 7 * (q * r.every) + o
    <3>1. CASE r.days = {}
      <4> DEFINE p == (d \div 7) - (d0 \div 7)
      <4>1. WeekdayOf(d) = WeekdayOf(d0)
        BY <2>2, <3>1
      <4>2. p \in Nat /\ d = d0 + 7 * p
        <5>1. /\ d \div 7 \in Nat /\ d = (d \div 7) * 7 + WeekdayOf(d)
              /\ d0 \div 7 \in Nat /\ d0 = (d0 \div 7) * 7 + WeekdayOf(d0)
              /\ WeekdayOf(d) \in 0..6
          BY <1>1, <2>1, Weekdays
        <5>2. QED
          BY <2>1, <4>1, <5>1
      <4>3. p % r.every = 0
        BY <2>2
      <4> HIDE DEF p
      <4>4. p = (p \div r.every) * r.every /\ p \div r.every \in Nat
        BY <1>1, <4>2, <4>3, Multiples
      <4>5. d = d0 + 7 * ((p \div r.every) * r.every) + 0
        BY <1>1, <4>2, <4>4
      <4>6. QED
        BY <1>3, <4>4, <4>5
    <3>4. CASE r.days # {} /\ r.every # 1
      <4> DEFINE p == (d \div 7) - (d0 \div 7)
                 w == WeekdayOf(d)
                 o == Ahead(d0, w)
      <4>1. w \in r.days /\ w \in 0..6 /\ WeekdayOf(d0) <= w
        BY <1>1, <2>2, <3>4 DEF WeeksSpelled
      <4>2. o = w - WeekdayOf(d0)
        BY <1>1, <4>1, WithinTheWeek
      <4>3. o \in S
        BY <1>2, <4>1
      <4>4. p \in Nat /\ d = d0 + 7 * p + o
        <5>1. /\ d \div 7 \in Nat /\ d = (d \div 7) * 7 + w
              /\ d0 \div 7 \in Nat /\ d0 = (d0 \div 7) * 7 + WeekdayOf(d0)
              /\ w \in 0..6 /\ WeekdayOf(d0) \in 0..6
          BY <1>1, <2>1, Weekdays
        <5> DEFINE x == d \div 7
                   y == d0 \div 7
                   v == WeekdayOf(d0)
        <5>2. x \in Nat /\ y \in Nat /\ d = x * 7 + w /\ d0 = y * 7 + v /\ o = w - v
          BY <4>2, <5>1
        <5>3. w \in 0..6 /\ v \in 0..6 /\ p = x - y /\ d0 <= d
          BY <2>1, <5>1
        <5> HIDE DEF o, w, p, x, y, v
        <5>4. p \in Nat
          BY <5>2, <5>3
        <5>5. QED
          BY <5>2, <5>3, <5>4
      <4>5. p % r.every = 0
        BY <2>2
      <4> HIDE DEF p, o
      <4>6. p = (p \div r.every) * r.every /\ p \div r.every \in Nat
        BY <1>1, <4>4, <4>5, Multiples
      <4>7. d = d0 + 7 * ((p \div r.every) * r.every) + o
        BY <4>4, <4>6
      <4>8. QED
        BY <4>3, <4>6, <4>7
    <3>2. CASE r.days # {} /\ r.every = 1
      <4> DEFINE q == (d - d0) \div 7
                 o == (d - d0) % 7
      <4>1. q \in Nat /\ o \in 0..6 /\ d - d0 = q * 7 + o
        <5>1. d - d0 \in Nat
          BY <1>1, <2>1
        <5>2. \A t \in Nat : t \div 7 \in Nat /\ t % 7 \in 0..6 /\ t = (t \div 7) * 7 + (t % 7)
          OBVIOUS
        <5>3. QED
          BY <5>1, <5>2
      <4> HIDE DEF q, o
      <4>2. d = (d0 + o) + 7 * q /\ d0 + o \in Nat
        BY <1>1, <2>1, <4>1
      <4>3. WeekdayOf(d) = WeekdayOf(d0 + o)
        BY <4>1, <4>2, Weekdays
      <4>4. o = Ahead(d0, WeekdayOf(d))
        BY <1>1, <4>1, <4>3, Weekdays
      <4>5. o \in S
        BY <1>2, <2>2, <3>2, <4>4
      <4>6. r.every = 1
        BY <3>2
      <4>7. d = d0 + 7 * (q * r.every) + o
        BY <1>1, <4>1, <4>2, <4>6
      <4>8. QED
        BY <4>1, <4>5, <4>7
    <3>3. QED
      BY <3>1, <3>2, <3>4
  <2> DEFINE n == q * Cardinality(S) + Rank(S, o)
  <2>4. n \in Nat /\ Nth(Slot(d0, s), r, n) = Slot(d, s)
    BY <2>3, WeeklyNth DEF S
  <2>5. n <= LastDay
    <3>1. q * k <= q * 7 /\ q * k \in Nat
      <4>1. \A x \in Nat, y \in 0..7 : x * y <= x * 7 /\ x * y \in Nat
        BY SMT
      <4>2. QED
        BY <1>3, <4>1
    <3>2. q <= q * r.every /\ q * r.every \in Nat
      BY <1>1, LessTimes
    <3>3. Rank(S, o) <= o /\ Rank(S, o) \in Int /\ o \in 0..6
      <4>1. \A x \in S : Rank(S, x) \in 0..(Cardinality(S) - 1) /\ Rank(S, x) <= x
        BY <1>2, RanksMean
      <4>2. Rank(S, o) \in 0..(Cardinality(S) - 1) /\ Rank(S, o) <= o
        BY <4>1
      <4>3. QED
        BY <1>2, <4>2
    <3>4. n = q * k + Rank(S, o)
      BY DEF k
    <3> HIDE DEF n
    <3>5. QED
      BY <1>1, <2>1, <2>3, <3>1, <3>2, <3>3, <3>4
  <2>6. QED
    BY <1>1, <2>4, <2>5
<1>8. QED
  BY <1>6, <1>7

-----------------------------------------------------------------------------
(* Months.                                                                 *)

\* The date that a monthly rule keeps, and what makes it one of each month.
Kept(r, d0, d) ==
  IF r.mode = "date" THEN DateOf(d) = DateOf(d0)
  ELSE /\ WeekdayOf(d) = WeekdayOf(d0)
       /\ IF r.mode = "last" THEN IsLastWeekday(d)
          ELSE (DateOf(d) + 6) \div 7 = (DateOf(d0) + 6) \div 7
MonthsSpelled(r, d0) ==
  /\ r.mode = "last" => IsLastWeekday(d0)
  /\ r.mode = "nth" => DateOf(d0) <= 28

\* Day d ends a month that lacks the date.
EndsShortMonth(r, d0, d) ==
  r.mode = "date" /\ DateOf(d) # DateOf(d0) /\ MonthLengths[MonthOf(d)] < DateOf(d0)

LEMMA MonthFacts ==
  ASSUME NEW m \in 1..MonthCount
  PROVE  /\ MonthStart[m] \in Nat /\ MonthLengths[m] \in 28..31
         /\ MonthStart[m + 1] = MonthStart[m] + MonthLengths[m]
         /\ m - 1 <= MonthStart[m] /\ MonthStart[m + 1] <= LastDay + 1
<1>1. MonthStart[m] \in Nat /\ m - 1 <= MonthStart[m]
  BY MonthStartType, SeriesConstants
<1>2. MonthLengths[m] \in 28..31 /\ MonthStart[m + 1] = MonthStart[m] + MonthLengths[m]
  BY MonthStartMeans, SeriesConstants
<1>3. /\ m + 1 \in 1..(MonthCount + 1) /\ MonthCount + 1 \in 1..(MonthCount + 1)
      /\ m + 1 < MonthCount + 1 \/ m + 1 = MonthCount + 1
  BY SeriesConstants
<1>4. MonthStart[m + 1] <= MonthStart[MonthCount + 1]
  BY <1>3, MonthStartGrows, MonthStartType
<1>5. LastDay = MonthStart[MonthCount + 1] - 1 /\ MonthStart[MonthCount + 1] \in Nat
  BY <1>3, MonthStartType DEF LastDay, MonthCount
<1>6. QED
  BY <1>1, <1>2, <1>4, <1>5

\* A date of a month.
LEMMA DateInMonth ==
  ASSUME NEW m \in 1..MonthCount, NEW x \in 1..MonthLengths[m]
  PROVE  /\ MonthStart[m] + x - 1 \in 0..LastDay /\ In(MonthStart[m] + x - 1, m)
         /\ MonthOf(MonthStart[m] + x - 1) = m /\ DateOf(MonthStart[m] + x - 1) = x
<1> DEFINE d == MonthStart[m] + x - 1
<1>1. x \in Nat /\ x >= 1 /\ x <= MonthLengths[m]
  BY MonthFacts
<1>2. d \in Nat /\ In(d, m) /\ d <= LastDay /\ d - MonthStart[m] + 1 = x
  BY <1>1, MonthFacts, LastDayType DEF In
<1> HIDE DEF d
<1>3. MonthOf(d) = m /\ DateOf(d) = x
  BY <1>2, InOneMonth
<1>4. d \in 0..LastDay
  BY <1>2, LastDayType
<1>5. QED
  BY <1>2, <1>3, <1>4 DEF d

LEMMA KeptOnce ==
  ASSUME NEW r \in AnyRule, NEW d0, NEW d \in 0..LastDay, NEW e \in 0..LastDay,
         MonthOf(d) = MonthOf(e), Kept(r, d0, d), Kept(r, d0, e)
  PROVE  d = e
<1> DEFINE m == MonthOf(d)
<1>1. /\ d \in Nat /\ e \in Nat /\ m \in 1..MonthCount /\ MonthStart[m] \in Nat
      /\ MonthLengths[m] \in 28..31
      /\ DateOf(d) = d - MonthStart[m] + 1 /\ DateOf(e) = e - MonthStart[m] + 1
      /\ DateOf(d) \in 1..MonthLengths[m] /\ DateOf(e) \in 1..MonthLengths[m]
  BY EveryDayInAMonth, MonthFacts, LastDayType
<1> DEFINE L == MonthLengths[m]
           a == MonthStart[m]
<1>2. /\ a \in Nat /\ L \in 28..31 /\ DateOf(d) = d - a + 1 /\ DateOf(e) = e - a + 1
      /\ d - a + 1 \in 1..L /\ e - a + 1 \in 1..L
  BY <1>1
<1>3. IsLastWeekday(d) => d - a + 8 > L
  BY <1>2 DEF IsLastWeekday
<1>4. IsLastWeekday(e) => e - a + 8 > L
  BY <1>2 DEF IsLastWeekday
<1> HIDE DEF m, L, a
<1>5. CASE r.mode = "date"
  BY <1>1, <1>2, <1>5 DEF Kept
<1>6. CASE r.mode = "last"
  <2>1. d - a + 8 > L /\ e - a + 8 > L /\ d % 7 = e % 7
    BY <1>3, <1>4, <1>6 DEF Kept, WeekdayOf
  <2>2. d - e \in (-6)..6
    BY <1>1, <1>2, <2>1
  <2>3. QED
    BY <1>1, <2>1, <2>2
<1>7. CASE r.mode \notin {"date", "last"}
  <2>1. (DateOf(d) + 6) \div 7 = (DateOf(e) + 6) \div 7 /\ d % 7 = e % 7
    BY <1>7 DEF Kept, WeekdayOf
  <2>2. DateOf(d) - DateOf(e) \in (-6)..6
    <3>1. DateOf(d) \in Nat /\ DateOf(e) \in Nat
      BY <1>2
    <3>2. \A x, y \in Nat : (x + 6) \div 7 = (y + 6) \div 7 => x - y \in (-6)..6
      OBVIOUS
    <3>3. QED
      BY <2>1, <3>1, <3>2
  <2>3. d - e \in (-6)..6
    BY <1>1, <1>2, <2>2
  <2>4. QED
    BY <1>1, <2>1, <2>3
<1>8. QED
  BY <1>5, <1>6, <1>7

LEMMA LessOfTwo ==
  ASSUME NEW a \in Nat, NEW b \in Nat, a <= b PROVE Min({a, b}) = a /\ Min({b, a}) = a
<1>1. {a, b} \in SUBSET Nat /\ {a, b} # {} /\ {b, a} = {a, b}
  OBVIOUS
<1>2. Min({a, b}) \in {a, b} /\ \A y \in {a, b} : Min({a, b}) <= y
  BY <1>1, LeastOf
<1>3. Min({a, b}) \in Nat /\ Min({a, b}) <= a /\ (Min({a, b}) = a \/ Min({a, b}) = b)
  BY <1>2
<1>4. Min({a, b}) = a
  BY <1>3
<1>5. QED
  BY <1>1, <1>4

LEMMA OnMeans ==
  ASSUME NEW d0 \in Nat, NEW s \in 0..(DayLen - 1), NEW m, NEW x
  PROVE  On(Slot(d0, s), m, x) = Slot(MonthStart[m] + x - 1, s)
BY InstantsOfDays DEF On, Slot

\* The n-th session of a monthly rule: the date kept in the n-th of its months.
LEMMA MonthlyNth ==
  ASSUME NEW r \in AnyRule, r.freq = "monthly", NEW d0, NEW s, Start(d0, s),
         MonthsSpelled(r, d0),
         NEW n \in Nat, n # 0, NEW m \in Nat, m = MonthOf(d0) + n * r.every, m >= 1
  PROVE  /\ m > MonthCount => Nth(Slot(d0, s), r, n) = NoEnd
         /\ m <= MonthCount =>
              \E d \in 0..LastDay :
                /\ MonthOf(d) = m /\ Nth(Slot(d0, s), r, n) = Slot(d, s)
                /\ Kept(r, d0, d) \/ EndsShortMonth(r, d0, d)
<1>1. /\ d0 \in 0..LastDay /\ d0 \in Nat /\ s \in 0..(DayLen - 1)
      /\ DayOf(Slot(d0, s)) = d0 /\ MonthCount \in Nat
  BY LastDayType, InstantsOfDays, SeriesConstants DEF Start
<1>2. Nth(Slot(d0, s), r, n) =
        IF m > MonthCount THEN NoEnd
        ELSE IF r.mode = "date" THEN StepMonths(Slot(d0, s), m)
        ELSE StepMonthsByWeekday(Slot(d0, s), m, r.mode)
  BY <1>1 DEF Nth, MonthCount
<1>3. CASE m > MonthCount
  BY <1>1, <1>2, <1>3
<1>4. CASE m <= MonthCount
  <2>1. /\ m \in 1..MonthCount /\ MonthLengths[m] \in 28..31 /\ MonthStart[m] \in Nat
        /\ MonthStart[m + 1] = MonthStart[m] + MonthLengths[m]
    BY <1>1, <1>4, MonthFacts
  <2>2. DateOf(d0) \in Nat /\ DateOf(d0) >= 1
    BY <1>1, EveryDayInAMonth, MonthFacts
  <2>3. WeekdayOf(d0) \in 0..6
    BY <1>1, Weekdays
  <2> DEFINE Meant(d) == Kept(r, d0, d) \/ EndsShortMonth(r, d0, d)
  <2>4. SUFFICES \E x \in 1..MonthLengths[m] :
                   /\ Meant(MonthStart[m] + x - 1)
                   /\ Nth(Slot(d0, s), r, n) = On(Slot(d0, s), m, x)
    <3>1. PICK x \in 1..MonthLengths[m] :
                 /\ Meant(MonthStart[m] + x - 1)
                 /\ Nth(Slot(d0, s), r, n) = On(Slot(d0, s), m, x)
      BY <2>4
    <3>2. Nth(Slot(d0, s), r, n) = Slot(MonthStart[m] + x - 1, s)
      BY <1>1, <3>1, OnMeans
    <3>3. MonthStart[m] + x - 1 \in 0..LastDay /\ MonthOf(MonthStart[m] + x - 1) = m
      BY <2>1, DateInMonth
    <3>4. ~ (m > MonthCount)
      BY <1>1, <1>4
    <3>5. QED
      BY <3>1, <3>2, <3>3, <3>4
  <2>10. CASE r.mode = "date" /\ DateOf(d0) > MonthLengths[m]
    <3> DEFINE x == MonthLengths[m]
    <3>1. x \in 1..MonthLengths[m] /\ x \in Nat /\ x <= DateOf(d0) /\ x # DateOf(d0)
      BY <2>1, <2>2, <2>10
    <3>2. Min({DateOf(d0), x}) = x
      BY <2>2, <3>1, LessOfTwo
    <3>3. Nth(Slot(d0, s), r, n) = On(Slot(d0, s), m, x)
      BY <1>1, <1>2, <1>4, <2>10, <3>2 DEF StepMonths
    <3>4. DateOf(MonthStart[m] + x - 1) = x /\ MonthOf(MonthStart[m] + x - 1) = m
      BY <2>1, <3>1, DateInMonth
    <3>5. EndsShortMonth(r, d0, MonthStart[m] + x - 1)
      BY <2>10, <3>1, <3>4 DEF EndsShortMonth
    <3>6. QED
      BY <3>1, <3>3, <3>5
  <2>5. CASE r.mode = "date" /\ ~(DateOf(d0) > MonthLengths[m])
    <3> DEFINE x == DateOf(d0)
    <3>1. x <= MonthLengths[m] /\ x \in 1..MonthLengths[m]
      BY <2>1, <2>2, <2>5
    <3>2. Min({x, MonthLengths[m]}) = x
      BY <2>1, <2>2, <3>1, LessOfTwo
    <3>3. Nth(Slot(d0, s), r, n) = On(Slot(d0, s), m, x)
      BY <1>1, <1>2, <1>4, <2>5, <3>2 DEF StepMonths
    <3>4. DateOf(MonthStart[m] + x - 1) = x
      BY <2>1, <3>1, DateInMonth
    <3>5. Kept(r, d0, MonthStart[m] + x - 1)
      BY <2>5, <3>4 DEF Kept
    <3>6. QED
      BY <3>1, <3>3, <3>5
  <2>6. CASE r.mode = "last"
    <3> DEFINE last == MonthStart[m + 1] - 1
               g == (WeekdayOf(last) - WeekdayOf(d0)) % 7
               x == MonthLengths[m] - g
    <3>1. last \in Nat /\ last = MonthStart[m] + MonthLengths[m] - 1
      BY <2>1
    <3>2. WeekdayOf(last) \in 0..6
      BY <3>1, Weekdays
    <3>3. g \in 0..6 /\ WeekdayOf(last - g) = WeekdayOf(d0)
      <4>1. g \in 0..6
        BY <2>3, <3>2
      <4>2. \A a, b \in Nat : (a - (((a % 7) - (b % 7)) % 7)) % 7 = b % 7
        <5>1. TAKE a \in Nat, b \in Nat
        <5> DEFINE h == ((a % 7) - (b % 7)) % 7
        <5>2. a % 7 \in 0..6 /\ b % 7 \in 0..6 /\ a \div 7 \in Nat /\ a = (a \div 7) * 7 + (a % 7)
          BY <5>1
        <5>3. h = (IF a % 7 >= b % 7 THEN 0 ELSE 7) + (a % 7) - (b % 7)
          BY <5>2
        <5> HIDE DEF h
        <5>4. (a - h) % 7 = b % 7
          BY <5>2, <5>3
        <5>5. QED
          BY <5>4 DEF h
      <4>3. (last - g) % 7 = d0 % 7
        <5> HIDE DEF last
        <5>1. (last - (((last % 7) - (d0 % 7)) % 7)) % 7 = d0 % 7
          BY <1>1, <3>1, <4>2
        <5>2. QED
          BY <5>1 DEF WeekdayOf
      <4>4. QED
        BY <4>1, <4>3 DEF WeekdayOf
    <3>4. Nth(Slot(d0, s), r, n) = On(Slot(d0, s), m, x)
      BY <1>1, <1>2, <1>4, <2>6 DEF StepMonthsByWeekday
    <3> HIDE DEF last, g
    <3>5. x \in 1..MonthLengths[m] /\ MonthStart[m] + x - 1 = last - g
      BY <2>1, <3>1, <3>3
    <3>6. MonthOf(MonthStart[m] + x - 1) = m /\ DateOf(MonthStart[m] + x - 1) = x
      BY <2>1, <3>5, DateInMonth
    <3>7. IsLastWeekday(MonthStart[m] + x - 1)
      <4>1. x + 7 > MonthLengths[m]
        BY <2>1, <3>3
      <4>2. QED
        BY <3>6, <4>1 DEF IsLastWeekday
    <3>8. Kept(r, d0, MonthStart[m] + x - 1)
      BY <2>6, <3>3, <3>5, <3>7 DEF Kept
    <3>9. QED
      BY <3>4, <3>5, <3>8
  <2>7. CASE r.mode = "nth"
    <3> DEFINE w == (DateOf(d0) + 6) \div 7
               A == Ahead(MonthStart[m], WeekdayOf(d0))
               x == 1 + A + (w - 1) * 7
    <3>1. DateOf(d0) <= 28
      BY <2>7 DEF MonthsSpelled
    <3>2. w \in 1..4
      BY <2>2, <3>1
    <3>3. Min({4, w}) = w
      BY <3>2, LessOfTwo
    <3>4. Nth(Slot(d0, s), r, n) = On(Slot(d0, s), m, x)
      BY <1>1, <1>2, <1>4, <2>7, <3>3 DEF StepMonthsByWeekday
    <3>5. A \in 0..6 /\ WeekdayOf(MonthStart[m] + A) = WeekdayOf(d0)
      <4> HIDE DEF w
      <4>1. ASSUME NEW a \in Nat, NEW y \in 0..6
            PROVE  Ahead(a, y) \in 0..6 /\ WeekdayOf(a + Ahead(a, y)) = y
        BY Weekdays
      <4>2. QED
        BY <2>1, <2>3, <4>1
    <3> HIDE DEF w, A
    <3>6. /\ x \in 1..MonthLengths[m] /\ MonthStart[m] + x - 1 = (MonthStart[m] + A) + 7 * (w - 1)
          /\ MonthStart[m] + A \in Nat /\ w - 1 \in Nat
      BY <2>1, <3>2, <3>5
    <3>7. WeekdayOf(MonthStart[m] + x - 1) = WeekdayOf(d0)
      <4>1. ASSUME NEW a \in Nat, NEW q \in Nat PROVE WeekdayOf(a + 7 * q) = WeekdayOf(a)
        BY Weekdays
      <4>2. WeekdayOf((MonthStart[m] + A) + 7 * (w - 1)) = WeekdayOf(MonthStart[m] + A)
        BY <3>6, <4>1
      <4>3. QED
        BY <3>5, <3>6, <4>2
    <3>8. DateOf(MonthStart[m] + x - 1) = x
      BY <2>1, <3>6, DateInMonth
    <3>9. (x + 6) \div 7 = w
      BY <3>2, <3>5
    <3>10. Kept(r, d0, MonthStart[m] + x - 1)
      BY <2>7, <3>7, <3>8, <3>9 DEF Kept, w
    <3>11. QED
      BY <3>4, <3>6, <3>10
  <2>8. r.mode \in {"date", "nth", "last"}
    BY DEF AnyRule
  <2>9. QED
    BY <2>5, <2>6, <2>7, <2>8, <2>10
<1>5. QED
  BY <1>1, <1>3, <1>4

LEMMA MonthlyAlike ==
  ASSUME NEW r \in AnyRule, r.freq = "monthly", NEW d0, NEW s, Start(d0, s), MonthsSpelled(r, d0)
  PROVE  Drawn(r, d0, s) /\ Covered(r, d0, s)
<1> DEFINE m0 == MonthOf(d0)
<1>1. /\ r.every \in Nat /\ r.every >= 1 /\ d0 \in Nat /\ s \in 0..(DayLen - 1)
      /\ d0 \in 0..LastDay /\ LastDay \in Nat /\ MonthCount \in Nat
  BY LastDayType, SeriesConstants DEF AnyRule, Start
<1>2. In(d0, m0) /\ m0 \in 1..MonthCount
  BY <1>1, EveryDayInAMonth
<1>3. Kept(r, d0, d0)
  <2>1. r.mode \in {"date", "nth", "last"}
    BY DEF AnyRule
  <2>2. QED
    BY <2>1 DEF Kept, MonthsSpelled
<1> HIDE DEF m0
<1>4. ASSUME NEW d PROVE Fits(r, d0, d) <=> (MonthOf(d) - m0) % r.every = 0 /\ Kept(r, d0, d)
  BY DEF Fits, Kept, m0
<1>5. Drawn(r, d0, s)
  <2> SUFFICES ASSUME NEW n \in 0..LastDay, n # 0, Nth(Slot(d0, s), r, n) < NoEnd,
                      ~Shortens(r, d0, Nth(Slot(d0, s), r, n))
               PROVE  \E d \in d0..LastDay : Fits(r, d0, d) /\ Nth(Slot(d0, s), r, n) = Slot(d, s)
    BY DEF Drawn
  <2> DEFINE m == m0 + n * r.every
  <2>1. n \in Nat /\ n * r.every \in Nat /\ n <= n * r.every
    BY <1>1, LessTimes
  <2>2. m \in Nat /\ m >= 1 /\ m0 < m /\ m - m0 = n * r.every
    BY <1>1, <1>2, <2>1
  <2>3. /\ m > MonthCount => Nth(Slot(d0, s), r, n) = NoEnd
        /\ m <= MonthCount =>
              \E d \in 0..LastDay :
                /\ MonthOf(d) = m /\ Nth(Slot(d0, s), r, n) = Slot(d, s)
                /\ Kept(r, d0, d) \/ EndsShortMonth(r, d0, d)
    BY <2>1, <2>2, MonthlyNth DEF m0
  <2> HIDE DEF m
  <2>4. NoEnd \in Nat
    BY <1>1, SeriesConstants, LessTimes DEF NoEnd
  <2>5. m <= MonthCount
    <3>1. ~ (NoEnd < NoEnd)
      BY <2>4
    <3>2. ~ (m > MonthCount)
      BY <2>3, <3>1
    <3>3. QED
      BY <1>1, <2>2, <3>2
  <2>6. PICK d \in 0..LastDay :
          MonthOf(d) = m /\ Kept(r, d0, d) /\ Nth(Slot(d0, s), r, n) = Slot(d, s)
    <3>1. PICK d \in 0..LastDay :
            /\ MonthOf(d) = m /\ Nth(Slot(d0, s), r, n) = Slot(d, s)
            /\ Kept(r, d0, d) \/ EndsShortMonth(r, d0, d)
      BY <2>3, <2>5
    <3>2. DayOf(Slot(d, s)) = d
      BY <1>1, <3>1, InstantsOfDays
    <3>3. ~EndsShortMonth(r, d0, d)
      BY <3>1, <3>2 DEF EndsShortMonth, Shortens
    <3>4. QED
      BY <3>1, <3>3
  <2>7. d0 <= d
    <3>1. In(d, m)
      BY <2>6, EveryDayInAMonth
    <3>2. m0 + 1 \in 1..(MonthCount + 1) /\ m \in 1..(MonthCount + 1) /\ m0 + 1 <= m
      BY <1>1, <1>2, <2>2, <2>5
    <3>3. MonthStart[m0 + 1] <= MonthStart[m] /\ MonthStart[m0 + 1] \in Nat /\ MonthStart[m] \in Nat
      <4>1. m0 + 1 = m \/ m0 + 1 < m
        BY <1>2, <2>2, <3>2
      <4>2. MonthStart[m0 + 1] \in Nat /\ MonthStart[m] \in Nat
        BY <3>2, MonthStartType
      <4>3. QED
        BY <3>2, <4>1, <4>2, MonthStartGrows
    <3>4. QED
      BY <1>1, <1>2, <3>1, <3>3 DEF In
  <2>8. (MonthOf(d) - m0) % r.every = 0
    BY <1>1, <2>1, <2>2, <2>6, Multiples
  <2>9. d \in d0..LastDay
    BY <1>1, <2>7
  <2>10. QED
    BY <1>4, <2>6, <2>8, <2>9
<1>6. Covered(r, d0, s)
  <2> SUFFICES ASSUME NEW d \in d0..LastDay, Fits(r, d0, d)
               PROVE  \E n \in 0..LastDay : Nth(Slot(d0, s), r, n) = Slot(d, s)
    BY DEF Covered
  <2> DEFINE m == MonthOf(d)
             n == (m - m0) \div r.every
  <2>1. d \in 0..LastDay /\ d0 <= d /\ d \in Nat
    BY <1>1
  <2>2. In(d, m) /\ m \in 1..MonthCount
    BY <2>1, EveryDayInAMonth
  <2> HIDE DEF m
  <2>3. m0 <= m
    <3>1. CASE m < m0
      <4>1. /\ m + 1 \in 1..(MonthCount + 1) /\ m0 \in 1..(MonthCount + 1)
            /\ m + 1 = m0 \/ m + 1 < m0
        BY <1>1, <1>2, <2>2, <3>1
      <4>2. MonthStart[m + 1] \in Nat /\ MonthStart[m0] \in Nat
        BY <4>1, MonthStartType
      <4>3. MonthStart[m + 1] <= MonthStart[m0]
        BY <4>1, <4>2, MonthStartGrows
      <4>4. QED
        BY <1>1, <1>2, <2>1, <2>2, <4>2, <4>3 DEF In
    <3>2. QED
      BY <1>2, <2>2, <3>1
  <2>4. m - m0 \in Nat /\ (m - m0) % r.every = 0 /\ Kept(r, d0, d)
    BY <1>2, <1>4, <2>2, <2>3 DEF m
  <2>5. m - m0 = n * r.every /\ n \in Nat
    BY <1>1, <2>4, Multiples
  <2> HIDE DEF n
  <2>6. n \in 0..LastDay
    <3>1. n <= n * r.every
      BY <1>1, <2>5, LessTimes
    <3>2. m - 1 <= MonthStart[m] /\ MonthStart[m] \in Nat /\ MonthStart[m] <= d
      BY <2>2, MonthFacts DEF In
    <3>3. m0 \in Nat /\ m0 >= 1 /\ m \in Nat
      BY <1>2, <2>2
    <3>4. QED
      BY <1>1, <2>1, <2>5, <3>1, <3>2, <3>3
  <2>7. CASE n = 0
    <3>1. m = m0
      BY <1>1, <1>2, <2>2, <2>5, <2>7
    <3>2. d = d0
      BY <1>1, <1>3, <2>1, <2>4, <3>1, KeptOnce DEF m, m0
    <3>3. Nth(Slot(d0, s), r, 0) = Slot(d0, s)
      BY DEF Nth
    <3>4. QED
      BY <2>6, <2>7, <3>2, <3>3
  <2>8. CASE n # 0
    <3>1. m = m0 + n * r.every /\ m \in Nat /\ m >= 1 /\ m <= MonthCount
      BY <1>1, <1>2, <2>2, <2>5
    <3>2. \E e \in 0..LastDay :
            /\ MonthOf(e) = m /\ Nth(Slot(d0, s), r, n) = Slot(e, s)
            /\ Kept(r, d0, e) \/ EndsShortMonth(r, d0, e)
      BY <2>5, <2>8, <3>1, MonthlyNth DEF m0
    <3>6. PICK e \in 0..LastDay :
            /\ MonthOf(e) = m /\ Nth(Slot(d0, s), r, n) = Slot(e, s)
            /\ Kept(r, d0, e) \/ EndsShortMonth(r, d0, e)
      BY <3>2
    <3>7. ~EndsShortMonth(r, d0, e)
      <4>1. SUFFICES ASSUME r.mode = "date" PROVE DateOf(d0) <= MonthLengths[m]
        <5>1. MonthLengths[m] \in Nat /\ DateOf(d0) \in Nat
          BY <1>1, <2>2, EveryDayInAMonth, MonthFacts
        <5>2. QED
          BY <3>6, <4>1, <5>1 DEF EndsShortMonth
      <4>2. DateOf(d) = DateOf(d0)
        BY <2>4, <4>1 DEF Kept
      <4>3. DateOf(d) \in 1..MonthLengths[MonthOf(d)]
        BY <2>1, EveryDayInAMonth
      <4>4. MonthLengths[m] \in 28..31
        BY <2>2, MonthFacts
      <4>5. QED
        BY <4>2, <4>3, <4>4 DEF m
    <3>3. MonthOf(e) = m /\ Kept(r, d0, e) /\ Nth(Slot(d0, s), r, n) = Slot(e, s)
      BY <3>6, <3>7
    <3>4. e = d
      BY <2>1, <2>4, <3>3, KeptOnce DEF m
    <3>5. QED
      BY <2>6, <3>3, <3>4
  <2>9. QED
    BY <2>7, <2>8
<1>7. QED
  BY <1>5, <1>6

-----------------------------------------------------------------------------
(* What a row's file spells.                                               *)

\* No two overrides of a row are kept under one date.
OnePerDate(overrides) == \A o, p \in overrides : o.at = p.at => o = p

LEMMA NormalShift ==
  ASSUME NEW t \in Nat, NEW k \in Nat, t = t + k * DayLen PROVE k = 0
<1>1. k <= k * DayLen /\ k * DayLen \in Nat
  BY SeriesConstants, LessTimes
<1>2. QED
  BY <1>1

\* A start on its weekly rule is on one of its weekdays.
LEMMA NormalWeeks ==
  ASSUME NEW t \in Nat, NEW r \in AnyRule, r.freq = "weekly", r.days # {}, t = NormalizedStart(t, r)
  PROVE  WeekdayOf(DayOf(t)) \in r.days
<1> DEFINE d == DayOf(t)
           K == {Ahead(d, x) : x \in r.days}
<1>1. d \in Nat /\ r.days \in SUBSET (0..6)
  BY DaysOfInstants DEF AnyRule
<1>2. NormalizedStart(t, r) = t + Min(K) * DayLen
  BY DEF NormalizedStart
<1>3. \A x \in r.days : Ahead(d, x) \in 0..6
  BY <1>1, Weekdays
<1>4. K \in SUBSET Nat /\ K # {}
  BY <1>3
<1> HIDE DEF K
<1>5. Min(K) \in K /\ Min(K) \in Nat
  BY <1>4, LeastOf
<1>6. Min(K) = 0
  BY <1>2, <1>5, NormalShift
<1>7. PICK x \in r.days : Ahead(d, x) = 0
  BY <1>5, <1>6 DEF K
<1> HIDE DEF d
<1>8. x \in 0..6 /\ WeekdayOf(d + Ahead(d, x)) = x
  BY <1>1, Weekdays
<1>9. d + Ahead(d, x) = d
  BY <1>1, <1>7
<1>10. QED
  BY <1>7, <1>8, <1>9 DEF d

\* A start on the last such weekday of its month.
LEMMA NormalMonths ==
  ASSUME NEW t \in Nat, DayOf(t) <= LastDay, NEW r \in AnyRule, r.freq = "monthly",
         r.mode = "last", t = NormalizedStart(t, r)
  PROVE  IsLastWeekday(DayOf(t))
<1> DEFINE d == DayOf(t)
           K == {k \in 0..4 : d + 7 * k <= LastDay /\ IsLastWeekday(d + 7 * k)}
<1>1. d \in Nat /\ d \in 0..LastDay
  BY DaysOfInstants, LastDayType
<1>2. NormalizedRule(t, r).mode = "last"
  BY DEF NormalizedRule, AnyRule
<1>3. NormalizedStart(t, r) = t + (7 * Min(K)) * DayLen
  BY <1>2 DEF NormalizedStart
<1>4. K # {}
  <2> HIDE DEF d
  <2> DEFINE m == MonthOf(d)
             x == DateOf(d)
             k == (MonthLengths[m] - x) \div 7
  <2>1. m \in 1..MonthCount /\ x \in 1..MonthLengths[m] /\ x = d - MonthStart[m] + 1
    BY <1>1, EveryDayInAMonth
  <2>2. MonthLengths[m] \in 28..31 /\ MonthStart[m] \in Nat
    BY <2>1, MonthFacts
  <2> HIDE DEF m, x
  <2>3. k \in 0..4 /\ x + 7 * k \in 1..MonthLengths[m] /\ x + 7 * k + 7 > MonthLengths[m]
    <3> DEFINE L == MonthLengths[m]
    <3>1. L - x \in 0..30 /\ x \in 1..L /\ L \in 28..31
      BY <2>1, <2>2
    <3> HIDE DEF L
    <3>2. k = (L - x) \div 7
      BY DEF L
    <3>3. k \in 0..4 /\ 7 * k <= L - x /\ L - x < 7 * k + 7
      <4> HIDE DEF k
      <4>1. QED
        BY <3>1, <3>2
    <3> HIDE DEF k
    <3>4. k \in 0..4 /\ x + 7 * k \in 1..L /\ x + 7 * k + 7 > L
      BY <3>1, <3>3
    <3>5. QED
      BY <3>4 DEF L
  <2>4. MonthStart[m] + (x + 7 * k) - 1 = d + 7 * k
    BY <1>1, <2>1, <2>2, <2>3
  <2>5. d + 7 * k \in 0..LastDay /\ MonthOf(d + 7 * k) = m /\ DateOf(d + 7 * k) = x + 7 * k
    BY <2>1, <2>3, <2>4, DateInMonth
  <2> HIDE DEF k
  <2>6. IsLastWeekday(d + 7 * k) /\ d + 7 * k <= LastDay
    BY <2>3, <2>5, LastDayType DEF IsLastWeekday
  <2>7. QED
    BY <2>3, <2>6
<1>5. K \in SUBSET Nat
  OBVIOUS
<1> HIDE DEF K
<1>6. Min(K) \in K /\ Min(K) \in Nat
  BY <1>4, <1>5, LeastOf
<1>7. Min(K) = 0
  <2>1. 7 * Min(K) = 0
    BY <1>3, <1>6, NormalShift
  <2>2. QED
    BY <1>6, <2>1
<1>8. IsLastWeekday(d + 7 * 0)
  BY <1>6, <1>7 DEF K
<1> HIDE DEF d
<1>9. d + 7 * 0 = d
  BY <1>1
<1>10. QED
  BY <1>8, <1>9 DEF d

\* The dates that the clients draw are the board's, but for those of short months.
LEMMA SpelledAlike ==
  ASSUME NEW row, row.rule \in AnyRule, row.rule.freq # "never", CountedAlike(row)
  PROVE  ClientDates(row) =
           {t \in Anchors(row) : ~Shortens(row.rule, DayOf(row.start), t)}
<1> DEFINE r == row.rule
           t == row.start
           d0 == DayOf(t)
           s == t % DayLen
<1>1. /\ t \in Instants /\ r = NormalizedRule(t, r) /\ t = NormalizedStart(t, r)
      /\ r.freq = "weekly" => r.every = 1 \/ \A w \in r.days : WeekdayOf(d0) <= w
      /\ t <= row.until
  BY DEF CountedAlike
<1>2. t \in Nat /\ NoEnd \in Nat /\ t < NoEnd
  BY <1>1, LastDayType, SeriesConstants, LessTimes DEF Instants, NoEnd
<1>3. d0 \in Nat /\ s \in 0..(DayLen - 1) /\ t = Slot(d0, s) /\ d0 <= LastDay
  <2>1. d0 \in Nat /\ s \in 0..(DayLen - 1) /\ t = Slot(d0, s)
    BY <1>2, DaysOfInstants
  <2> HIDE DEF d0, s
  <2>2. d0 <= LastDay
    BY <1>2, <2>1, InstantsOfDays
  <2>3. QED
    BY <2>1, <2>2
<1>4. Start(d0, s) /\ r \in AnyRule
  BY <1>3, LastDayType DEF Start
<1>7. r.freq # "never"
  OBVIOUS
<1> HIDE DEF r, s
<1>5. Drawn(r, d0, s) /\ Covered(r, d0, s)
  <2>1. CASE r.freq = "daily"
    BY <1>4, <2>1, DailyAlike
  <2>2. CASE r.freq = "weekly"
    <3>1. WeeksSpelled(r, d0)
      BY <1>1, <1>2, <1>4, <2>2, NormalWeeks DEF WeeksSpelled
    <3>2. QED
      BY <1>4, <2>2, <3>1, WeeklyAlike
  <2>3. CASE r.freq = "monthly"
    <3> SUFFICES MonthsSpelled(r, d0)
      BY <1>4, <2>3, MonthlyAlike
    <3>1. CASE r.mode = "last"
      <4>1. IsLastWeekday(d0)
        <5> HIDE DEF t
        <5>1. t \in Nat /\ DayOf(t) <= LastDay
          BY <1>2, <1>3
        <5>2. QED
          BY <1>1, <1>4, <2>3, <3>1, <5>1, NormalMonths
      <4> HIDE DEF d0
      <4>2. QED
        BY <3>1, <4>1 DEF MonthsSpelled
    <3>2. CASE r.mode = "date"
      <4> HIDE DEF d0
      <4>2. QED
        BY <3>2 DEF MonthsSpelled
    <3>3. CASE r.mode = "nth"
      <4>1. NormalizedRule(t, r).mode = IF DateOf(d0) > 28 THEN "last" ELSE r.mode
        BY <1>4, <2>3, <3>3 DEF NormalizedRule, AnyRule
      <4>2. ~ (DateOf(d0) > 28)
        BY <1>1, <3>3, <4>1
      <4>3. DateOf(d0) \in Nat
        BY <1>4, EveryDayInAMonth, MonthFacts DEF Start
      <4> HIDE DEF d0
      <4>4. QED
        BY <3>3, <4>2, <4>3 DEF MonthsSpelled
    <3>4. r.mode \in {"date", "nth", "last"}
      BY <1>4 DEF AnyRule
    <3> HIDE DEF d0
    <3>5. QED
      BY <3>1, <3>2, <3>3, <3>4
  <2>4. r.freq \in {"never", "daily", "weekly", "monthly"}
    BY <1>4 DEF AnyRule
  <2>5. QED
    BY <1>7, <2>1, <2>2, <2>3, <2>4
<1>6. QED
  BY <1>1, <1>5, SameDates DEF r, s

\* The file has the sessions that the board draws, but for those of short months and
\* for those that were moved from a date the series no longer has.
LEMMA FileIsBoard ==
  ASSUME NEW row, row.rule \in AnyRule, OnePerDate(row.overrides), CountedAlike(row),
         row.rule.freq = "never" => row.overrides = {}
  PROVE  File(row) = {x.start : x \in SessionsOn(row, Anchors(row) \ Shortened(row))}
                       \cup Astray(row)
<1> DEFINE D == Anchors(row) \ Shortened(row)
           T == {x.start : x \in SessionsOn(row, D)}
<1>1. CASE row.rule.freq = "never"
  <2>1. row.overrides = {}
    BY <1>1
  <2>2. ClientDates(row) = {row.start}
    BY <1>1 DEF ClientDates
  <2>3. File(row) = {row.start}
    BY <1>1, <2>1, <2>2 DEF File
  <2>4. T = {row.start}
    BY <1>1 DEF SessionsOn
  <2>5. Astray(row) = {}
    BY <2>1 DEF Astray
  <2>6. QED
    BY <2>3, <2>4, <2>5
<1>2. CASE row.rule.freq # "never"
  <2> DEFINE A == Anchors(row)
             O == row.overrides
             C == {t \in A : ~Shortens(row.rule, DayOf(row.start), t)}
             shown(x) == IF Overridden(row, x) THEN OverrideOf(row, x).moved ELSE x
             Visible == {x \in D : Overridden(row, x) => OverrideOf(row, x).moved # NoEnd}
             Moved == {o.moved : o \in {y \in O : y.moved # NoEnd}}
  <2>1. ClientDates(row) = C
    BY <1>2, SpelledAlike
  <2>2. \A x : x \in D <=> x \in A /\ (Overridden(row, x) \/ x \in C)
    BY DEF Shortened, Shortens
  <2>3. ASSUME NEW o \in O PROVE Overridden(row, o.at) /\ OverrideOf(row, o.at) = o
    BY DEF Overridden, OverrideOf, OnePerDate
  <2>4. ASSUME NEW x, Overridden(row, x)
        PROVE  OverrideOf(row, x) \in O /\ OverrideOf(row, x).at = x
    BY <2>4 DEF Overridden, OverrideOf
  <2>5. T = {shown(x) : x \in Visible}
    <3> DEFINE o(x) == IF Overridden(row, x) THEN OverrideOf(row, x) ELSE [at |-> x, moved |-> x]
               e(x) == IF row.end = NoEnd THEN NoEnd ELSE o(x).moved + (row.end - row.start)
    <3>1. ASSUME NEW x PROVE o(x).moved = shown(x)
      OBVIOUS
    <3>2. SessionsOn(row, D) = {[start |-> o(x).moved, end |-> e(x)] : x \in Visible}
      BY <1>2 DEF SessionsOn
    <3>3. T = {y.start : y \in SessionsOn(row, D)}
      OBVIOUS
    <3> HIDE DEF shown, Visible, o, e, T, D
    <3>4. ASSUME NEW x PROVE [start |-> o(x).moved, end |-> e(x)].start = shown(x)
      BY <3>1
    <3>5. QED
      BY <3>2, <3>3, <3>4
  <2>6. File(row) = (C \ {o.at : o \in O}) \cup Moved
    BY <1>2, <2>1 DEF File
  <2>7. Astray(row) = {o.moved : o \in {y \in O : y.moved # NoEnd /\ y.at \notin A}}
    BY DEF Astray
  <2> HIDE DEF T, D, C, A
  <2>8. ASSUME NEW u \in File(row) PROVE u \in T \cup Astray(row)
    <3>1. CASE u \in C \ {o.at : o \in O}
      <4>1. ~ Overridden(row, u)
        BY <3>1 DEF Overridden
      <4>2. u \in D
        BY <2>2, <3>1 DEF C
      <4>3. u \in Visible /\ shown(u) = u
        BY <4>1, <4>2
      <4>4. QED
        BY <2>5, <4>3
    <3>2. CASE u \in Moved
      <4>1. PICK o \in O : o.moved # NoEnd /\ u = o.moved
        BY <3>2
      <4>2. Overridden(row, o.at) /\ OverrideOf(row, o.at) = o
        BY <2>3
      <4>3. CASE o.at \in A
        <5>1. o.at \in Visible /\ shown(o.at) = u
          BY <2>2, <4>1, <4>2, <4>3
        <5>2. QED
          BY <2>5, <5>1
      <4>4. CASE o.at \notin A
        BY <2>7, <4>1, <4>4
      <4>5. QED
        BY <4>3, <4>4
    <3>3. QED
      BY <2>6, <2>8, <3>1, <3>2
  <2>9. ASSUME NEW u \in T PROVE u \in File(row)
    <3>1. PICK x \in Visible : u = shown(x)
      BY <2>5, <2>9
    <3>2. CASE Overridden(row, x)
      <4>1. /\ OverrideOf(row, x) \in O /\ OverrideOf(row, x).moved # NoEnd
            /\ u = OverrideOf(row, x).moved
        BY <2>4, <3>1, <3>2
      <4>2. QED
        BY <2>6, <4>1
    <3>3. CASE ~ Overridden(row, x)
      <4>1. x \in C /\ x \notin {o.at : o \in O} /\ u = x
        BY <2>2, <3>1, <3>3 DEF Overridden
      <4>2. QED
        BY <2>6, <4>1
    <3>4. QED
      BY <3>2, <3>3
  <2>10. Astray(row) \subseteq Moved
    BY <2>7
  <2>11. File(row) = T \cup Astray(row)
    BY <2>6, <2>8, <2>9, <2>10
  <2>12. QED
    BY <2>11 DEF T, D
<1>3. QED
  BY <1>1, <1>2

-----------------------------------------------------------------------------
(* The rows.                                                               *)

Fields == {"kind", "start", "end", "rule", "until", "overrides"}

\* A row of the table: its rule is one of the calendar's and each date has at
\* most one override.
IsRow(row) ==
  /\ DOMAIN row = Fields
  /\ row.rule \in AnyRule /\ OnePerDate(row.overrides)

\* The calendar's table has rows and free places only.
SeriesInv ==
  /\ rows = [id \in RowIds |-> rows[id]]
  /\ \A id \in RowIds : rows[id] = Vacant \/ IsRow(rows[id])

LEMMA StoredIsRow ==
  ASSUME SeriesInv, NEW id \in RowIds, Stored(id) PROVE IsRow(rows[id])
<1>1. rows[id] # Vacant
  BY DEF Stored, Vacant
<1>2. QED
  BY <1>1 DEF SeriesInv

LEMMA NormalizedIsARule ==
  ASSUME NEW r \in AnyRule, NEW t PROVE NormalizedRule(t, r) \in AnyRule
BY DEF NormalizedRule, AnyRule

LEMMA OneOffIsARule == OneOff \in AnyRule
BY DEF OneOff, AnyRule

LEMMA NewRowIsRow ==
  ASSUME NEW a, NEW e, NEW r \in AnyRule, NEW u PROVE IsRow(NewRow(a, e, r, u))
BY DEF NewRow, IsRow, OnePerDate, Fields

LEMMA FreshIsRow ==
  ASSUME NEW a, NEW n, NEW r \in AnyRule, NEW c PROVE IsRow(Fresh(a, n, r, c))
<1>1. Rhythm(CountedFrom(a, r), NormalizedRule(a, r), c).rule \in AnyRule
  BY NormalizedIsARule, OneOffIsARule DEF Rhythm
<1>2. QED
  BY <1>1, NewRowIsRow DEF Fresh

\* One place of the table is written.
LEMMA OneRow ==
  ASSUME SeriesInv, NEW id, NEW row, row = Vacant \/ IsRow(row),
         rows' = [rows EXCEPT ![id] = row]
  PROVE  SeriesInv'
<1>1. rows' = [x \in RowIds |-> IF x = id THEN row ELSE rows[x]]
  BY DEF SeriesInv
<1>2. QED
  BY <1>1 DEF SeriesInv

LEMMA OverrideKeepsRow ==
  ASSUME NEW row, IsRow(row), NEW t, NEW m, NEW new, new = WithOverride(row, t, m)
  PROVE  /\ IsRow(new) /\ new.start = row.start /\ new.rule = row.rule
         /\ new.overrides = {o \in row.overrides : o.at # t} \cup {[at |-> t, moved |-> m]}
<1>1. /\ DOMAIN new = Fields /\ new.start = row.start /\ new.rule = row.rule
      /\ new.overrides = {o \in row.overrides : o.at # t} \cup {[at |-> t, moved |-> m]}
  BY DEF IsRow, WithOverride, Fields
<1>2. OnePerDate(new.overrides)
  BY <1>1 DEF IsRow, OnePerDate
<1>3. QED
  BY <1>1, <1>2 DEF IsRow

LEMMA TruncatedKeepsRow ==
  ASSUME NEW row, IsRow(row), NEW t, NEW new, new = Truncated(row, t)
  PROVE  /\ IsRow(new) /\ new.start = row.start /\ new.rule = row.rule
         /\ new.overrides = {o \in row.overrides : o.at < t}
<1>1. /\ DOMAIN new = Fields /\ new.start = row.start /\ new.rule = row.rule
      /\ new.overrides = {o \in row.overrides : o.at < t}
  BY DEF IsRow, Truncated, Fields
<1>2. OnePerDate(new.overrides)
  BY <1>1 DEF IsRow, OnePerDate
<1>3. QED
  BY <1>1, <1>2 DEF IsRow

\* The steps of the calendar, each with what it says of the row it writes.
Kinds(id) ==
  \/ \E start \in Starts, length \in Lengths, r \in Rules, count \in Bounds :
       Create(id, start, length, r, count)
  \/ \E day \in Picked, slot \in 0..DayLen - 1 : UpdateOccurrence(id, day, slot)
  \/ \E day \in Picked : DeleteOccurrence(id, day)
  \/ \E day \in Picked, new \in RowIds, slot \in 0..DayLen - 1 : UpdateFollowing(id, new, day, slot)
  \/ \E day \in Picked : UpdateFollowingRefused(id, day)
  \/ \E day \in Picked : DeleteFollowing(id, day)
  \/ \E start, r, count :
       r \in Rules \cup {rows[i].rule : i \in {id} \cap Ids} /\ UpdateSeries(id, start, r, count)
  \/ DeleteSeries(id)
  \/ \E start, freq : freq \in {"never", "weekly"} /\ ConsoleUpdate(id, start, freq)

LEMMA SeriesSteps == ASSUME SeriesNext PROVE \E id \in RowIds : Kinds(id)
BY DEF SeriesNext, Kinds, EditSession, EditFollowing

LEMMA SeriesStep == ASSUME SeriesInv, SeriesNext PROVE SeriesInv'
<1>1. PICK id \in RowIds : Kinds(id)
  BY SeriesSteps
<1>2. ASSUME NEW start \in Starts, NEW length \in Lengths, NEW r \in Rules, NEW count \in Bounds,
             Create(id, start, length, r, count)
      PROVE  SeriesInv'
  <2>1. r \in AnyRule
    BY SeriesAssumption
  <2>2. IsRow(Fresh(start, length, r, count))
    BY <2>1, FreshIsRow
  <2>3. QED
    BY <1>2, <2>2, OneRow DEF Create
<1>3. ASSUME NEW t, NEW m, Stored(id), rows' = [rows EXCEPT ![id] = WithOverride(@, t, m)]
      PROVE  SeriesInv'
  <2>1. IsRow(WithOverride(rows[id], t, m))
    BY <1>3, StoredIsRow, OverrideKeepsRow
  <2>2. rows' = [rows EXCEPT ![id] = WithOverride(rows[id], t, m)]
    BY <1>3
  <2>3. QED
    BY <2>1, <2>2, OneRow
<1>4. ASSUME NEW t, Stored(id), rows' = [rows EXCEPT ![id] = Truncated(@, t)] PROVE SeriesInv'
  <2>1. IsRow(Truncated(rows[id], t))
    BY <1>4, StoredIsRow, TruncatedKeepsRow
  <2>2. rows' = [rows EXCEPT ![id] = Truncated(rows[id], t)]
    BY <1>4
  <2>3. QED
    BY <2>1, <2>2, OneRow
<1>5. ASSUME NEW day, NEW new \in RowIds, NEW slot, UpdateFollowing(id, new, day, slot)
      PROVE  SeriesInv'
  <2>1. PICK t :
          rows' = [rows EXCEPT
            ![id] = Truncated(@, t),
            ![new] = NewRow(day * DayLen + slot,
                            SplitEnd(rows[id], day * DayLen + slot, slot # t % DayLen),
                            rows[id].rule, rows[id].until)]
    BY <1>5 DEF UpdateFollowing
  <2> DEFINE row == NewRow(day * DayLen + slot,
                           SplitEnd(rows[id], day * DayLen + slot, slot # t % DayLen),
                           rows[id].rule, rows[id].until)
  <2>2. Stored(id)
    BY <1>5 DEF UpdateFollowing, Recurs
  <2>3. IsRow(Truncated(rows[id], t)) /\ rows[id].rule \in AnyRule
    BY <2>2, StoredIsRow, TruncatedKeepsRow DEF IsRow
  <2>4. IsRow(row)
    BY <2>3, NewRowIsRow
  <2>5. rows' = [rows EXCEPT ![id] = Truncated(@, t), ![new] = row]
    BY <2>1
  <2> HIDE DEF row
  <2>6. new # id
    BY <1>5, <2>2 DEF UpdateFollowing, FreeId
  <2>7. rows' = [x \in RowIds |-> IF x = new THEN row
                                  ELSE IF x = id THEN Truncated(rows[id], t) ELSE rows[x]]
    BY <2>5, <2>6 DEF SeriesInv
  <2>8. QED
    BY <2>3, <2>4, <2>7 DEF SeriesInv
<1>6. ASSUME NEW start, NEW r, NEW count, r \in Rules \cup {rows[i].rule : i \in {id} \cap Ids},
             UpdateSeries(id, start, r, count)
      PROVE  SeriesInv'
  <2> DEFINE row == rows[id]
             moves == start # row.start \/ r # row.rule
             from == IF moves THEN NormalizedStart(start, r) ELSE start
             rule == IF moves THEN NormalizedRule(start, r) ELSE r
             rhythm == Rhythm(from, rule, count)
             until == IF count # 0 \/ rule.freq = "never" THEN rhythm.until ELSE row.until
             overrides == IF KeepsOverrides(moves) THEN row.overrides ELSE {}
  <2>1. rows' = [rows EXCEPT ![id] =
                   [row EXCEPT !.start = from, !.rule = rhythm.rule, !.until = until,
                               !.overrides = overrides]]
    BY <1>6 DEF UpdateSeries
  <2>2. IsRow(row)
    BY <1>6, StoredIsRow DEF UpdateSeries
  <2>3. r \in AnyRule
    BY <1>6, <2>2, SeriesAssumption DEF IsRow
  <2>4. rule \in AnyRule
    BY <2>3, NormalizedIsARule
  <2> HIDE DEF rule, from, moves
  <2>5. rhythm.rule \in AnyRule
    BY <2>4, OneOffIsARule DEF Rhythm
  <2>6. OnePerDate(overrides)
    BY <2>2 DEF IsRow, OnePerDate
  <2> HIDE DEF rhythm, until, overrides, row
  <2> DEFINE new == [row EXCEPT !.start = from, !.rule = rhythm.rule, !.until = until,
                                !.overrides = overrides]
  <2>7. rows' = [rows EXCEPT ![id] = new]
    BY <2>1
  <2>8. DOMAIN new = Fields /\ new.rule = rhythm.rule /\ new.overrides = overrides
    BY <2>2 DEF IsRow, Fields
  <2> HIDE DEF new
  <2>9. IsRow(new)
    BY <2>5, <2>6, <2>8 DEF IsRow
  <2>10. QED
    BY <2>7, <2>9, OneRow
<1>7. ASSUME DeleteSeries(id) PROVE SeriesInv'
  BY <1>7, OneRow DEF DeleteSeries
<1>8. ASSUME NEW start, NEW freq, freq \in {"never", "weekly"}, ConsoleUpdate(id, start, freq)
      PROVE  SeriesInv'
  <2> DEFINE row == rows[id]
             rule == IF row.rule.freq = freq THEN row.rule ELSE [OneOff EXCEPT !.freq = freq]
             new == [row EXCEPT !.start = start, !.rule = rule]
  <2>1. rows' = [rows EXCEPT ![id] = new]
    BY <1>8 DEF ConsoleUpdate
  <2>2. IsRow(row)
    BY <1>8, StoredIsRow DEF ConsoleUpdate
  <2>3. rule \in AnyRule
    <3>1. [OneOff EXCEPT !.freq = freq] \in AnyRule
      BY <1>8 DEF OneOff, AnyRule
    <3>2. QED
      BY <2>2, <3>1 DEF IsRow
  <2> HIDE DEF rule, row
  <2>4. DOMAIN new = Fields /\ new.rule = rule /\ new.overrides = row.overrides
    BY <2>2 DEF IsRow, Fields
  <2> HIDE DEF new
  <2>5. IsRow(new)
    BY <2>2, <2>3, <2>4 DEF IsRow
  <2>6. QED
    BY <2>1, <2>5, OneRow
<1>9. ASSUME NEW day, NEW slot, UpdateOccurrence(id, day, slot) PROVE SeriesInv'
  BY <1>3, <1>9 DEF UpdateOccurrence, Recurs
<1>10. ASSUME NEW day, DeleteOccurrence(id, day) PROVE SeriesInv'
  BY <1>3, <1>10 DEF DeleteOccurrence, Recurs
<1>11. ASSUME NEW day, UpdateFollowingRefused(id, day) PROVE SeriesInv'
  BY <1>4, <1>11 DEF UpdateFollowingRefused, Recurs
<1>12. ASSUME NEW day, DeleteFollowing(id, day) PROVE SeriesInv'
  BY <1>4, <1>12 DEF DeleteFollowing, Recurs
<1>13. QED
  BY <1>1, <1>2, <1>5, <1>6, <1>7, <1>8, <1>9, <1>10, <1>11, <1>12 DEF Kinds

LEMMA SeriesStart == ASSUME SeriesInit PROVE SeriesInv
<1> DEFINE Empty == [id \in RowIds |-> Vacant]
<1>1. CASE rows = Empty
  BY <1>1 DEF SeriesInv
<1>2. CASE \E start \in Starts, length \in Lengths, r \in Rules \ {OneOff}, count \in Bounds :
             rows = [Empty EXCEPT ![CHOOSE id \in RowIds : TRUE] = Fresh(start, length, r, count)]
  <2>1. PICK start \in Starts, length \in Lengths, r \in Rules \ {OneOff}, count \in Bounds :
               rows = [Empty EXCEPT ![CHOOSE id \in RowIds : TRUE] = Fresh(start, length, r, count)]
    BY <1>2
  <2>2. IsRow(Fresh(start, length, r, count))
    BY SeriesAssumption, FreshIsRow
  <2> DEFINE row == Fresh(start, length, r, count)
             one == CHOOSE id \in RowIds : TRUE
  <2>3. rows = [Empty EXCEPT ![one] = row] /\ IsRow(row)
    BY <2>1, <2>2
  <2> HIDE DEF row, one
  <2>4. rows = [id \in RowIds |-> IF id = one THEN row ELSE Vacant]
    BY <2>3
  <2>5. QED
    BY <2>3, <2>4 DEF SeriesInv
<1>3. QED
  BY <1>1, <1>2 DEF SeriesInit

\* The calendar's table keeps rows of the calendar's rules, with at most one
\* override for a date (store.ts, calendar_event_overrides).
THEOREM SeriesInvariant == SeriesSpec => []SeriesInv
<1>1. SeriesInv /\ UNCHANGED seriesVars => SeriesInv'
  BY DEF SeriesInv, seriesVars, IsRow
<1>2. QED
  BY <1>1, SeriesStart, SeriesStep, PTL DEF SeriesSpec

-----------------------------------------------------------------------------
(* Both halves of the property.                                            *)

LEMMA FilesAgree == ASSUME SeriesInv PROVE FileAgrees
<1> DEFINE row(id) == rows[id]
           Same(id) == File(row(id)) =
             {x.start : x \in SessionsOn(row(id), Anchors(row(id)) \ Shortened(row(id)))}
               \cup Astray(row(id))
           Spelled(id) == /\ CountedAlike(row(id))
                          /\ row(id).rule.freq = "never" => row(id).overrides = {}
<1>1. ASSUME NEW id \in Ids, Spelled(id) PROVE Same(id)
  <2>1. IsRow(rows[id])
    BY StoredIsRow DEF Ids
  <2>2. QED
    BY <1>1, <2>1, FileIsBoard DEF IsRow
<1>2. QED
  BY <1>1 DEF FileAgrees

\* A write that leaves the start and the rule, and whose overrides are old ones
\* or one of a date of the rhythm.
LEMMA OneRowOnRhythm ==
  ASSUME SeriesInv, NEW id \in RowIds, NEW row,
         rows' = [rows EXCEPT ![id] = row],
         Stored(id) /\ OnRhythm(rows[id]) => OnRhythm(row)
  PROVE  \A x \in Ids : OnRhythm(rows[x]) /\ Stored(x)' => OnRhythm(rows'[x])
<1>1. rows' = [x \in RowIds |-> IF x = id THEN row ELSE rows[x]]
  BY DEF SeriesInv
<1>2. \A x \in Ids : x \in RowIds /\ Stored(x)
  BY DEF Ids
<1>3. QED
  BY <1>1, <1>2

LEMMA SameRhythm ==
  ASSUME NEW row, NEW new, new.start = row.start, new.rule = row.rule, OnRhythm(row),
         \A o \in new.overrides : o \in row.overrides \/ o.at \in Anchors(row)
  PROVE  OnRhythm(new)
<1>1. ASSUME new.rule.freq # "never", NEW o \in new.overrides
      PROVE  o.at < NoEnd /\ \E n \in 0..LastDay : o.at = Nth(new.start, new.rule, n)
  <2>1. CASE o \in row.overrides
    BY <1>1, <2>1 DEF OnRhythm
  <2>2. CASE o.at \in Anchors(row)
    BY <1>1, <2>2 DEF Anchors, Within
  <2>3. QED
    BY <2>1, <2>2
<1>2. QED
  BY <1>1 DEF OnRhythm

LEMMA OverridesStay == ASSUME SeriesInv, SeriesNext PROVE OverridesStayOnRhythm
<1> DEFINE Stay == \A x \in Ids : OnRhythm(rows[x]) /\ Stored(x)' => OnRhythm(rows'[x])
<1> SUFFICES ASSUME call'.op # "console" PROVE Stay
  BY DEF OverridesStayOnRhythm
<1>1. PICK id \in RowIds : Kinds(id)
  BY SeriesSteps
<1>2. ASSUME NEW start, NEW length, NEW r, NEW count, Create(id, start, length, r, count) PROVE Stay
  <2>1. ~ Stored(id) /\ rows' = [rows EXCEPT ![id] = Fresh(start, length, r, count)]
    BY <1>2 DEF Create, FreeId
  <2>2. QED
    BY <2>1, OneRowOnRhythm
<1>3. ASSUME NEW t, NEW m, Stored(id), t \in Anchors(rows[id]),
             rows' = [rows EXCEPT ![id] = WithOverride(@, t, m)]
      PROVE  Stay
  <2> DEFINE row == rows[id]
             new == WithOverride(row, t, m)
  <2>1. rows' = [rows EXCEPT ![id] = new]
    BY <1>3
  <2>2. IsRow(row)
    BY <1>3, StoredIsRow
  <2>3. /\ new.start = row.start /\ new.rule = row.rule
        /\ new.overrides = {o \in row.overrides : o.at # t} \cup {[at |-> t, moved |-> m]}
    BY <2>2, OverrideKeepsRow
  <2>4. \A o \in new.overrides : o \in row.overrides \/ o.at \in Anchors(row)
    BY <1>3, <2>3
  <2> HIDE DEF new
  <2>5. OnRhythm(row) => OnRhythm(new)
    BY <2>3, <2>4, SameRhythm
  <2>6. QED
    BY <2>1, <2>5, OneRowOnRhythm
<1>4. ASSUME NEW t, Stored(id), rows' = [rows EXCEPT ![id] = Truncated(@, t)] PROVE Stay
  <2> DEFINE row == rows[id]
             new == Truncated(row, t)
  <2>1. rows' = [rows EXCEPT ![id] = new]
    BY <1>4
  <2>2. IsRow(row)
    BY <1>4, StoredIsRow
  <2>3. /\ new.start = row.start /\ new.rule = row.rule
        /\ new.overrides = {o \in row.overrides : o.at < t}
    BY <2>2, TruncatedKeepsRow
  <2>4. \A o \in new.overrides : o \in row.overrides \/ o.at \in Anchors(row)
    BY <2>3
  <2> HIDE DEF new
  <2>5. OnRhythm(row) => OnRhythm(new)
    BY <2>3, <2>4, SameRhythm
  <2>6. QED
    BY <2>1, <2>5, OneRowOnRhythm
<1>5. ASSUME NEW day, NEW new \in RowIds, NEW slot, UpdateFollowing(id, new, day, slot)
      PROVE  Stay
  <2>1. PICK t, fresh :
          rows' = [rows EXCEPT ![id] = Truncated(@, t), ![new] = fresh]
    BY <1>5 DEF UpdateFollowing
  <2>2. Stored(id) /\ ~ Stored(new)
    BY <1>5 DEF UpdateFollowing, Recurs, FreeId
  <2> DEFINE row == rows[id]
             cut == Truncated(row, t)
  <2>3. IsRow(row)
    BY <2>2, StoredIsRow
  <2>4. /\ cut.start = row.start /\ cut.rule = row.rule
        /\ cut.overrides = {o \in row.overrides : o.at < t}
    BY <2>3, TruncatedKeepsRow
  <2>5. \A o \in cut.overrides : o \in row.overrides \/ o.at \in Anchors(row)
    BY <2>4
  <2>6. rows' = [rows EXCEPT ![id] = cut, ![new] = fresh]
    BY <2>1
  <2> HIDE DEF cut
  <2>7. OnRhythm(row) => OnRhythm(cut)
    BY <2>4, <2>5, SameRhythm
  <2>8. rows' = [x \in RowIds |-> IF x = new THEN fresh ELSE IF x = id THEN cut ELSE rows[x]]
    BY <2>6 DEF SeriesInv
  <2>9. \A x \in Ids : x \in RowIds /\ x # new
    BY <2>2 DEF Ids
  <2>10. QED
    BY <2>7, <2>8, <2>9
<1>6. ASSUME NEW start, NEW r, NEW count, UpdateSeries(id, start, r, count) PROVE Stay
  <2> DEFINE row == rows[id]
             moves == start # row.start \/ r # row.rule
             from == IF moves THEN NormalizedStart(start, r) ELSE start
             rule == IF moves THEN NormalizedRule(start, r) ELSE r
             rhythm == Rhythm(from, rule, count)
             until == IF count # 0 \/ rule.freq = "never" THEN rhythm.until ELSE row.until
             overrides == IF moves THEN {} ELSE row.overrides
  <2>1. rows' = [rows EXCEPT ![id] =
                   [row EXCEPT !.start = from, !.rule = rhythm.rule, !.until = until,
                               !.overrides = overrides]]
    BY <1>6 DEF UpdateSeries, KeepsOverrides
  <2>2. IsRow(row)
    BY <1>6, StoredIsRow DEF UpdateSeries
  <2>3. moves => overrides = {}
    OBVIOUS
  <2>4. ~ moves => from = row.start /\ overrides = row.overrides
                   /\ (rhythm.rule = OneOff \/ rhythm.rule = row.rule)
    BY DEF Rhythm
  <2> HIDE DEF row, moves, from, rhythm, until, overrides
  <2> DEFINE new == [row EXCEPT !.start = from, !.rule = rhythm.rule, !.until = until,
                                !.overrides = overrides]
  <2>5. rows' = [rows EXCEPT ![id] = new]
    BY <2>1
  <2>6. new.start = from /\ new.rule = rhythm.rule /\ new.overrides = overrides
    BY <2>2 DEF IsRow, Fields
  <2> HIDE DEF new
  <2>7. OnRhythm(row) => OnRhythm(new)
    <3>1. CASE moves
      BY <2>3, <2>6, <3>1 DEF OnRhythm
    <3>2. CASE ~ moves /\ rhythm.rule = OneOff
      BY <2>6, <3>2 DEF OnRhythm, OneOff
    <3>3. CASE ~ moves /\ rhythm.rule = row.rule
      BY <2>4, <2>6, <3>3, SameRhythm
    <3>4. QED
      BY <2>4, <3>1, <3>2, <3>3
  <2>8. QED
    BY <2>5, <2>7, OneRowOnRhythm DEF row
<1>7. ASSUME DeleteSeries(id) PROVE Stay
  <2>1. rows' = [x \in RowIds |-> IF x = id THEN Vacant ELSE rows[x]]
    BY <1>7 DEF DeleteSeries, SeriesInv
  <2>2. \A x \in Ids : x \in RowIds
    BY DEF Ids
  <2>3. \A x \in Ids : Stored(x)' => rows'[x] = rows[x]
    BY <2>1, <2>2 DEF Stored, Vacant
  <2>4. QED
    BY <2>3
<1>8. ASSUME NEW start, NEW freq, ConsoleUpdate(id, start, freq) PROVE Stay
  BY <1>8 DEF ConsoleUpdate, Calls
<1> HIDE DEF Stay
<1>9. ASSUME NEW day, NEW slot, UpdateOccurrence(id, day, slot) PROVE Stay
  BY <1>3, <1>9 DEF UpdateOccurrence, Recurs, SessionOf
<1>10. ASSUME NEW day, DeleteOccurrence(id, day) PROVE Stay
  BY <1>3, <1>10 DEF DeleteOccurrence, Recurs, SessionOf
<1>11. ASSUME NEW day, UpdateFollowingRefused(id, day) PROVE Stay
  BY <1>4, <1>11 DEF UpdateFollowingRefused, Recurs
<1>12. ASSUME NEW day, DeleteFollowing(id, day) PROVE Stay
  BY <1>4, <1>12 DEF DeleteFollowing, Recurs
<1>13. QED
  BY <1>1, <1>2, <1>5, <1>6, <1>7, <1>8, <1>9, <1>10, <1>11, <1>12 DEF Kinds

\* For every row whose weeks are counted alike, the file that members import has
\* exactly the sessions that the board draws, less the last days of months that
\* lack the date and with those moved from a date the series no longer has; and no
\* call of the tool leaves an override off its series' rhythm: recurrence.ts and
\* ics.ts expand a rule alike but for that.
THEOREM SeriesAreReadAlike == SeriesSpec => SeriesReadAlike
<1>1. SeriesInv => FileAgrees
  BY FilesAgree
<1>2. SeriesInv /\ SeriesInv' /\ [SeriesNext]_seriesVars => [OverridesStayOnRhythm]_seriesVars
  BY OverridesStay
<1>3. QED
  BY <1>1, <1>2, SeriesInvariant, PTL DEF SeriesSpec, SeriesReadAlike

-----------------------------------------------------------------------------
(* The calls of the scanner (FileScanner).                                 *)

CallRecords == [age : Nat, mine : BOOLEAN]

UploadTypes ==
  /\ place \in [Messages -> Place] /\ file \in [Messages -> Nat \ {0}]
  /\ polls \in [Messages -> Nat]
  /\ outcome \in [Messages -> Outcome] /\ spent \in [Messages -> Nat]
  /\ queue \in Seq(Messages) /\ calling \in BOOLEAN
  /\ sinceCall \in Nat /\ times \in Seq(Nat) /\ made \in Seq(CallRecords)

\* The chain holds the messages whose call is queued, each once, and the counter
\* counts them.
Chained ==
  /\ depth = Len(queue) /\ depth <= MaxDepth
  /\ \A i \in 1..Len(queue) : place[queue[i]] \in Call
  /\ \A i, j \in 1..Len(queue) : queue[i] = queue[j] => i = j

\* What a file has cost and what became of it.
Accounted ==
  \A m \in Messages :
    /\ place[m] # "told" => outcome[m] = "none"
    /\ place[m] \in {"idle", "start"} => spent[m] = 0

\* The table holds the calls of the last window, behind older ones.
Old == Len(times) - Len(made)
OnTable ==
  /\ Old \in Nat
  /\ \A i \in 1..Old : times[i] = Window
  /\ \A i \in 1..Len(made) : times[Old + i] = made[i].age /\ made[i].age < Window
  /\ \A i, j \in 1..Len(made) : i < j => made[i].age >= made[j].age

\* The calls of this process are as old as the last one, at least.
Waited == \A i \in 1..Len(made) : made[i].mine => made[i].age >= sinceCall

UploadsInv ==
  /\ UploadTypes /\ Chained /\ Accounted /\ OnTable /\ Waited /\ PlanWellSpent

LEMMA SuffixOf ==
  ASSUME NEW S, NEW s \in Seq(S), NEW n \in 1..(Len(s) + 1), NEW t, t = SubSeq(s, n, Len(s))
  PROVE  /\ t \in Seq(S) /\ Len(t) = Len(s) - n + 1
         /\ \A i \in 1..Len(t) : t[i] = s[n + i - 1]
<1>1. Len(s) \in Nat /\ n \in Nat /\ Len(s) - n + 1 \in Nat
  OBVIOUS
<1>2. t \in Seq(S) /\ Len(t) = Len(s) - n + 1
  BY <1>1
<1>3. \A i \in 1..Len(t) : t[i] = s[n + i - 1]
  BY <1>1, <1>2
<1>4. QED
  BY <1>2, <1>3

LEMMA FirstRecentIs ==
  ASSUME NEW ages \in Seq(Nat), NEW n \in 1..(Len(ages) + 1),
         \A i \in DOMAIN ages : ages[i] < Window <=> i >= n
  PROVE  FirstRecent(ages) = n
<1> DEFINE Cut(k) == \A i \in DOMAIN ages : ages[i] < Window <=> i >= k
<1>1. Len(ages) \in Nat /\ DOMAIN ages = 1..Len(ages)
  OBVIOUS
<1>2. ASSUME NEW k \in 1..(Len(ages) + 1), NEW l \in 1..(Len(ages) + 1), Cut(k), Cut(l), k < l
      PROVE  FALSE
  <2>1. k \in DOMAIN ages /\ k >= k /\ ~(k >= l)
    BY <1>1, <1>2
  <2>2. QED
    BY <1>2, <2>1
<1>3. \A k \in 1..(Len(ages) + 1) : Cut(k) => k = n
  <2>1. SUFFICES ASSUME NEW k \in 1..(Len(ages) + 1), Cut(k)
                 PROVE  k = n
    OBVIOUS
  <2>2. k < n \/ n < k \/ k = n
    BY <1>1
  <2>3. Cut(n)
    OBVIOUS
  <2> HIDE DEF Cut
  <2>4. QED
    BY <1>2, <2>1, <2>2, <2>3
<1>4. QED
  BY <1>3 DEF FirstRecent

\* Times in order have a first recent one.
LEMMA RecentFrom ==
  ASSUME NEW ages \in Seq(Nat),
         \A i, j \in DOMAIN ages : i < j => ages[i] >= ages[j]
  PROVE  /\ FirstRecent(ages) \in 1..(Len(ages) + 1)
         /\ \A i \in DOMAIN ages : ages[i] < Window <=> i >= FirstRecent(ages)
<1> DEFINE F == {i \in DOMAIN ages : ages[i] < Window}
<1>1. Len(ages) \in Nat /\ DOMAIN ages = 1..Len(ages) /\ Window \in Nat
  BY ScannerAssumption
<1>2. \A i \in DOMAIN ages : ages[i] \in Nat
  OBVIOUS
<1>3. \E n \in 1..(Len(ages) + 1) : \A i \in DOMAIN ages : ages[i] < Window <=> i >= n
  <2>1. CASE F = {}
    <3>1. \A i \in DOMAIN ages : ~(ages[i] < Window) /\ ~(i >= Len(ages) + 1)
      BY <1>1, <2>1
    <3>2. Len(ages) + 1 \in 1..(Len(ages) + 1)
      BY <1>1
    <3>3. QED
      BY <3>1, <3>2
  <2>2. CASE F # {}
    <3>1. Min(F) \in F /\ \A y \in F : Min(F) <= y
      <4>1. F \in SUBSET Nat
        BY <1>1
      <4> HIDE DEF F
      <4>2. QED
        BY <2>2, <4>1, LeastOf
    <3>2. PICK n : n = Min(F)
      OBVIOUS
    <3>3. n \in 1..Len(ages) /\ ages[n] < Window
      BY <1>1, <3>1, <3>2
    <3>4. ASSUME NEW i \in DOMAIN ages PROVE ages[i] < Window <=> i >= n
      <4>1. CASE i < n
        BY <1>1, <3>1, <3>2, <3>3, <4>1
      <4>2. CASE i = n
        BY <3>3, <4>2
      <4>3. CASE i > n
        <5>1. ages[n] >= ages[i]
          BY <1>1, <3>3, <4>3
        <5>2. QED
          BY <1>1, <1>2, <3>3, <4>3, <5>1
      <4>4. QED
        BY <1>1, <3>3, <4>1, <4>2, <4>3
    <3>5. QED
      BY <1>1, <3>3, <3>4
  <2>3. QED
    BY <2>1, <2>2
<1>4. QED
  BY <1>3 DEF FirstRecent

-----------------------------------------------------------------------------
(* The chain.                                                              *)

\* What the calls of the plan do not see stays.
LEMMA TableStays ==
  ASSUME OnTable, Waited, Spaced, BudgetRolling, UNCHANGED <<times, made, sinceCall>>
  PROVE  OnTable' /\ Waited' /\ Spaced' /\ BudgetRolling'
BY DEF OnTable, Old, Waited, Spaced, BudgetRolling

\* A message is settled: it is in no queue.
LEMMA SettleKeeps ==
  ASSUME UploadTypes, Accounted, NEW m \in Messages, NEW what \in Outcome, Settle(m, what),
         NEW q \in Seq(Messages), \A i \in 1..Len(q) : place[q[i]] \in Call /\ q[i] # m,
         spent' = spent, NothingPaidIsShed, what = "full" => spent[m] = 0
  PROVE  /\ place' \in [Messages -> Place] /\ outcome' \in [Messages -> Outcome]
         /\ \A i \in 1..Len(q) : place'[q[i]] \in Call
         /\ Accounted' /\ NothingPaidIsShed'
<1>1. /\ \A x \in Messages : place'[x] = IF x = m THEN "told" ELSE place[x]
      /\ \A x \in Messages : outcome'[x] = IF x = m THEN what ELSE outcome[x]
      /\ place' \in [Messages -> Place] /\ outcome' \in [Messages -> Outcome]
  BY DEF UploadTypes, Settle, Place
<1>2. \A i \in 1..Len(q) : q[i] \in Messages
  OBVIOUS
<1>3. QED
  BY <1>1, <1>2 DEF Accounted, NothingPaidIsShed

\* The chain is q and no longer holds m, which is called again or shed; shed only
\* before its first call.
LEMMA ScheduleKeeps ==
  ASSUME UploadsInv, NEW m \in Messages, NEW asked \in Call, NEW q \in Seq(Messages), NEW d,
         Schedule(m, asked, q, d), d = Len(q), d <= MaxDepth,
         \A i \in 1..Len(q) : place[q[i]] \in Call /\ q[i] # m,
         \A i, j \in 1..Len(q) : q[i] = q[j] => i = j,
         d < MaxDepth \/ spent[m] = 0, spent' = spent, outcome[m] = "none"
  PROVE  /\ place' \in [Messages -> Place] /\ outcome' \in [Messages -> Outcome]
         /\ queue' \in Seq(Messages) /\ Chained' /\ Accounted' /\ NothingPaidIsShed'
<1>1. UploadTypes /\ Accounted /\ NothingPaidIsShed /\ MaxDepth \in Nat /\ Len(q) \in Nat
  BY ScannerAssumption DEF UploadsInv, PlanWellSpent
<1>2. CASE d >= MaxDepth /\ Settle(m, "full") /\ queue' = q /\ depth' = d
  <2>1. "full" \in Outcome /\ spent[m] = 0
    BY <1>1, <1>2 DEF Outcome
  <2>2. /\ place' \in [Messages -> Place] /\ outcome' \in [Messages -> Outcome]
        /\ \A i \in 1..Len(q) : place'[q[i]] \in Call
        /\ Accounted' /\ NothingPaidIsShed'
    BY <1>1, <1>2, <2>1, SettleKeeps
  <2>3. QED
    BY <1>2, <2>2 DEF Chained
<1>3. CASE /\ d < MaxDepth /\ place' = [place EXCEPT ![m] = asked]
           /\ queue' = Append(q, m) /\ depth' = d + 1 /\ outcome' = outcome
  <2>1. /\ \A x \in Messages : place'[x] = IF x = m THEN asked ELSE place[x]
        /\ place' \in [Messages -> Place]
    BY <1>1, <1>3 DEF UploadTypes, Place
  <2>2. /\ queue' \in Seq(Messages) /\ Len(queue') = Len(q) + 1
        /\ \A i \in 1..Len(q) : queue'[i] = q[i] /\ queue'[i] \in Messages
        /\ queue'[Len(q) + 1] = m
    BY <1>3
  <2>3. \A i \in 1..(Len(q) + 1) : i \in 1..Len(q) \/ i = Len(q) + 1
    BY <1>1
  <2>4. Chained'
    <3>1. \A i \in 1..Len(queue') : place'[queue'[i]] \in Call
      BY <2>1, <2>2, <2>3
    <3>2. \A i, j \in 1..Len(queue') : queue'[i] = queue'[j] => i = j
      BY <2>2, <2>3
    <3>3. QED
      BY <1>1, <1>3, <2>2, <3>1, <3>2 DEF Chained
  <2>5. Accounted'
    BY <1>1, <1>3, <2>1 DEF Accounted, Call
  <2>6. NothingPaidIsShed'
    BY <1>1, <1>3 DEF NothingPaidIsShed
  <2>7. QED
    BY <1>1, <1>3, <2>1, <2>2, <2>4, <2>5, <2>6 DEF UploadTypes
<1>4. QED
  BY <1>2, <1>3 DEF Schedule

\* The chain behind its head.
LEMMA HeadLeaves ==
  ASSUME UploadsInv, queue # <<>>
  PROVE  /\ Head(queue) \in Messages /\ place[Head(queue)] \in Call
         /\ Tail(queue) \in Seq(Messages) /\ Len(Tail(queue)) = depth - 1
         /\ depth - 1 < MaxDepth
         /\ \A i \in 1..Len(Tail(queue)) :
              place[Tail(queue)[i]] \in Call /\ Tail(queue)[i] # Head(queue)
         /\ \A i, j \in 1..Len(Tail(queue)) : Tail(queue)[i] = Tail(queue)[j] => i = j
<1>1. queue \in Seq(Messages) /\ Len(queue) \in Nat /\ Len(queue) # 0 /\ MaxDepth \in Nat
  BY ScannerAssumption DEF UploadsInv, UploadTypes
<1>2. /\ Tail(queue) \in Seq(Messages) /\ Len(Tail(queue)) = Len(queue) - 1
      /\ Head(queue) = queue[1] /\ 1 \in 1..Len(queue) /\ queue[1] \in Messages
  BY <1>1
<1>3. \A i \in 1..Len(Tail(queue)) : Tail(queue)[i] = queue[i + 1] /\ i + 1 \in 1..Len(queue)
  BY <1>1
<1>4. /\ depth = Len(queue) /\ depth <= MaxDepth
      /\ \A i \in 1..Len(queue) : place[queue[i]] \in Call
      /\ \A i, j \in 1..Len(queue) : queue[i] = queue[j] => i = j
  BY DEF UploadsInv, Chained
<1>5. \A i \in 1..Len(Tail(queue)) :
        place[Tail(queue)[i]] \in Call /\ Tail(queue)[i] # Head(queue)
  BY <1>1, <1>2, <1>3, <1>4
<1>6. \A i, j \in 1..Len(Tail(queue)) : Tail(queue)[i] = Tail(queue)[j] => i = j
  BY <1>1, <1>2, <1>3, <1>4
<1>7. QED
  BY <1>1, <1>2, <1>4, <1>5, <1>6

-----------------------------------------------------------------------------
(* The steps.                                                              *)

\* A step in which no call begins and no time passes.
LEMMA NoCall ==
  ASSUME UploadsInv, UNCHANGED <<sinceCall, times, made>>,
         place' \in [Messages -> Place], outcome' \in [Messages -> Outcome],
         file' \in [Messages -> Nat \ {0}], polls' \in [Messages -> Nat],
         spent' \in [Messages -> Nat], queue' \in Seq(Messages), calling' \in BOOLEAN,
         Chained', Accounted', NothingPaidIsShed'
  PROVE  UploadsInv'
<1>1. OnTable' /\ Waited' /\ Spaced' /\ BudgetRolling'
  BY TableStays DEF UploadsInv, PlanWellSpent
<1>2. UploadTypes'
  BY DEF UploadsInv, UploadTypes
<1>3. QED
  BY <1>1, <1>2 DEF UploadsInv, PlanWellSpent

\* What a message holds of its own.
LEMMA QueuedApart ==
  ASSUME UploadsInv, NEW m \in Messages, place[m] \notin Call
  PROVE  \A i \in 1..Len(queue) : place[queue[i]] \in Call /\ queue[i] # m
BY DEF UploadsInv, Chained

LEMMA ReturnKeeps == ASSUME UploadsInv, NEW m \in Messages, Return(m) PROVE UploadsInv'
<1>1. /\ queue # <<>> /\ m = Head(queue) /\ calling' = FALSE
      /\ UNCHANGED <<file, sinceCall, times, made, spent>>
  BY DEF Return, ReturnVerdict, ReturnUnknown, ReturnUploaded, ReturnUnfinished, ReturnFails,
         Returned, history
<1>2. /\ place[m] \in Call
      /\ Tail(queue) \in Seq(Messages) /\ Len(Tail(queue)) = depth - 1 /\ depth - 1 < MaxDepth
      /\ \A i \in 1..Len(Tail(queue)) : place[Tail(queue)[i]] \in Call /\ Tail(queue)[i] # m
      /\ \A i, j \in 1..Len(Tail(queue)) : Tail(queue)[i] = Tail(queue)[j] => i = j
  BY <1>1, HeadLeaves
<1>3. /\ UploadTypes /\ Accounted /\ NothingPaidIsShed /\ MaxDepth \in Nat /\ depth \in Nat
      /\ outcome[m] = "none" /\ depth - 1 <= MaxDepth
  <2>1. UploadTypes /\ Accounted /\ NothingPaidIsShed /\ depth = Len(queue) /\ depth <= MaxDepth
    BY DEF UploadsInv, PlanWellSpent, Chained
  <2>2. depth \in Nat /\ MaxDepth \in Nat
    BY <2>1, ScannerAssumption DEF UploadTypes
  <2>3. QED
    BY <1>2, <2>1, <2>2 DEF Accounted, Call
<1>4. polls' \in [Messages -> Nat]
  <2>1. polls' = polls \/ polls' = [polls EXCEPT ![m] = polls[m] + 1]
    BY DEF Return, ReturnVerdict, ReturnUnknown, ReturnUploaded, ReturnUnfinished, ReturnFails
  <2>2. polls \in [Messages -> Nat]
    BY <1>3 DEF UploadTypes
  <2>3. polls[m] + 1 \in Nat
    BY <2>2
  <2>4. QED
    BY <2>1, <2>2, <2>3
<1>5. \/ \E what \in Outcome \ {"full"} : Leave /\ Settle(m, what)
      \/ \E asked \in Call : Schedule(m, asked, Tail(queue), depth - 1)
  <2>1. {"verdict", "too_large", "pending", "auth", "error"} \subseteq Outcome \ {"full"}
        /\ {"upload", "analysis"} \subseteq Call
    BY DEF Outcome, Call
  <2>2. CASE ReturnVerdict(m)
    BY <2>1, <2>2 DEF ReturnVerdict
  <2>3. CASE ReturnUnknown(m)
    BY <2>1, <2>3 DEF ReturnUnknown
  <2>4. CASE ReturnUploaded(m)
    BY <2>1, <2>4 DEF ReturnUploaded
  <2>5. CASE ReturnUnfinished(m)
    BY <2>1, <2>5 DEF ReturnUnfinished
  <2>6. CASE ReturnFails(m)
    BY <2>1, <2>6 DEF ReturnFails
  <2>7. QED
    BY <2>2, <2>3, <2>4, <2>5, <2>6 DEF Return
<1>6. CASE \E what \in Outcome \ {"full"} : Leave /\ Settle(m, what)
  <2>1. PICK what \in Outcome \ {"full"} : Leave /\ Settle(m, what)
    BY <1>6
  <2>2. queue' = Tail(queue) /\ depth' = depth - 1
    BY <2>1 DEF Leave
  <2>3. /\ place' \in [Messages -> Place] /\ outcome' \in [Messages -> Outcome]
        /\ \A i \in 1..Len(Tail(queue)) : place'[Tail(queue)[i]] \in Call
        /\ Accounted' /\ NothingPaidIsShed'
    BY <1>1, <1>2, <1>3, <2>1, SettleKeeps
  <2>4. Chained'
    BY <1>2, <1>3, <2>2, <2>3 DEF Chained
  <2>5. QED
    BY <1>1, <1>2, <1>3, <1>4, <2>2, <2>3, <2>4, NoCall DEF UploadTypes
<1>7. CASE \E asked \in Call : Schedule(m, asked, Tail(queue), depth - 1)
  <2>1. /\ place' \in [Messages -> Place] /\ outcome' \in [Messages -> Outcome]
        /\ queue' \in Seq(Messages) /\ Chained' /\ Accounted' /\ NothingPaidIsShed'
    BY <1>1, <1>2, <1>3, <1>7, ScheduleKeeps
  <2>2. QED
    BY <1>1, <1>3, <1>4, <2>1, NoCall DEF UploadTypes
<1>8. QED
  BY <1>5, <1>6, <1>7

LEMMA ScanKeeps == ASSUME UploadsInv, NEW m \in Messages, Scan(m) PROVE UploadsInv'
<1>1. /\ UploadTypes /\ Accounted /\ NothingPaidIsShed /\ Chained
      /\ place[m] = "start" /\ outcome[m] = "none" /\ spent[m] = 0
      /\ UNCHANGED <<file, polls, calling, sinceCall, times, made, spent>>
  BY DEF UploadsInv, PlanWellSpent, Accounted, Scan, ScanCached, ScanLookup, DownloadFails, history
<1>2. \A i \in 1..Len(queue) : place[queue[i]] \in Call /\ queue[i] # m
  BY <1>1, QueuedApart DEF Call
<1>3. CASE ScanLookup(m)
  <2>1. "lookup" \in Call /\ Schedule(m, "lookup", queue, depth)
    BY <1>3 DEF ScanLookup, Call
  <2>2. /\ depth = Len(queue) /\ depth <= MaxDepth /\ queue \in Seq(Messages)
        /\ \A i, j \in 1..Len(queue) : queue[i] = queue[j] => i = j
    BY <1>1 DEF Chained, UploadTypes
  <2>3. /\ place' \in [Messages -> Place] /\ outcome' \in [Messages -> Outcome]
        /\ queue' \in Seq(Messages) /\ Chained' /\ Accounted' /\ NothingPaidIsShed'
    BY <1>1, <1>2, <2>1, <2>2, ScheduleKeeps
  <2>4. QED
    BY <1>1, <2>3, NoCall DEF UploadTypes
<1>4. CASE ScanCached(m) \/ DownloadFails(m)
  <2>1. /\ UNCHANGED <<queue, depth>>
        /\ \E what \in Outcome \ {"full"} : Settle(m, what)
    BY <1>4 DEF ScanCached, DownloadFails, Outcome
  <2>2. /\ place' \in [Messages -> Place] /\ outcome' \in [Messages -> Outcome]
        /\ \A i \in 1..Len(queue) : place'[queue[i]] \in Call
        /\ Accounted' /\ NothingPaidIsShed'
    BY <1>1, <1>2, <2>1, SettleKeeps DEF UploadTypes
  <2>3. Chained'
    BY <1>1, <2>1, <2>2 DEF Chained
  <2>4. QED
    BY <1>1, <2>1, <2>2, <2>3, NoCall DEF UploadTypes
<1>5. QED
  BY <1>3, <1>4 DEF Scan

LEMMA UploadKeeps == ASSUME UploadsInv, NEW m \in Messages, Upload(m) PROVE UploadsInv'
<1>1. /\ UploadTypes /\ Accounted /\ NothingPaidIsShed /\ Chained /\ place[m] = "idle"
      /\ place' = [place EXCEPT ![m] = "start"]
      /\ UNCHANGED <<file, polls, outcome, queue, calling, depth, sinceCall, times, made, spent>>
  BY DEF UploadsInv, PlanWellSpent, Upload, history
<1>2. \A i \in 1..Len(queue) : place[queue[i]] \in Call /\ queue[i] # m /\ queue[i] \in Messages
  <2>1. \A i \in 1..Len(queue) : place[queue[i]] \in Call
    BY <1>1 DEF Chained
  <2>2. \A i \in 1..Len(queue) : queue[i] \in Messages
    BY <1>1 DEF UploadTypes
  <2>3. "idle" \notin Call
    BY DEF Call
  <2>4. QED
    BY <1>1, <2>1, <2>2, <2>3
<1>3. /\ \A x \in Messages : place'[x] = IF x = m THEN "start" ELSE place[x]
      /\ place' \in [Messages -> Place]
  BY <1>1 DEF UploadTypes, Place
<1>4. Chained'
  BY <1>1, <1>2, <1>3 DEF Chained
<1>5. Accounted' /\ NothingPaidIsShed'
  BY <1>1, <1>3 DEF Accounted, NothingPaidIsShed
<1>6. QED
  BY <1>1, <1>3, <1>4, <1>5, NoCall DEF UploadTypes

LEMMA ReportKeeps == ASSUME UploadsInv, NEW m \in Messages, Report(m) PROVE UploadsInv'
<1>1. /\ UploadTypes /\ Accounted /\ NothingPaidIsShed /\ Chained /\ place[m] = "told"
      /\ polls' = [polls EXCEPT ![m] = 0] /\ outcome' = [outcome EXCEPT ![m] = "none"]
      /\ spent' = [spent EXCEPT ![m] = 0]
      /\ \/ file' = [file EXCEPT ![m] = @ + 1] /\ place' = [place EXCEPT ![m] = "start"]
         \/ file' = [file EXCEPT ![m] = 1] /\ place' = [place EXCEPT ![m] = "over"]
      /\ UNCHANGED <<queue, calling, depth, sinceCall, times, made>>
  BY DEF UploadsInv, PlanWellSpent, Report
<1>2. \A i \in 1..Len(queue) : place[queue[i]] \in Call /\ queue[i] # m /\ queue[i] \in Messages
  <2>1. \A i \in 1..Len(queue) : place[queue[i]] \in Call /\ queue[i] # m
    BY <1>1, QueuedApart DEF Call
  <2>2. \A i \in 1..Len(queue) : queue[i] \in Messages
    BY <1>1 DEF UploadTypes
  <2>3. QED
    BY <2>1, <2>2
<1>3. PICK next \in {"start", "over"} : place' = [place EXCEPT ![m] = next]
  BY <1>1
<1>4. /\ \A x \in Messages : place'[x] = IF x = m THEN next ELSE place[x]
      /\ \A x \in Messages : outcome'[x] = IF x = m THEN "none" ELSE outcome[x]
      /\ \A x \in Messages : spent'[x] = IF x = m THEN 0 ELSE spent[x]
      /\ place' \in [Messages -> Place] /\ outcome' \in [Messages -> Outcome]
      /\ spent' \in [Messages -> Nat] /\ polls' \in [Messages -> Nat]
  <2>1. next \in Place /\ "none" \in Outcome
    BY DEF Place, Outcome
  <2>2. QED
    BY <1>1, <1>3, <2>1 DEF UploadTypes
<1>5. file' \in [Messages -> Nat \ {0}]
  <2>1. file \in [Messages -> Nat \ {0}]
    BY <1>1 DEF UploadTypes
  <2>2. file[m] + 1 \in Nat \ {0}
    BY <2>1
  <2>3. QED
    BY <1>1, <2>1, <2>2
<1>6. Chained'
  BY <1>1, <1>2, <1>4 DEF Chained
<1>7. Accounted' /\ NothingPaidIsShed'
  BY <1>1, <1>4 DEF Accounted, NothingPaidIsShed
<1>8. QED
  BY <1>1, <1>4, <1>5, <1>6, <1>7, NoCall DEF UploadTypes

\* What the filter leaves of the table are the calls of the last window.
LEMMA RecentTimes ==
  ASSUME UploadTypes, OnTable
  PROVE  /\ Recent(times) \in Seq(Nat) /\ Len(Recent(times)) = Len(made)
         /\ \A i \in 1..Len(made) : Recent(times)[i] = made[i].age
<1>1. /\ times \in Seq(Nat) /\ made \in Seq(CallRecords) /\ Old \in Nat /\ Window \in Nat
      /\ Len(times) \in Nat /\ Len(made) \in Nat /\ DOMAIN times = 1..Len(times)
      /\ Old = Len(times) - Len(made)
  BY ScannerAssumption DEF UploadTypes, OnTable, Old
<1>2. PICK n : n = Old + 1
  OBVIOUS
<1>3. n \in 1..(Len(times) + 1) /\ Len(times) = Old + Len(made)
  BY <1>1, <1>2
<1>4. ASSUME NEW i \in DOMAIN times PROVE times[i] < Window <=> i >= n
  <2>1. CASE i <= Old
    <3>1. times[i] = Window
      BY <1>1, <2>1 DEF OnTable
    <3>2. QED
      BY <1>1, <1>2, <2>1, <3>1
  <2>2. CASE i > Old
    <3>1. i - Old \in 1..Len(made) /\ Old + (i - Old) = i
      BY <1>1, <1>3, <2>2
    <3>2. times[i] = made[i - Old].age /\ made[i - Old].age < Window
      BY <3>1 DEF OnTable
    <3>3. QED
      BY <1>1, <1>2, <2>2, <3>2
  <2>3. QED
    BY <1>1, <2>1, <2>2
<1>5. FirstRecent(times) = n
  BY <1>1, <1>3, <1>4, FirstRecentIs
<1>6. Recent(times) = SubSeq(times, n, Len(times))
  BY <1>5 DEF Recent
<1>7. Recent(times) \in Seq(Nat) /\ Len(Recent(times)) = Len(made)
  BY <1>1, <1>2, <1>3, <1>6
<1>8. ASSUME NEW i \in 1..Len(made) PROVE Recent(times)[i] = made[i].age
  <2>1. \A j \in 1..Len(Recent(times)) : Recent(times)[j] = times[n + j - 1]
    BY <1>1, <1>3, <1>6, SuffixOf
  <2>2. n + i - 1 = Old + i
    BY <1>1, <1>2
  <2>3. QED
    BY <1>7, <2>1, <2>2 DEF OnTable
<1>9. QED
  BY <1>7, <1>8

LEMMA OverBudgetKeeps == ASSUME UploadsInv, OverBudget PROVE UploadsInv'
<1>1. PICK m : m = Head(queue)
  OBVIOUS
<1>2. /\ UploadTypes /\ Chained /\ Accounted /\ OnTable /\ Waited /\ NothingPaidIsShed
      /\ Spaced /\ BudgetRolling /\ MaxDepth \in Nat /\ Window \in Nat
  BY ScannerAssumption DEF UploadsInv, PlanWellSpent
<1>3. /\ queue # <<>> /\ times' = Recent(times) /\ queue' = Tail(queue) /\ depth' = depth - 1
      /\ Settle(m, "budget")
      /\ UNCHANGED <<file, polls, calling, sinceCall, made, spent>>
  BY <1>1 DEF OverBudget, Leave, history
<1>4. /\ m \in Messages /\ place[m] \in Call
      /\ Tail(queue) \in Seq(Messages) /\ Len(Tail(queue)) = depth - 1 /\ depth - 1 < MaxDepth
      /\ \A i \in 1..Len(Tail(queue)) : place[Tail(queue)[i]] \in Call /\ Tail(queue)[i] # m
      /\ \A i, j \in 1..Len(Tail(queue)) : Tail(queue)[i] = Tail(queue)[j] => i = j
  BY <1>1, <1>3, HeadLeaves
<1>5. /\ place' \in [Messages -> Place] /\ outcome' \in [Messages -> Outcome]
      /\ \A i \in 1..Len(Tail(queue)) : place'[Tail(queue)[i]] \in Call
      /\ Accounted' /\ NothingPaidIsShed'
  <2>1. "budget" \in Outcome /\ "budget" # "full"
    BY DEF Outcome
  <2>2. QED
    BY <1>2, <1>3, <1>4, <2>1, SettleKeeps
<1>6. /\ times' \in Seq(Nat) /\ Len(times') = Len(made)
      /\ \A i \in 1..Len(made) : times'[i] = made[i].age
  BY <1>2, <1>3, RecentTimes
<1>7. Chained'
  <2>1. depth - 1 <= MaxDepth
    BY <1>2, <1>4 DEF Chained, UploadTypes
  <2>2. QED
    BY <1>3, <1>4, <1>5, <2>1 DEF Chained
<1>8. OnTable'
  <2>1. Len(made) \in Nat
    BY <1>2 DEF UploadTypes
  <2>2. Old' = 0
    BY <1>3, <1>6, <2>1 DEF Old
  <2>3. \A i \in 1..Len(made) : 0 + i = i
    BY <2>1
  <2>4. QED
    <3>1. \A i \in 1..Len(made) : times'[0 + i] = made[i].age /\ made[i].age < Window
      BY <1>2, <1>6, <2>3 DEF OnTable
    <3>2. \A i, j \in 1..Len(made) : i < j => made[i].age >= made[j].age
      BY <1>2 DEF OnTable
    <3>3. QED
      BY <1>3, <2>2, <3>1, <3>2 DEF OnTable
<1>9. Waited' /\ Spaced' /\ BudgetRolling'
  BY <1>2, <1>3 DEF Waited, Spaced, BudgetRolling
<1>10. UploadTypes'
  BY <1>2, <1>3, <1>4, <1>5, <1>6 DEF UploadTypes
<1>11. QED
  BY <1>5, <1>7, <1>8, <1>9, <1>10 DEF UploadsInv, PlanWellSpent

LEMMA ReserveKeeps == ASSUME UploadsInv, Reserve PROVE UploadsInv'
<1>1. PICK m, asked : m = Head(queue) /\ asked = [age |-> 0, mine |-> TRUE]
  OBVIOUS
<1>2. /\ UploadTypes /\ Chained /\ Accounted /\ OnTable /\ Waited /\ NothingPaidIsShed
      /\ Spaced /\ BudgetRolling /\ Window \in Nat \ {0} /\ MinInterval \in Nat /\ Budget \in Nat
      /\ made \in Seq(CallRecords) /\ Len(made) \in Nat /\ sinceCall \in Nat
  BY ScannerAssumption DEF UploadsInv, PlanWellSpent, UploadTypes
<1>3. /\ queue # <<>> /\ sinceCall >= MinInterval /\ Len(Recent(times)) < Budget
      /\ times' = Append(Recent(times), 0) /\ sinceCall' = 0 /\ calling' = TRUE
      /\ made' = Append(made, asked) /\ spent' = [spent EXCEPT ![m] = @ + 1]
      /\ UNCHANGED <<place, file, polls, outcome, queue, depth>>
  BY <1>1 DEF Reserve, SlotFree
<1>4. m \in Messages /\ place[m] \in Call
  BY <1>1, <1>3, HeadLeaves
<1>5. /\ Recent(times) \in Seq(Nat) /\ Len(Recent(times)) = Len(made)
      /\ \A i \in 1..Len(made) : Recent(times)[i] = made[i].age
  BY <1>2, RecentTimes
<1>6. asked \in CallRecords /\ asked.age = 0 /\ asked.mine
  BY <1>1 DEF CallRecords
<1>7. /\ made' \in Seq(CallRecords) /\ Len(made') = Len(made) + 1 /\ made'[Len(made) + 1] = asked
      /\ \A i \in 1..Len(made) : made'[i] = made[i] /\ made[i].age \in Nat
  <2>1. \A i \in 1..Len(made) : made[i] \in CallRecords
    BY <1>2
  <2>2. QED
    BY <1>2, <1>3, <1>6, <2>1 DEF CallRecords
<1>8. /\ times' \in Seq(Nat) /\ Len(times') = Len(made) + 1 /\ times'[Len(made) + 1] = 0
      /\ \A i \in 1..Len(made) : times'[i] = made[i].age
  BY <1>2, <1>3, <1>5
<1>9. \A i \in 1..(Len(made) + 1) : i \in 1..Len(made) \/ i = Len(made) + 1
  BY <1>2
<1>10. spent' \in [Messages -> Nat] /\ \A x \in Messages : x # m => spent'[x] = spent[x]
  <2>1. spent \in [Messages -> Nat]
    BY <1>2 DEF UploadTypes
  <2>2. spent[m] + 1 \in Nat
    BY <1>4, <2>1
  <2>3. QED
    BY <1>3, <2>1, <2>2
<1>11. UploadTypes'
  BY <1>2, <1>3, <1>7, <1>8, <1>10 DEF UploadTypes
<1>12. Chained'
  BY <1>2, <1>3 DEF Chained
<1>13. Accounted' /\ NothingPaidIsShed'
  <2>1. place[m] \notin {"told", "idle", "start"} /\ outcome[m] = "none"
    BY <1>2, <1>4 DEF Accounted, Call
  <2>2. QED
    BY <1>2, <1>3, <1>10, <2>1 DEF Accounted, NothingPaidIsShed
<1>14. OnTable'
  <2>1. Old' = 0
    BY <1>2, <1>7, <1>8 DEF Old
  <2>2. \A i \in 1..Len(made') : 0 + i = i /\ times'[i] = made'[i].age /\ made'[i].age < Window
    <3>1. SUFFICES ASSUME NEW i \in 1..Len(made')
                   PROVE  0 + i = i /\ times'[i] = made'[i].age /\ made'[i].age < Window
      OBVIOUS
    <3>2. i \in Int /\ 0 + i = i /\ (i \in 1..Len(made) \/ i = Len(made) + 1)
      BY <1>2, <1>7, <1>9
    <3>3. CASE i \in 1..Len(made)
      BY <1>2, <1>7, <1>8, <3>2, <3>3 DEF OnTable
    <3>4. CASE i = Len(made) + 1
      BY <1>2, <1>6, <1>7, <1>8, <3>2, <3>4
    <3>5. QED
      BY <3>2, <3>3, <3>4
  <2>3. \A i, j \in 1..Len(made') : i < j => made'[i].age >= made'[j].age
    <3>1. SUFFICES ASSUME NEW i \in 1..Len(made'), NEW j \in 1..Len(made'), i < j
                   PROVE  made'[i].age >= made'[j].age
      OBVIOUS
    <3>2. i \in 1..Len(made)
      BY <1>2, <1>7, <3>1
    <3>3. CASE j \in 1..Len(made)
      BY <1>2, <1>7, <3>1, <3>2, <3>3 DEF OnTable
    <3>4. CASE j = Len(made) + 1
      BY <1>6, <1>7, <3>2, <3>4
    <3>5. QED
      BY <1>7, <1>9, <3>1, <3>3, <3>4
  <2>4. QED
    BY <2>1, <2>2, <2>3 DEF OnTable
<1>15. Waited'
  BY <1>3, <1>6, <1>7, <1>9 DEF Waited
<1>16. Spaced'
  <2>1. SUFFICES ASSUME NEW i \in 1..Len(made'), NEW j \in 1..Len(made'), i < j,
                        made'[i].mine, made'[j].mine
                 PROVE  made'[i].age - made'[j].age >= MinInterval
    BY <1>7 DEF Spaced
  <2>2. i \in 1..Len(made)
    BY <1>2, <1>7, <2>1
  <2>3. CASE j \in 1..Len(made)
    <3>1. i \in DOMAIN made /\ j \in DOMAIN made
      BY <1>2, <2>2, <2>3
    <3>2. QED
      BY <1>2, <1>7, <2>1, <2>2, <2>3, <3>1 DEF Spaced
  <2>4. CASE j = Len(made) + 1
    <3>1. made[i].age >= sinceCall /\ made[i].age \in Nat
      BY <1>2, <1>7, <2>1, <2>2 DEF Waited
    <3>2. QED
      BY <1>2, <1>3, <1>6, <1>7, <2>2, <2>4, <3>1
  <2>5. QED
    BY <1>7, <1>9, <2>1, <2>3, <2>4
<1>17. BudgetRolling'
  BY <1>2, <1>3, <1>5, <1>7 DEF BudgetRolling
<1>18. QED
  BY <1>11, <1>12, <1>13, <1>14, <1>15, <1>16, <1>17 DEF UploadsInv, PlanWellSpent

LEMMA TickKeeps == ASSUME UploadsInv, Tick PROVE UploadsInv'
<1>1. PICK older, ages :
        /\ older = [i \in DOMAIN made |-> [made[i] EXCEPT !.age = @ + 1]]
        /\ ages = [i \in DOMAIN made |-> made[i].age + 1]
  OBVIOUS
<1>2. /\ UploadTypes /\ Chained /\ Accounted /\ OnTable /\ Waited /\ NothingPaidIsShed
      /\ Spaced /\ BudgetRolling /\ Window \in Nat \ {0} /\ MinInterval \in Nat \ {0}
      /\ Budget \in Nat /\ made \in Seq(CallRecords) /\ times \in Seq(Nat) /\ sinceCall \in Nat
      /\ Len(made) \in Nat /\ DOMAIN made = 1..Len(made)
      /\ Len(times) \in Nat /\ DOMAIN times = 1..Len(times)
  BY ScannerAssumption DEF UploadsInv, PlanWellSpent, UploadTypes
<1>3. /\ sinceCall' = Older(sinceCall, MinInterval)
      /\ times' = [i \in DOMAIN times |-> Older(times[i], Window)]
      /\ made' = SubSeq(older, FirstRecent(ages), Len(older))
      /\ UNCHANGED <<place, file, polls, outcome, queue, calling, depth, spent>>
  BY <1>1 DEF Tick
<1>4. ASSUME NEW i \in 1..Len(made)
      PROVE  /\ made[i] \in CallRecords /\ made[i].age \in Nat /\ made[i].mine \in BOOLEAN
             /\ older[i] \in CallRecords /\ older[i].mine = made[i].mine
             /\ older[i].age = made[i].age + 1 /\ ages[i] = made[i].age + 1 /\ ages[i] \in Nat
  <2>1. made[i] \in CallRecords
    BY <1>2
  <2>2. made[i].age \in Nat /\ made[i].age + 1 \in Nat /\ made[i].mine \in BOOLEAN
    BY <2>1 DEF CallRecords
  <2>3. older[i] = [made[i] EXCEPT !.age = made[i].age + 1] /\ ages[i] = made[i].age + 1
    BY <1>1, <1>2
  <2>4. QED
    BY <2>1, <2>2, <2>3 DEF CallRecords
<1>5. older \in Seq(CallRecords) /\ Len(older) = Len(made)
  <2>1. older \in [1..Len(made) -> CallRecords]
    BY <1>1, <1>2, <1>4
  <2>2. QED
    BY <1>2, <2>1
<1>6. ages \in Seq(Nat) /\ Len(ages) = Len(made) /\ DOMAIN ages = 1..Len(made)
  <2>1. ages \in [1..Len(made) -> Nat]
    <3>1. ages = [i \in 1..Len(made) |-> ages[i]]
      BY <1>1, <1>2
    <3>2. QED
      BY <1>4, <3>1
  <2>2. QED
    BY <1>2, <2>1
<1>7. PICK n : n = FirstRecent(ages)
  OBVIOUS
<1>8. /\ n \in 1..(Len(made) + 1)
      /\ \A i \in 1..Len(made) : made[i].age + 1 < Window <=> i >= n
  <2>1. \A i, j \in DOMAIN ages : i < j => ages[i] >= ages[j]
    <3>1. SUFFICES ASSUME NEW i \in 1..Len(made), NEW j \in 1..Len(made), i < j
                   PROVE  ages[i] >= ages[j]
      BY <1>6
    <3>2. made[i].age >= made[j].age
      BY <1>2, <3>1 DEF OnTable
    <3>3. QED
      BY <1>4, <3>2
  <2>2. /\ n \in 1..(Len(ages) + 1)
        /\ \A i \in DOMAIN ages : ages[i] < Window <=> i >= n
    BY <1>6, <1>7, <2>1, RecentFrom
  <2>3. QED
    BY <1>4, <1>6, <2>2
<1>9. PICK k : k = n - 1
  OBVIOUS
\* The calls that are left are the last of those before, a tick older.
<1>10. /\ k \in Nat /\ k <= Len(made) /\ Len(made') = Len(made) - k /\ Len(made') \in Nat
       /\ made' \in Seq(CallRecords) /\ DOMAIN made' = 1..Len(made')
       /\ \A i \in 1..Len(made') : i + k \in 1..Len(made) /\ made'[i] = older[i + k]
  <2>1. k \in Nat /\ k <= Len(made) /\ n = k + 1
    BY <1>2, <1>8, <1>9
  <2>2. made' = SubSeq(older, n, Len(older))
    BY <1>3, <1>7
  <2>3. /\ made' \in Seq(CallRecords) /\ Len(made') = Len(made) - k
        /\ \A i \in 1..Len(made') : made'[i] = older[n + i - 1]
    <3>1. n \in 1..(Len(older) + 1)
      BY <1>5, <1>8
    <3>2. /\ made' \in Seq(CallRecords) /\ Len(made') = Len(older) - n + 1
          /\ \A i \in 1..Len(made') : made'[i] = older[n + i - 1]
      BY <1>5, <2>2, <3>1, SuffixOf
    <3>3. QED
      BY <1>2, <1>5, <2>1, <3>2
  <2>4. \A i \in 1..Len(made') : i + k \in 1..Len(made)
    BY <1>2, <2>1, <2>3
  <2>5. \A i \in 1..Len(made') : n + i - 1 = i + k
    BY <1>2, <2>1, <2>3
  <2>6. Len(made') \in Nat /\ DOMAIN made' = 1..Len(made')
    BY <2>3
  <2>7. QED
    BY <2>1, <2>3, <2>4, <2>5, <2>6
<1>11. ASSUME NEW i \in 1..Len(made')
       PROVE  /\ i + k \in 1..Len(made) /\ made'[i].age = made[i + k].age + 1
              /\ made'[i].mine = made[i + k].mine /\ made'[i].age < Window
              /\ made[i + k].age \in Nat
  <2>1. i + k >= n
    BY <1>2, <1>8, <1>9, <1>10
  <2>2. QED
    BY <1>4, <1>8, <1>10, <2>1
<1>12. /\ times' \in Seq(Nat) /\ Len(times') = Len(times)
       /\ \A i \in 1..Len(times) : times'[i] = Older(times[i], Window)
  <2>1. \A i \in 1..Len(times) : Older(times[i], Window) \in Nat
    BY <1>2 DEF Older
  <2>2. times' \in [1..Len(times) -> Nat]
    BY <1>2, <1>3, <2>1
  <2>3. QED
    BY <1>2, <1>3, <2>2
<1>13. sinceCall' \in Nat /\ sinceCall' <= sinceCall + 1
  BY <1>2, <1>3 DEF Older
<1>14. UploadTypes'
  BY <1>2, <1>3, <1>10, <1>12, <1>13 DEF UploadTypes
<1>15. Chained' /\ Accounted' /\ NothingPaidIsShed'
  BY <1>2, <1>3 DEF Chained, Accounted, NothingPaidIsShed
<1>16. OnTable'
  <2>1. Old \in Nat /\ Old' = Old + k /\ Old' \in Nat /\ Len(times) = Old + Len(made)
    BY <1>2, <1>10, <1>12 DEF OnTable, Old
  <2>2. ASSUME NEW i \in 1..Old' PROVE times'[i] = Window
    <3>1. i \in 1..Len(times)
      <4>1. Len(made) \in Nat /\ k \in Nat /\ k <= Len(made)
        BY <1>2, <1>10
      <4>2. QED
        BY <2>1, <4>1
    <3>2. CASE i <= Old
      <4>1. times[i] = Window
        BY <1>2, <2>1, <3>2 DEF OnTable
      <4>2. QED
        BY <1>2, <1>12, <3>1, <4>1 DEF Older
    <3>3. CASE i > Old
      <4>1. i - Old \in 1..Len(made) /\ Old + (i - Old) = i /\ ~(i - Old >= n)
        BY <1>2, <1>8, <1>9, <1>10, <2>1, <3>1, <3>3
      <4>2. /\ times[i] = made[i - Old].age /\ made[i - Old].age < Window
            /\ ~(made[i - Old].age + 1 < Window) /\ made[i - Old].age \in Nat
        BY <1>2, <1>4, <1>8, <4>1 DEF OnTable
      <4>3. QED
        BY <1>2, <1>12, <3>1, <4>2 DEF Older
    <3>4. QED
      BY <2>1, <3>2, <3>3
  <2>3. ASSUME NEW i \in 1..Len(made') PROVE times'[Old' + i] = made'[i].age
    <3>1. /\ Old' + i = Old + (i + k) /\ i + k \in 1..Len(made)
          /\ Old + (i + k) \in 1..Len(times)
      <4>1. i + k \in 1..Len(made) /\ k \in Nat /\ Len(made) \in Nat
        BY <1>2, <1>10
      <4>2. i \in Nat
        BY <1>10
      <4>3. QED
        BY <2>1, <4>1, <4>2
    <3>2. times[Old + (i + k)] = made[i + k].age /\ made[i + k].age < Window
      BY <1>2, <3>1 DEF OnTable
    <3>3. QED
      BY <1>2, <1>11, <1>12, <3>1, <3>2 DEF Older
  <2>4. ASSUME NEW i \in 1..Len(made'), NEW j \in 1..Len(made'), i < j
        PROVE  made'[i].age >= made'[j].age
    <3>1. made[i + k].age >= made[j + k].age
      BY <1>2, <1>10, <1>11, <2>4 DEF OnTable
    <3>2. QED
      BY <1>11, <3>1
  <2>5. QED
    BY <1>11, <2>1, <2>2, <2>3, <2>4 DEF OnTable
<1>17. Waited'
  <2>1. ASSUME NEW i \in 1..Len(made'), made'[i].mine PROVE made'[i].age >= sinceCall'
    <3>1. made[i + k].age >= sinceCall
      BY <1>2, <1>11, <2>1 DEF Waited
    <3>2. QED
      BY <1>2, <1>11, <1>13, <3>1
  <2>2. QED
    BY <2>1 DEF Waited
<1>18. Spaced'
  <2>1. SUFFICES ASSUME NEW i \in 1..Len(made'), NEW j \in 1..Len(made'), i < j,
                        made'[i].mine, made'[j].mine
                 PROVE  made'[i].age - made'[j].age >= MinInterval
    BY <1>10 DEF Spaced
  <2>2. made[i + k].age - made[j + k].age >= MinInterval
    <3>1. PICK a, b : a = i + k /\ b = j + k
      OBVIOUS
    <3>2. /\ a \in DOMAIN made /\ b \in DOMAIN made /\ a < b
          /\ made[a].mine /\ made[b].mine
      BY <1>2, <1>10, <1>11, <2>1, <3>1
    <3>3. made[a].age - made[b].age >= MinInterval
      BY <1>2, <3>2 DEF Spaced
    <3>4. QED
      BY <3>1, <3>3
  <2>3. /\ made'[i].age = made[i + k].age + 1 /\ made[i + k].age \in Nat
        /\ made'[j].age = made[j + k].age + 1 /\ made[j + k].age \in Nat
        /\ MinInterval \in Nat
    BY <1>2, <1>11
  <2>4. QED
    BY <2>2, <2>3
<1>19. BudgetRolling'
  BY <1>2, <1>10 DEF BudgetRolling
<1>20. QED
  BY <1>14, <1>15, <1>16, <1>17, <1>18, <1>19 DEF UploadsInv, PlanWellSpent

LEMMA RestartForgets == ASSUME UploadsInv, Restart PROVE UploadsInv'
<1>1. /\ UploadTypes /\ OnTable /\ BudgetRolling /\ MinInterval \in Nat /\ MaxDepth \in Nat
      /\ made \in Seq(CallRecords) /\ Len(made) \in Nat /\ DOMAIN made = 1..Len(made)
  BY ScannerAssumption DEF UploadsInv, PlanWellSpent, UploadTypes
<1>2. /\ place' = [m \in Messages |-> IF place[m] \in {"idle", "over"} THEN place[m] ELSE "lost"]
      /\ file' = [m \in Messages |-> 1] /\ polls' = [m \in Messages |-> 0]
      /\ outcome' = [m \in Messages |-> "none"] /\ spent' = [m \in Messages |-> 0]
      /\ queue' = <<>> /\ calling' = FALSE /\ depth' = 0 /\ sinceCall' = MinInterval
      /\ made' = [i \in DOMAIN made |-> [made[i] EXCEPT !.mine = FALSE]]
      /\ UNCHANGED times
  BY DEF Restart, Forget
<1>3. ASSUME NEW i \in 1..Len(made)
      PROVE  /\ [made[i] EXCEPT !.mine = FALSE] \in CallRecords /\ made'[i].age = made[i].age
             /\ ~made'[i].mine
  <2>1. made[i] \in CallRecords
    BY <1>1
  <2>2. made'[i] = [made[i] EXCEPT !.mine = FALSE]
    BY <1>1, <1>2
  <2>3. QED
    BY <2>1, <2>2 DEF CallRecords
<1>4. made' \in Seq(CallRecords) /\ Len(made') = Len(made)
  <2>1. made' \in [1..Len(made) -> CallRecords]
    BY <1>1, <1>2, <1>3
  <2>2. QED
    BY <1>1, <2>1
<1>5. UploadTypes'
  <2>1. place' \in [Messages -> Place]
    BY <1>1, <1>2 DEF UploadTypes, Place
  <2>2. outcome' \in [Messages -> Outcome] /\ queue' \in Seq(Messages)
    BY <1>2 DEF Outcome
  <2>3. QED
    <3>1. /\ file' \in [Messages -> Nat \ {0}] /\ polls' \in [Messages -> Nat]
          /\ spent' \in [Messages -> Nat] /\ calling' \in BOOLEAN /\ sinceCall' \in Nat
      <4>1. 1 \in Nat \ {0} /\ 0 \in Nat
        OBVIOUS
      <4>2. file' \in [Messages -> Nat \ {0}]
        BY <1>1, <1>2, <4>1
      <4>3. polls' \in [Messages -> Nat] /\ spent' \in [Messages -> Nat]
        BY <1>1, <1>2, <4>1
      <4>4. calling' \in BOOLEAN
        BY <1>1, <1>2, <4>1
      <4>5. sinceCall' \in Nat
        BY <1>1, <1>2, <4>1
      <4>6. QED
        BY <4>2, <4>3, <4>4, <4>5
    <3>2. QED
      BY <1>1, <1>2, <1>4, <2>1, <2>2, <3>1 DEF UploadTypes
<1>6. Chained' /\ Accounted' /\ NothingPaidIsShed'
  BY <1>1, <1>2 DEF Chained, Accounted, NothingPaidIsShed
<1>7. OnTable'
  <2>1. Old' = Old
    BY <1>2, <1>4 DEF Old
  <2>2. QED
    BY <1>1, <1>2, <1>3, <1>4, <2>1 DEF OnTable
<1>8. Waited' /\ BudgetRolling'
  BY <1>1, <1>3, <1>4 DEF Waited, BudgetRolling
<1>9. Spaced'
  <2>1. \A i \in DOMAIN made' : ~made'[i].mine
    BY <1>1, <1>2, <1>3
  <2>2. QED
    BY <2>1 DEF Spaced
<1>10. QED
  BY <1>5, <1>6, <1>7, <1>8, <1>9 DEF UploadsInv, PlanWellSpent

LEMMA UploadsStart == ASSUME ScannerInit PROVE UploadsInv
<1>1. /\ MinInterval \in Nat /\ MaxDepth \in Nat /\ Budget \in Nat
      /\ place = [m \in Messages |-> "idle"] /\ file = [m \in Messages |-> 1]
      /\ polls = [m \in Messages |-> 0] /\ outcome = [m \in Messages |-> "none"]
      /\ queue = <<>> /\ calling = FALSE /\ depth = 0 /\ sinceCall = MinInterval
      /\ times = <<>> /\ made = <<>> /\ spent = [m \in Messages |-> 0]
  BY ScannerAssumption DEF ScannerInit
<1>2. UploadTypes
  <2>1. place \in [Messages -> Place] /\ outcome \in [Messages -> Outcome]
    BY <1>1 DEF Place, Outcome
  <2>2. /\ file \in [Messages -> Nat \ {0}] /\ polls \in [Messages -> Nat]
        /\ spent \in [Messages -> Nat] /\ calling \in BOOLEAN /\ sinceCall \in Nat
    <3>1. 1 \in Nat \ {0} /\ 0 \in Nat
      OBVIOUS
    <3>2. file \in [Messages -> Nat \ {0}]
      BY <1>1, <3>1
    <3>3. polls \in [Messages -> Nat] /\ spent \in [Messages -> Nat]
      BY <1>1, <3>1
    <3>4. calling \in BOOLEAN
      BY <1>1, <3>1
    <3>5. sinceCall \in Nat
      BY <1>1, <3>1
    <3>6. QED
      BY <3>2, <3>3, <3>4, <3>5
  <2>3. queue \in Seq(Messages) /\ times \in Seq(Nat) /\ made \in Seq(CallRecords)
    BY <1>1
  <2>4. QED
    BY <2>1, <2>2, <2>3 DEF UploadTypes
<1>3. Chained /\ Accounted
  BY <1>1 DEF Chained, Accounted
<1>4. OnTable /\ Waited
  BY <1>1 DEF OnTable, Waited, Old
<1>5. PlanWellSpent
  BY <1>1 DEF PlanWellSpent, Spaced, BudgetRolling, NothingPaidIsShed
<1>6. QED
  BY <1>2, <1>3, <1>4, <1>5 DEF UploadsInv

\* For any uploads, limits and restarts, the calls of a process keep their distance,
\* no window sees more of them than the budget, and no file is given up for a full
\* queue once it has cost a call (rate-limiter.ts, schedule; store.ts, tryConsumeBudget).
THEOREM ThePlanIsWellSpent == ScannerSpec => []PlanWellSpent
<1>1. ScannerInit => UploadsInv
  BY UploadsStart
<1>2. UploadsInv /\ [ScannerNext]_scannerVars => UploadsInv'
  <2>1. SUFFICES ASSUME UploadsInv, [ScannerNext]_scannerVars
                 PROVE  UploadsInv'
    OBVIOUS
  <2>2. ASSUME NEW m \in Messages, Upload(m) \/ Scan(m) \/ Return(m) \/ Report(m)
        PROVE  UploadsInv'
    BY <2>1, <2>2, UploadKeeps, ScanKeeps, ReturnKeeps, ReportKeeps
  <2>3. CASE Reserve
    BY <2>1, <2>3, ReserveKeeps
  <2>4. CASE OverBudget
    BY <2>1, <2>4, OverBudgetKeeps
  <2>5. CASE Tick
    BY <2>1, <2>5, TickKeeps
  <2>6. CASE Restart
    BY <2>1, <2>6, RestartForgets
  <2>7. CASE UNCHANGED scannerVars
    BY <2>1, <2>7 DEF scannerVars, memory, history, UploadsInv, UploadTypes, Chained, Accounted,
       OnTable, Old, Waited, PlanWellSpent, Spaced, BudgetRolling, NothingPaidIsShed
  <2>8. QED
    BY <2>1, <2>2, <2>3, <2>4, <2>5, <2>6, <2>7 DEF ScannerNext
<1>3. UploadsInv => PlanWellSpent
  BY DEF UploadsInv
<1>4. QED
  BY <1>1, <1>2, <1>3, PTL DEF ScannerSpec
=============================================================================
