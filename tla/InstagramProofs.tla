--------------------------- MODULE InstagramProofs ----------------------------
(***************************************************************************)
(* The Instagram monitor: when it may poll, what one poll costs and leaves, *)
(* the browsers that run, the health of the session that polls report, how *)
(* long an account may wait, and what its channels get of it.              *)
(***************************************************************************)
EXTENDS FetchHealth, InstagramGates, InstagramFetch, InstagramCadence,
        InstagramFeed, FiniteSetTheorems, WellFoundedInduction, TLAPS

-----------------------------------------------------------------------------
(* The health of a session (FetchHealth).                                  *)

\* What a notice in flight will write back: an outage was read at the threshold,
\* its end with no failure recorded.
Reads ==
  \A f \in Flushes :
    flight[f] # NoNotice =>
      /\ flight[f].kind = "failed" => flight[f].read.failures = Threshold
      /\ flight[f].kind = "recovered" => flight[f].read.failures = 0

HealthInv == HealthTypeOK /\ Reads /\ RecoveryOwed

LEMMA HealthInvInit == HealthInit => HealthInv
<1> SUFFICES ASSUME HealthInit PROVE HealthInv
  OBVIOUS
<1>1. EmptyHealth \in HealthState
  BY HealthAssumption DEF EmptyHealth, HealthState
<1>2. HealthTypeOK
  BY <1>1 DEF HealthInit, HealthTypeOK
<1>3. Reads /\ RecoveryOwed
  BY DEF HealthInit, Reads, RecoveryOwed
<1> QED BY <1>2, <1>3 DEF HealthInv

\* The notice of one flush, as its type gives it.
LEMMA NoticeShape ==
  ASSUME HealthTypeOK, NEW f \in Flushes, flight[f] # NoNotice
  PROVE  /\ flight[f].read \in HealthState /\ flight[f].kind \in {"failed", "recovered"}
         /\ flight[f].posted \in BOOLEAN
BY DEF HealthTypeOK, Notices

LEMMA HealthParts ==
  ASSUME HealthTypeOK
  PROVE  /\ health = [failures |-> health.failures, unexpected |-> health.unexpected,
                      alerted |-> health.alerted, recovery |-> health.recovery,
                      waiting |-> health.waiting, stale |-> health.stale]
         /\ health.failures \in 0..Threshold /\ health.unexpected \in BOOLEAN
         /\ health.alerted \in BOOLEAN /\ health.recovery \in BOOLEAN
         /\ health.waiting \in BOOLEAN /\ health.stale \in BOOLEAN
BY DEF HealthTypeOK, HealthState

LEMMA HealthMade ==
  ASSUME NEW n \in 0..Threshold, NEW u \in BOOLEAN, NEW a \in BOOLEAN,
         NEW r \in BOOLEAN, NEW w \in BOOLEAN, NEW s \in BOOLEAN
  PROVE  [failures |-> n, unexpected |-> u, alerted |-> a, recovery |-> r,
          waiting |-> w, stale |-> s] \in HealthState
BY DEF HealthState

\* A step that leaves the notices in flight alone leaves their reads alone.
LEMMA PollKeeps ==
  ASSUME HealthInv, RecordSuccess \/ (\E u \in BOOLEAN : RecordFailure(u))
  PROVE  HealthInv'
<1> USE HealthAssumption DEF HealthInv, telling
<1>1. Reads'
  BY DEF Reads, RecordSuccess, RecordFailure
<1>2. CASE RecordSuccess
  <2>1. health' = [health EXCEPT !.failures = 0, !.unexpected = FALSE,
                                 !.recovery = RecoveryDue, !.waiting = @ /\ ~JustRecovered]
    BY <1>2 DEF RecordSuccess
  <2>2. RecoveryDue \in BOOLEAN /\ (health.waiting /\ ~JustRecovered) \in BOOLEAN
    BY HealthParts DEF RecoveryDue, JustRecovered
  <2>3. health' \in HealthState
    <3>1. health' = [failures |-> 0, unexpected |-> FALSE, alerted |-> health.alerted,
                     recovery |-> RecoveryDue, waiting |-> health.waiting /\ ~JustRecovered,
                     stale |-> health.stale]
      BY <2>1, HealthParts, Zenon
    <3>2. 0 \in 0..Threshold
      OBVIOUS
    <3> QED BY <3>1, <3>2, <2>2, HealthParts, HealthMade
  <2>4. RecoveryOwed'
    BY <1>2, <2>1, HealthParts DEF RecoveryOwed, RecordSuccess, RecoveryDue, JustRecovered
  <2> QED BY <1>1, <1>2, <2>3, <2>4 DEF RecordSuccess, HealthTypeOK
<1>3. ASSUME NEW u \in BOOLEAN, RecordFailure(u) PROVE HealthInv'
  <2>1. PICK n \in 1..Threshold :
          health' = [health EXCEPT !.failures = n, !.unexpected = u, !.recovery = FALSE]
    <3>1. (IF health.failures < Threshold THEN health.failures + 1 ELSE health.failures)
            \in 1..Threshold
      BY HealthParts
    <3> QED BY <1>3, <3>1 DEF RecordFailure
  <2>2. n \in 0..Threshold /\ n # 0
    OBVIOUS
  <2>3. health' \in HealthState
    <3>1. health' = [failures |-> n, unexpected |-> u, alerted |-> health.alerted,
                     recovery |-> FALSE, waiting |-> health.waiting, stale |-> health.stale]
      BY <2>1, HealthParts, Zenon
    <3> QED BY <3>1, <2>2, HealthParts, HealthMade
  <2>4. RecoveryOwed'
    BY <1>3, <2>1, <2>2, HealthParts DEF RecoveryOwed, RecordFailure
  <2> QED BY <1>1, <1>3, <2>3, <2>4 DEF RecordFailure, HealthTypeOK
<1> QED BY <1>2, <1>3

\* A flush reads a state that has what its notice says.
LEMMA FlushKeeps ==
  ASSUME HealthInv, NEW f \in Flushes, Flush(f)
  PROVE  HealthInv'
<1> DEFINE read == [health EXCEPT !.waiting = TRUE]
           notice == [kind |-> IF Recovering THEN "recovered" ELSE "failed", read |-> read,
                      posted |-> FALSE]
<1> USE DEF HealthInv, telling
<1>1. read \in HealthState /\ notice \in Notices
  BY DEF HealthTypeOK, HealthState, Notices
<1>2. /\ health' = read /\ UNCHANGED <<open, missed>>
      /\ flight' = [flight EXCEPT ![f] = notice]
  BY DEF Flush
<1>3. HealthTypeOK'
  BY <1>1, <1>2 DEF HealthTypeOK
<1>4. Reads'
  <2>1. /\ notice.kind = "failed" => notice.read.failures = Threshold
        /\ notice.kind = "recovered" => notice.read.failures = 0
    BY DEF Flush, Recovering, Failing, HealthTypeOK, HealthState
  <2> QED BY <1>2, <2>1 DEF Reads, HealthTypeOK
<1>5. RecoveryOwed'
  BY <1>2 DEF RecoveryOwed, HealthTypeOK, HealthState
<1> QED BY <1>3, <1>4, <1>5

\* A notice posted is one the record misses until its answer is written, unless an
\* outage was on record already.
LEMMA PostingKeeps ==
  ASSUME HealthInv, NEW f \in Flushes, NoticePosted(f)
  PROVE  HealthInv'
<1> USE DEF HealthInv
<1>1. /\ flight' = [flight EXCEPT ![f].posted = TRUE] /\ UNCHANGED health
      /\ open' = (flight[f].kind = "failed") /\ missed' = (open' /\ (open => missed))
      /\ flight[f] # NoNotice
  BY DEF NoticePosted
<1>2. [flight[f] EXCEPT !.posted = TRUE] \in Notices
  BY <1>1, NoticeShape DEF HealthTypeOK, Notices
<1>3. HealthTypeOK'
  <2>1. open' \in BOOLEAN
    BY <1>1
  <2>2. missed' \in BOOLEAN
    BY <1>1
  <2>3. flight' \in [Flushes -> Notices \cup {NoNotice}]
    BY <1>1, <1>2 DEF HealthTypeOK
  <2> QED BY <1>1, <2>1, <2>2, <2>3 DEF HealthTypeOK
<1>4. Reads'
  <2> SUFFICES ASSUME NEW g \in Flushes, flight'[g] # NoNotice
               PROVE  /\ flight'[g].kind = "failed" => flight'[g].read.failures = Threshold
                      /\ flight'[g].kind = "recovered" => flight'[g].read.failures = 0
    BY DEF Reads
  <2>1. CASE g = f
    <3>1. flight'[g] = [flight[f] EXCEPT !.posted = TRUE]
      BY <1>1, <2>1 DEF HealthTypeOK
    <3>2. flight[f] \in Notices
      BY <1>1 DEF HealthTypeOK
    <3>3. flight'[g].kind = flight[f].kind /\ flight'[g].read = flight[f].read
      BY <3>1, <3>2 DEF Notices
    <3> QED BY <3>3, <1>1 DEF Reads
  <2>2. CASE g # f
    <3>1. flight'[g] = flight[g]
      BY <1>1, <2>2 DEF HealthTypeOK
    <3> QED BY <3>1 DEF Reads
  <2> QED BY <2>1, <2>2
<1>5. RecoveryOwed'
  BY <1>1 DEF RecoveryOwed
<1> QED BY <1>3, <1>4, <1>5

\* What the notice read is written over what polls recorded since.
LEMMA DeliveryKeeps ==
  ASSUME HealthInv, NEW f \in Flushes, NoticeRecorded(f)
  PROVE  HealthInv'
<1> DEFINE read == flight[f].read
<1> USE HealthAssumption DEF HealthInv
<1>1. /\ read \in HealthState /\ flight[f].kind \in {"failed", "recovered"}
      /\ flight[f].kind = "failed" => read.failures = Threshold
  BY NoticeShape DEF NoticeRecorded, Reads
<1>2. /\ health' = [read EXCEPT !.alerted = (flight[f].kind = "failed"),
                                !.recovery = FALSE, !.stale = FALSE]
      /\ missed' = (open /\ flight[f].kind = "recovered") /\ UNCHANGED open
      /\ flight' = [flight EXCEPT ![f] = NoNotice]
  BY DEF NoticeRecorded
<1>3. HealthTypeOK'
  <2>1. health' \in HealthState
    BY <1>1, <1>2 DEF HealthState
  <2>2. missed' \in BOOLEAN
    BY <1>2
  <2> QED BY <1>2, <2>1, <2>2 DEF HealthTypeOK
<1>4. Reads'
  BY <1>2 DEF Reads, HealthTypeOK
<1>5. RecoveryOwed'
  <2>1. CASE flight[f].kind = "recovered"
    BY <1>2, <2>1 DEF RecoveryOwed
  <2>2. CASE flight[f].kind = "failed"
    <3>1. health'.alerted = TRUE /\ health'.failures = Threshold
      BY <1>1, <1>2, <2>2 DEF HealthState
    <3> QED BY <3>1 DEF RecoveryOwed
  <2> QED BY <1>1, <2>1, <2>2
<1> QED BY <1>3, <1>4, <1>5

\* What fails, ages or is lost in a restart only takes notices away.
LEMMA RestKeeps ==
  ASSUME HealthInv,
         AttemptAges \/ AlertAges \/ HealthRestart \/ (\E f \in Flushes : NoticeFails(f))
  PROVE  HealthInv'
<1> USE DEF HealthInv, telling
<1>1. CASE AttemptAges
  BY <1>1 DEF AttemptAges, HealthTypeOK, HealthState, Reads, RecoveryOwed
<1>2. CASE AlertAges
  BY <1>2 DEF AlertAges, HealthTypeOK, HealthState, Reads, RecoveryOwed
<1>3. CASE HealthRestart
  BY <1>3 DEF HealthRestart, HealthTypeOK, Reads, RecoveryOwed
<1>4. ASSUME NEW f \in Flushes, NoticeFails(f) PROVE HealthInv'
  BY <1>4 DEF NoticeFails, HealthTypeOK, Reads, RecoveryOwed
<1> QED BY <1>1, <1>2, <1>3, <1>4

LEMMA HealthInvStep == HealthInv /\ [HealthNext]_healthVars => HealthInv'
<1> SUFFICES ASSUME HealthInv, [HealthNext]_healthVars PROVE HealthInv'
  OBVIOUS
<1>1. CASE UNCHANGED healthVars
  BY <1>1 DEF healthVars, telling, HealthInv, HealthTypeOK, Reads, RecoveryOwed
<1>2. CASE HealthNext
  BY <1>2, PollKeeps, FlushKeeps, PostingKeeps, DeliveryKeeps, RestKeeps DEF HealthNext
<1> QED BY <1>1, <1>2

\* Every notice of an outage that the operators saw and whose outcome was recorded
\* is followed by one of its end: whatever polls and other flushes write over each
\* other, over restarts and lost answers, the record has the outage as alerted, and
\* once the fetches succeed its recovery as still to be announced. A notice whose
\* outcome was not recorded (missed) is outside the theorem.
THEOREM OutageNotForgotten == HealthSpec => []RecoveryOwed
<1>1. HealthSpec => []HealthInv
  BY HealthInvInit, HealthInvStep, PTL DEF HealthSpec
<1> QED BY <1>1, PTL DEF HealthInv

-----------------------------------------------------------------------------
(* When the monitor may poll (InstagramGates).                             *)

(* Sums over a window of instants.                                         *)

Chosen(s) == CHOOSE x \in s : TRUE
SumOver(f, S) == FoldSet(LAMBDA t, n : n + f[t], 0, S)

\* What a fold computes for every subset of S: its partial sums.
PartialSums(g, f, S) ==
  g = [s \in SUBSET S |-> IF s = {} THEN 0 ELSE g[s \ {Chosen(s)}] + f[Chosen(s)]]

\* Of the finite sets in C one has no smaller one in C.
LEMMA SmallestSet ==
  ASSUME NEW S, IsFiniteSet(S), NEW C \in SUBSET (SUBSET S), C # {}
  PROVE  \E s \in C : \A u \in C : u \subseteq s => u = s
<1>1. FiniteSubsetsOf(S) = SUBSET S
  BY FS_FiniteSubsetsOfFinite
<1>2. IsWellFoundedOn(StrictSubsetOrdering(S), SUBSET S)
  BY <1>1, FS_StrictSubsetOrderingWellFounded
<1>3. PICK s \in C : \A u \in C : ~(<<u, s>> \in StrictSubsetOrdering(S))
  BY <1>2, WFMin
<1>4. \A u \in C : u \subseteq s => u = s
  BY <1>3 DEF StrictSubsetOrdering
<1>5. QED
  BY <1>4

LEMMA ChosenIn == ASSUME NEW s, s # {} PROVE Chosen(s) \in s
BY DEF Chosen

\* Two folds agree where both are defined.
LEMMA PartialSumsAgree ==
  ASSUME NEW f, NEW S, NEW T, IsFiniteSet(S),
         NEW g, PartialSums(g, f, S), NEW h, PartialSums(h, f, T),
         NEW s, s \subseteq S, s \subseteq T
  PROVE  g[s] = h[s]
<1> DEFINE C == {u \in SUBSET S : u \subseteq T /\ g[u] # h[u]}
<1>1. SUFFICES ASSUME g[s] # h[s] PROVE FALSE
  OBVIOUS
<1>2. s \in C
  BY <1>1
<1>3. PICK u \in C : \A v \in C : v \subseteq u => v = u
  <2>1. C \in SUBSET (SUBSET S)
    OBVIOUS
  <2> HIDE DEF C
  <2>2. QED
    BY <1>2, <2>1, SmallestSet
<1>4. u \in SUBSET S /\ u \in SUBSET T /\ g[u] # h[u]
  OBVIOUS
<1>5. g[u] = IF u = {} THEN 0 ELSE g[u \ {Chosen(u)}] + f[Chosen(u)]
  BY <1>4 DEF PartialSums
<1>6. h[u] = IF u = {} THEN 0 ELSE h[u \ {Chosen(u)}] + f[Chosen(u)]
  BY <1>4 DEF PartialSums
<1>7. u # {}
  BY <1>4, <1>5, <1>6
<1>8. Chosen(u) \in u
  BY <1>7, ChosenIn
<1>9. g[u \ {Chosen(u)}] = h[u \ {Chosen(u)}]
  <2>1. u \ {Chosen(u)} \notin C
    BY <1>3, <1>8
  <2>2. u \ {Chosen(u)} \in SUBSET S /\ u \ {Chosen(u)} \subseteq T
    BY <1>4
  <2>3. QED
    BY <2>1, <2>2
<1>10. QED
  BY <1>4, <1>5, <1>6, <1>7, <1>9

LEMMA PartialSumsExist ==
  ASSUME NEW f, NEW S, IsFiniteSet(S)
  PROVE  \E g : PartialSums(g, f, S)
<1> DEFINE C == {u \in SUBSET S : ~ \E g : PartialSums(g, f, u)}
<1>1. SUFFICES ASSUME ~ \E g : PartialSums(g, f, S) PROVE FALSE
  OBVIOUS
<1>2. S \in C
  BY <1>1
<1>3. PICK u \in C : \A v \in C : v \subseteq u => v = u
  <2>1. C \in SUBSET (SUBSET S)
    OBVIOUS
  <2> HIDE DEF C
  <2>2. QED
    BY <1>2, <2>1, SmallestSet
<1>4. u \in SUBSET S /\ ~ \E g : PartialSums(g, f, u)
  OBVIOUS
<1> DEFINE total(v) == (CHOOSE g : PartialSums(g, f, v))[v]
           G == [s \in SUBSET u |-> IF s = {} THEN 0
                                    ELSE total(s \ {Chosen(s)}) + f[Chosen(s)]]
<1>5. ASSUME NEW v \in SUBSET u, v # u PROVE PartialSums(CHOOSE g : PartialSums(g, f, v), f, v)
  <2>1. v \notin C /\ v \in SUBSET S
    BY <1>3, <1>4, <1>5
  <2>2. \E g : PartialSums(g, f, v)
    BY <2>1
  <2>3. QED
    BY <2>2, Zenon
<1>6. ASSUME NEW v \in SUBSET u, v # u, v # {}
      PROVE  total(v) = total(v \ {Chosen(v)}) + f[Chosen(v)]
  <2> DEFINE w == v \ {Chosen(v)}
             gv == CHOOSE g : PartialSums(g, f, v)
             gw == CHOOSE g : PartialSums(g, f, w)
  <2>1. Chosen(v) \in v
    BY <1>6, ChosenIn
  <2>2. w \in SUBSET u /\ w # u /\ w \subseteq v
    BY <1>6, <2>1
  <2>3. PartialSums(gv, f, v) /\ PartialSums(gw, f, w)
    BY <1>5, <1>6, <2>2
  <2>4. IsFiniteSet(v)
    BY <1>4, <1>6, FS_Subset
  <2> HIDE DEF gv, gw
  <2>5. gv[w] = gw[w]
    BY <2>2, <2>3, <2>4, PartialSumsAgree
  <2>6. gv[v] = gv[w] + f[Chosen(v)]
    BY <1>6, <2>3 DEF PartialSums
  <2>7. QED
    BY <2>5, <2>6 DEF gv, gw
<1>7. \A v \in SUBSET u : v # u => total(v) = IF v = {} THEN 0 ELSE G[v]
  <2> SUFFICES ASSUME NEW v \in SUBSET u, v # u PROVE total(v) = IF v = {} THEN 0 ELSE G[v]
    OBVIOUS
  <2>1. CASE v # {}
    <3>1. total(v) = total(v \ {Chosen(v)}) + f[Chosen(v)]
      BY <1>6, <2>1
    <3> HIDE DEF total
    <3>2. G[v] = total(v \ {Chosen(v)}) + f[Chosen(v)]
      BY <2>1
    <3>3. QED
      BY <2>1, <3>1, <3>2
  <2>2. CASE v = {}
    <3> DEFINE gv == CHOOSE g : PartialSums(g, f, v)
    <3>1. PartialSums(gv, f, v)
      BY <1>5
    <3> HIDE DEF gv
    <3>2. gv[v] = 0
      BY <2>2, <3>1 DEF PartialSums
    <3>3. QED
      BY <2>2, <3>2 DEF gv
  <2>3. QED
    BY <2>1, <2>2
<1>8. \A v \in SUBSET u : v # u => total(v) = G[v]
  <2>1. {} \in SUBSET u /\ G[{}] = 0
    OBVIOUS
  <2>2. QED
    BY <1>7, <2>1
<1> HIDE DEF total
<1>9. ASSUME NEW s \in SUBSET u, s # {} PROVE total(s \ {Chosen(s)}) = G[s \ {Chosen(s)}]
  <2>1. Chosen(s) \in s
    BY <1>9, ChosenIn
  <2>2. s \ {Chosen(s)} \in SUBSET u /\ s \ {Chosen(s)} # u
    BY <2>1
  <2>3. QED
    BY <1>8, <2>2
<1>10. G = [s \in SUBSET u |-> IF s = {} THEN 0 ELSE G[s \ {Chosen(s)}] + f[Chosen(s)]]
  BY <1>9
<1>11. PartialSums(G, f, u)
  BY <1>10 DEF PartialSums
<1>12. QED
  BY <1>4, <1>11

LEMMA SumIsPartial ==
  ASSUME NEW f, NEW S, IsFiniteSet(S), NEW g, PartialSums(g, f, S), NEW T, T \subseteq S
  PROVE  SumOver(f, T) = g[T]
<1> DEFINE h == CHOOSE k : PartialSums(k, f, T)
<1>1. IsFiniteSet(T)
  BY FS_Subset
<1>2. \E k : PartialSums(k, f, T)
  BY <1>1, PartialSumsExist
<1>3. PartialSums(h, f, T)
  BY <1>2, Zenon
<1>4. SumOver(f, T) = h[T]
  BY Zenon DEF SumOver, FoldSet, MapThenFoldSet, PartialSums, Chosen
<1> HIDE DEF h
<1>5. h[T] = g[T]
  <2>1. T \subseteq T
    OBVIOUS
  <2>2. QED
    BY <1>1, <1>3, <2>1, PartialSumsAgree
<1>6. QED
  BY <1>4, <1>5

\* The sum over no instant, over one instant less, and its type.
LEMMA SumOfNone == ASSUME NEW f PROVE SumOver(f, {}) = 0
<1>1. IsFiniteSet({})
  BY FS_EmptySet
<1>2. PICK g : PartialSums(g, f, {})
  BY <1>1, PartialSumsExist
<1>3. g[{}] = 0
  BY <1>2 DEF PartialSums
<1>4. SumOver(f, {}) = g[{}]
  <2>1. {} \subseteq {}
    OBVIOUS
  <2>2. QED
    BY <1>1, <1>2, <2>1, SumIsPartial
<1>5. QED
  BY <1>3, <1>4

LEMMA SumChosen ==
  ASSUME NEW f, NEW S, IsFiniteSet(S), S # {}
  PROVE  SumOver(f, S) = SumOver(f, S \ {Chosen(S)}) + f[Chosen(S)]
<1> DEFINE R == S \ {Chosen(S)}
<1>1. PICK g : PartialSums(g, f, S)
  BY PartialSumsExist
<1>2. S \subseteq S /\ R \subseteq S
  OBVIOUS
<1>3. g[S] = g[R] + f[Chosen(S)]
  BY <1>1 DEF PartialSums
<1> HIDE DEF R
<1>4. SumOver(f, S) = g[S] /\ SumOver(f, R) = g[R]
  BY <1>1, <1>2, SumIsPartial
<1>5. QED
  BY <1>3, <1>4 DEF R

Naturals(f, S) == \A t \in S : f[t] \in Nat

LEMMA SumIsNatural ==
  ASSUME NEW f, NEW S, IsFiniteSet(S), Naturals(f, S)
  PROVE  SumOver(f, S) \in Nat
<1> DEFINE C == {u \in SUBSET S : SumOver(f, u) \notin Nat}
<1>1. SUFFICES ASSUME SumOver(f, S) \notin Nat PROVE FALSE
  OBVIOUS
<1>2. PICK u \in C : \A v \in C : v \subseteq u => v = u
  <2>1. C \in SUBSET (SUBSET S) /\ S \in C
    BY <1>1
  <2> HIDE DEF C
  <2>2. QED
    BY <2>1, SmallestSet
<1>3. u \in SUBSET S /\ SumOver(f, u) \notin Nat
  OBVIOUS
<1>4. u # {}
  BY <1>3, SumOfNone
<1>5. Chosen(u) \in u
  BY <1>4, ChosenIn
<1>6. SumOver(f, u) = SumOver(f, u \ {Chosen(u)}) + f[Chosen(u)]
  BY <1>3, <1>4, FS_Subset, SumChosen
<1>7. SumOver(f, u \ {Chosen(u)}) \in Nat
  <2>1. u \ {Chosen(u)} \notin C
    BY <1>2, <1>5
  <2>2. QED
    BY <1>3, <2>1
<1>8. f[Chosen(u)] \in Nat
  BY <1>3, <1>5 DEF Naturals
<1>9. QED
  BY <1>3, <1>6, <1>7, <1>8

\* Any instant may be taken out first.
LEMMA SumWithout ==
  ASSUME NEW f, NEW S, IsFiniteSet(S), Naturals(f, S), NEW x \in S
  PROVE  SumOver(f, S) = SumOver(f, S \ {x}) + f[x]
<1> DEFINE C == {u \in SUBSET S : \E y \in u : SumOver(f, u) # SumOver(f, u \ {y}) + f[y]}
<1>1. SUFFICES ASSUME SumOver(f, S) # SumOver(f, S \ {x}) + f[x] PROVE FALSE
  OBVIOUS
<1>2. PICK u \in C : \A v \in C : v \subseteq u => v = u
  <2>1. C \in SUBSET (SUBSET S) /\ S \in C
    BY <1>1
  <2> HIDE DEF C
  <2>2. QED
    BY <2>1, SmallestSet
<1>3. PICK y \in u : SumOver(f, u) # SumOver(f, u \ {y}) + f[y]
  OBVIOUS
<1>4. u \in SUBSET S
  OBVIOUS
<1> DEFINE c == Chosen(u)
           r == (u \ {y}) \ {c}
<1>5. c \in u
  BY <1>3, ChosenIn
<1>6. IsFiniteSet(u) /\ IsFiniteSet(r)
  BY <1>4, FS_Subset
<1>7. SumOver(f, u) = SumOver(f, u \ {c}) + f[c]
  BY <1>3, <1>6, SumChosen
<1>8. c # y
  BY <1>3, <1>7
<1> HIDE DEF c
<1>9. SumOver(f, u \ {c}) = SumOver(f, r) + f[y]
  <2>1. u \ {c} \notin C /\ u \ {c} \in SUBSET S /\ y \in u \ {c}
    BY <1>2, <1>4, <1>5, <1>8
  <2>2. SumOver(f, u \ {c}) = SumOver(f, (u \ {c}) \ {y}) + f[y]
    BY <2>1
  <2>3. (u \ {c}) \ {y} = r
    OBVIOUS
  <2>4. QED
    BY <2>2, <2>3
<1>10. SumOver(f, u \ {y}) = SumOver(f, r) + f[c]
  <2>1. u \ {y} \notin C /\ u \ {y} \in SUBSET S /\ c \in u \ {y}
    BY <1>2, <1>3, <1>4, <1>5, <1>8
  <2>2. QED
    BY <2>1
<1>11. SumOver(f, r) \in Nat /\ f[c] \in Nat /\ f[y] \in Nat
  <2>1. Naturals(f, r)
    BY <1>4 DEF Naturals
  <2>2. f[c] \in Nat /\ f[y] \in Nat
    BY <1>4, <1>5 DEF Naturals
  <2> HIDE DEF r
  <2>3. QED
    BY <1>6, <2>1, <2>2, SumIsNatural
<1> HIDE DEF r
<1>12. QED
  BY <1>3, <1>7, <1>9, <1>10, <1>11

\* A larger window holds more, and if g is at least f everywhere, a larger window
\* has more of the difference.
LEMMA SumGrows ==
  ASSUME NEW f, NEW g, NEW S, IsFiniteSet(S), Naturals(f, S), Naturals(g, S),
         \A t \in S : f[t] <= g[t],
         NEW T, T \subseteq S
  PROVE  /\ SumOver(f, T) <= SumOver(f, S)
         /\ SumOver(g, T) - SumOver(f, T) <= SumOver(g, S) - SumOver(f, S)
<1> DEFINE Fits(u) == /\ SumOver(f, T) <= SumOver(f, u)
                      /\ SumOver(g, T) - SumOver(f, T) <= SumOver(g, u) - SumOver(f, u)
           C == {u \in SUBSET S : T \subseteq u /\ ~ Fits(u)}
<1>1. SUFFICES ASSUME ~ Fits(S) PROVE FALSE
  OBVIOUS
<1>2. PICK u \in C : \A v \in C : v \subseteq u => v = u
  <2>1. C \in SUBSET (SUBSET S) /\ S \in C
    BY <1>1
  <2> HIDE DEF C
  <2>2. QED
    BY <2>1, SmallestSet
<1>3. u \in SUBSET S /\ T \subseteq u /\ ~ Fits(u)
  OBVIOUS
<1>4. \A v \in SUBSET S : SumOver(f, v) \in Nat /\ SumOver(g, v) \in Nat
  <2> SUFFICES ASSUME NEW v \in SUBSET S PROVE SumOver(f, v) \in Nat /\ SumOver(g, v) \in Nat
    OBVIOUS
  <2>1. IsFiniteSet(v) /\ Naturals(f, v) /\ Naturals(g, v)
    BY FS_Subset DEF Naturals
  <2>2. QED
    BY <2>1, SumIsNatural
<1>5. T # u
  BY <1>3, <1>4
<1>6. PICK x \in u : x \notin T
  BY <1>3, <1>5
<1>7. IsFiniteSet(u) /\ Naturals(f, u) /\ Naturals(g, u)
  BY <1>3, FS_Subset DEF Naturals
<1>8. /\ SumOver(f, u) = SumOver(f, u \ {x}) + f[x]
      /\ SumOver(g, u) = SumOver(g, u \ {x}) + g[x]
  BY <1>7, SumWithout
<1>9. Fits(u \ {x})
  <2>1. u \ {x} \notin C
    BY <1>2, <1>6
  <2>2. u \ {x} \in SUBSET S /\ T \subseteq u \ {x}
    BY <1>3, <1>6
  <2>3. QED
    BY <2>1, <2>2
<1>10. f[x] \in Nat /\ g[x] \in Nat /\ f[x] <= g[x]
  BY <1>3 DEF Naturals
<1>11. /\ SumOver(f, T) \in Nat /\ SumOver(g, T) \in Nat
       /\ SumOver(f, u \ {x}) \in Nat /\ SumOver(g, u \ {x}) \in Nat
  BY <1>3, <1>4
<1>12. QED
  BY <1>3, <1>8, <1>9, <1>10, <1>11

\* More at one instant of the window is as much more in all.
LEMMA SumMore ==
  ASSUME NEW f, NEW S, IsFiniteSet(S), Naturals(f, S), NEW x \in S, NEW n \in Nat,
         NEW g, Naturals(g, S), g[x] = f[x] + n, \A t \in S \ {x} : g[t] = f[t]
  PROVE  SumOver(g, S) = SumOver(f, S) + n
<1> DEFINE R == S \ {x}
<1>1. IsFiniteSet(R) /\ Naturals(f, R) /\ Naturals(g, R)
  BY FS_Subset DEF Naturals
<1>2. SumOver(f, S) = SumOver(f, R) + f[x] /\ SumOver(g, S) = SumOver(g, R) + g[x]
  BY SumWithout
<1>3. f[x] \in Nat /\ SumOver(f, R) \in Nat /\ SumOver(g, R) \in Nat
  <2>1. f[x] \in Nat
    BY DEF Naturals
  <2> HIDE DEF R
  <2>2. QED
    BY <1>1, <2>1, SumIsNatural
<1>4. {} \subseteq R /\ (\A t \in R : f[t] <= g[t]) /\ (\A t \in R : g[t] <= f[t])
  BY DEF Naturals
<1> HIDE DEF R
<1>5. SumOver(f, {}) = 0 /\ SumOver(g, {}) = 0
  BY SumOfNone
<1>6. SumOver(g, {}) - SumOver(f, {}) <= SumOver(g, R) - SumOver(f, R)
  BY <1>1, <1>4, SumGrows
<1>7. SumOver(f, {}) - SumOver(g, {}) <= SumOver(f, R) - SumOver(g, R)
  BY <1>1, <1>4, SumGrows
<1>8. QED
  BY <1>2, <1>3, <1>5, <1>6, <1>7

-----------------------------------------------------------------------------
(* When the monitor may poll.                                              *)

Window == {t \in Times : t >= gateClock - Day}

GatesTypeOK ==
  /\ gateClock \in Times /\ commands \in Nat /\ restarts \in Nat
  /\ spent \in [Times -> Nat] /\ saved \in [Times -> Nat] /\ sent \in [Times -> Nat]
  /\ phase \in {"idle", "polling", "alerting", "telling"}
  /\ stopped \in BOOLEAN /\ flagged \in BOOLEAN

\* What is written down lags behind what was spent, and that behind what was
\* sent, by at most a poll and by a poll for each restart; a poll began below
\* the budget.
Lags ==
  /\ \A t \in Times : saved[t] <= spent[t] /\ spent[t] <= sent[t]
  /\ phase \in {"idle", "polling"} => saved = spent
  /\ SumOver(spent, Times) - SumOver(saved, Times) <= MostPerPoll
  /\ SumOver(sent, Times) - SumOver(spent, Times) <= MostPerPoll * restarts
  /\ SumOver(spent, Window) <= Budget - 1 + MostPerPoll
  /\ phase = "polling" => SumOver(spent, Window) <= Budget - 1

\* A flag has stopped the monitor, or is about to.
FlagStops == hits = throttles /\ (flagged => stopped \/ phase = "alerting")

GatesInv == GatesTypeOK /\ Lags /\ FlagStops

LEMMA GatesConstants ==
  /\ Budget \in Nat /\ Budget >= 1 /\ Day \in Nat /\ EndTime \in Nat
  /\ MaxCommands \in Nat /\ MaxRestarts \in Nat /\ MostPerPoll = 3
BY GatesAssumption DEF MostPerPoll

LEMMA WindowsFinite ==
  /\ IsFiniteSet(Times) /\ Times \subseteq Nat
  /\ Window \subseteq Times /\ IsFiniteSet(Window)
<1>1. IsFiniteSet(Times)
  BY GatesConstants, FS_Interval DEF Times
<1>2. Times \subseteq Nat /\ Window \in SUBSET Times
  BY GatesConstants DEF Times, Window
<1>3. QED
  BY <1>1, <1>2, FS_Subset

LEMMA RecentIsSum == ASSUME NEW f PROVE Recent(f) = SumOver(f, Window)
BY DEF Recent, SumOver, Window

\* The sums of the windows are numbers, and those of what is larger are larger.
LEMMA WindowSums ==
  ASSUME NEW f \in [Times -> Nat], NEW S \in SUBSET Times
  PROVE  Naturals(f, S) /\ SumOver(f, S) \in Nat
<1>1. IsFiniteSet(S) /\ Naturals(f, S)
  BY WindowsFinite, FS_Subset DEF Naturals
<1>2. QED
  BY <1>1, SumIsNatural

LEMMA WindowGrows ==
  ASSUME NEW f \in [Times -> Nat], NEW g \in [Times -> Nat],
         NEW S \in SUBSET Times, NEW T \in SUBSET S, \A t \in Times : f[t] <= g[t]
  PROVE  /\ SumOver(f, T) <= SumOver(f, S)
         /\ SumOver(f, S) <= SumOver(g, S)
         /\ SumOver(g, T) - SumOver(f, T) <= SumOver(g, S) - SumOver(f, S)
<1>1. IsFiniteSet(S)
  BY WindowsFinite, FS_Subset
<1>2. /\ Naturals(f, S) /\ Naturals(g, S)
      /\ SumOver(f, S) \in Nat /\ SumOver(g, S) \in Nat
  BY WindowSums
<1>3. \A t \in S : f[t] <= g[t]
  OBVIOUS
<1>4. {} \subseteq S /\ T \subseteq S
  OBVIOUS
<1>5. SumOver(g, {}) - SumOver(f, {}) <= SumOver(g, S) - SumOver(f, S)
  BY <1>1, <1>2, <1>3, <1>4, SumGrows
<1>6. SumOver(f, {}) = 0 /\ SumOver(g, {}) = 0
  BY SumOfNone
<1>7. /\ SumOver(f, T) <= SumOver(f, S)
      /\ SumOver(g, T) - SumOver(f, T) <= SumOver(g, S) - SumOver(f, S)
  BY <1>1, <1>2, <1>3, <1>4, SumGrows
<1>8. QED
  BY <1>2, <1>5, <1>6, <1>7

\* n more at one instant.
More(g, f, x, n) == g = [f EXCEPT ![x] = @ + n]

LEMMA WindowMore ==
  ASSUME NEW f \in [Times -> Nat], NEW x \in Times, NEW n \in Nat,
         NEW g, More(g, f, x, n),
         NEW S \in SUBSET Times, x \in S
  PROVE  SumOver(g, S) = SumOver(f, S) + n
<1>1. g \in [Times -> Nat]
  BY DEF More
<1>2. g[x] = f[x] + n /\ \A t \in S \ {x} : g[t] = f[t]
  BY DEF More
<1>3. IsFiniteSet(S) /\ Naturals(f, S) /\ Naturals(g, S)
  BY <1>1, WindowsFinite, WindowSums, FS_Subset
<1>4. g[x] = f[x] + n
  BY <1>2
<1>5. \A t \in S \ {x} : g[t] = f[t]
  BY <1>2
<1>6. QED
  BY <1>3, <1>4, <1>5, SumMore

LEMMA PollCosts == \A f \in Fetches : f.cost \in 1..3
<1> SUFFICES ASSUME NEW f \in Fetches PROVE f.cost \in 1..3
  OBVIOUS
<1>1. f.cost \in {1} \/ \E n \in {1, 2} : f.cost \in {n + w : w \in {0, 1}}
  BY DEF Fetches
<1>2. QED
  BY <1>1

LEMMA NothingSummed ==
  ASSUME NEW S \in SUBSET Times PROVE SumOver(Never, S) = 0
<1> DEFINE C == {u \in SUBSET S : SumOver(Never, u) # 0}
<1>1. SUFFICES ASSUME SumOver(Never, S) # 0 PROVE FALSE
  OBVIOUS
<1>2. IsFiniteSet(S)
  BY WindowsFinite, FS_Subset
<1>3. PICK u \in C : \A v \in C : v \subseteq u => v = u
  <2>1. C \in SUBSET (SUBSET S) /\ S \in C
    BY <1>1
  <2> HIDE DEF C
  <2>2. QED
    BY <1>2, <2>1, SmallestSet
<1>4. u \in SUBSET S /\ SumOver(Never, u) # 0
  OBVIOUS
<1>5. u # {}
  BY <1>4, SumOfNone
<1>6. Chosen(u) \in u
  BY <1>5, ChosenIn
<1>7. SumOver(Never, u) = SumOver(Never, u \ {Chosen(u)}) + Never[Chosen(u)]
  BY <1>2, <1>4, <1>5, FS_Subset, SumChosen
<1>8. SumOver(Never, u \ {Chosen(u)}) = 0
  BY <1>3, <1>4, <1>6
<1>9. Never[Chosen(u)] = 0
  BY <1>4, <1>6 DEF Never
<1>10. QED
  BY <1>4, <1>7, <1>8, <1>9

LEMMA GatesInvInit == GatesInit => GatesInv
<1> SUFFICES ASSUME GatesInit PROVE GatesInv
  OBVIOUS
<1>1. Never \in [Times -> Nat] /\ gateClock \in Times
  BY GatesConstants DEF GatesInit, Never, Times
<1>2. GatesTypeOK
  BY <1>1 DEF GatesInit, GatesTypeOK
<1>3. SumOver(Never, Times) = 0 /\ SumOver(Never, Window) = 0
  BY WindowsFinite, NothingSummed
<1>4. \A t \in Times : Never[t] <= Never[t]
  BY <1>1
<1>5. Lags
  BY <1>3, <1>4, GatesConstants DEF GatesInit, Lags
<1>6. FlagStops
  BY DEF GatesInit, FlagStops
<1>7. QED
  BY <1>2, <1>5, <1>6 DEF GatesInv

\* Nothing is sent, spent or written down, and no poll begins.
LEMMA QuietStep ==
  ASSUME GatesInv, UNCHANGED <<gateClock, restarts, spent, saved, sent>>,
         phase' = phase \/ (phase = "idle" /\ phase' = "polling" /\ Recent(spent) < Budget),
         commands' \in Nat, stopped' \in BOOLEAN, flagged' \in BOOLEAN
  PROVE  GatesTypeOK' /\ Lags'
<1>1. GatesTypeOK'
  BY DEF GatesInv, GatesTypeOK
<1>2. Window' = Window /\ Times' = Times
  BY DEF Window, Times
<1>3. SumOver(spent, Window) \in Nat
  BY WindowsFinite, WindowSums DEF GatesInv, GatesTypeOK
<1>4. phase' = "polling" => SumOver(spent, Window) <= Budget - 1
  BY <1>3, RecentIsSum, GatesConstants DEF GatesInv, Lags
<1>5. phase' \in {"idle", "polling"} => phase \in {"idle", "polling"}
  OBVIOUS
<1>6. Lags'
  BY <1>2, <1>4, <1>5 DEF GatesInv, Lags
<1>7. QED
  BY <1>1, <1>6

LEMMA TickBlockedInv == GatesInv /\ TickBlocked => GatesInv'
<1> SUFFICES ASSUME GatesInv, TickBlocked PROVE GatesInv'
  OBVIOUS
<1> USE DEF TickBlocked, bounds, history
<1>1. GatesTypeOK' /\ Lags'
  BY QuietStep DEF GatesInv, GatesTypeOK
<1>2. FlagStops'
  BY DEF GatesInv, FlagStops
<1>3. QED
  BY <1>1, <1>2 DEF GatesInv

LEMMA OpenMeans == Closed = "none" => ~stopped /\ ~(Recent(spent) >= Budget)
BY DEF Closed

LEMMA TickOpenInv == GatesInv /\ TickOpen => GatesInv'
<1> SUFFICES ASSUME GatesInv, TickOpen PROVE GatesInv'
  OBVIOUS
<1> USE DEF TickOpen, bounds, history
<1>1. Recent(spent) \in Nat
  BY WindowsFinite, WindowSums, RecentIsSum DEF GatesInv, GatesTypeOK
<1>2. Recent(spent) < Budget
  BY <1>1, OpenMeans, GatesConstants
<1>3. GatesTypeOK' /\ Lags'
  BY <1>2, QuietStep DEF GatesInv, GatesTypeOK
<1>4. FlagStops'
  BY DEF GatesInv, FlagStops
<1>5. QED
  BY <1>3, <1>4 DEF GatesInv

LEMMA OrdersInv ==
  GatesInv /\ (ResumeMonitor \/ Pause \/ \E b \in {account.paused, FALSE} : TryAgain(b)) => GatesInv'
<1> SUFFICES ASSUME GatesInv, ResumeMonitor \/ Pause \/ \E b \in {account.paused, FALSE} : TryAgain(b)
             PROVE GatesInv'
  OBVIOUS
<1> USE DEF Apart, Instruct, memory
<1>1. commands' \in Nat /\ stopped' \in BOOLEAN /\ flagged' \in BOOLEAN
  <2>1. commands' \in Nat
    BY DEF GatesInv, GatesTypeOK, ResumeMonitor, Pause, TryAgain
  <2>2. \/ stopped' = FALSE /\ flagged' = FALSE
        \/ stopped' = stopped /\ flagged' = flagged
    BY DEF ResumeMonitor, Pause, TryAgain
  <2>3. QED
    BY <2>1, <2>2 DEF GatesInv, GatesTypeOK
<1>2. UNCHANGED <<gateClock, restarts, spent, saved, sent, phase>>
  BY DEF ResumeMonitor, Pause, TryAgain
<1>3. GatesTypeOK' /\ Lags'
  BY <1>1, <1>2, QuietStep
<1>4. FlagStops'
  BY DEF GatesInv, FlagStops, ResumeMonitor, Pause, TryAgain
<1>5. QED
  BY <1>3, <1>4 DEF GatesInv

LEMMA ToldInv == GatesInv /\ Told => GatesInv'
<1> SUFFICES ASSUME GatesInv, Told PROVE GatesInv'
  OBVIOUS
<1> USE DEF Told, bounds, history, memory
<1>1. GatesTypeOK'
  BY DEF GatesInv, GatesTypeOK
<1>2. Window' = Window /\ Times' = Times
  BY DEF Window, Times
<1>3. SumOver(spent, Times) \in Nat /\ \A t \in Times : spent[t] <= spent[t]
  BY WindowsFinite, WindowSums DEF GatesInv, GatesTypeOK
<1>4. Lags'
  BY <1>2, <1>3, GatesConstants DEF GatesInv, Lags
<1>5. FlagStops'
  BY DEF GatesInv, GatesTypeOK, FlagStops
<1>6. QED
  BY <1>1, <1>4, <1>5 DEF GatesInv

LEMMA PassInv == GatesInv /\ Pass => GatesInv'
<1> SUFFICES ASSUME GatesInv, Pass PROVE GatesInv'
  OBVIOUS
<1> USE DEF Pass, history, memory
<1>1. gateClock' \in Times
  BY GatesConstants DEF GatesInv, GatesTypeOK, Times
<1>2. GatesTypeOK'
  BY <1>1 DEF GatesInv, GatesTypeOK, Times
<1>3. Window' \in SUBSET Window
  BY GatesConstants DEF GatesInv, GatesTypeOK, Window, Times
<1>4. \A t \in Times : spent[t] <= spent[t]
  BY DEF GatesInv, GatesTypeOK
<1>5. SumOver(spent, Window') <= SumOver(spent, Window)
  BY <1>3, <1>4, WindowsFinite, WindowGrows DEF GatesInv, GatesTypeOK
<1>6. SumOver(spent, Window') \in Nat /\ SumOver(spent, Window) \in Nat
  <2>1. Window' \in SUBSET Times
    BY <1>3, WindowsFinite
  <2>2. QED
    BY <2>1, WindowsFinite, WindowSums DEF GatesInv, GatesTypeOK
<1>7. Lags'
  BY <1>5, <1>6, GatesConstants DEF GatesInv, Lags, Times
<1>8. FlagStops'
  BY DEF GatesInv, FlagStops
<1>9. QED
  BY <1>2, <1>7, <1>8 DEF GatesInv

LEMMA RestartInv == GatesInv /\ Restart => GatesInv'
<1> SUFFICES ASSUME GatesInv, Restart PROVE GatesInv'
  OBVIOUS
<1> USE DEF Restart, Restored
<1>1. GatesTypeOK'
  BY DEF GatesInv, GatesTypeOK
<1>2. Window' = Window /\ Times' = Times
  BY DEF Window, Times
<1>3. /\ saved \in [Times -> Nat] /\ spent \in [Times -> Nat] /\ sent \in [Times -> Nat]
      /\ restarts \in Nat
  BY DEF GatesInv, GatesTypeOK
<1>4. \A t \in Times : saved[t] <= spent[t] /\ saved[t] <= sent[t] /\ saved[t] <= saved[t]
  BY <1>3 DEF GatesInv, Lags
<1>5. SumOver(saved, Window) <= SumOver(spent, Window)
  <2>1. Window \in SUBSET Window
    OBVIOUS
  <2>2. QED
    BY <1>3, <1>4, <2>1, WindowsFinite, WindowGrows
<1>6. /\ SumOver(saved, Window) \in Nat /\ SumOver(spent, Window) \in Nat
      /\ SumOver(saved, Times) \in Nat /\ SumOver(spent, Times) \in Nat
      /\ SumOver(sent, Times) \in Nat
  BY <1>3, WindowsFinite, WindowSums
<1>7. SumOver(sent, Times) - SumOver(saved, Times) <= MostPerPoll * (restarts + 1)
  BY <1>3, <1>6, GatesConstants DEF GatesInv, Lags
<1>8. SumOver(saved, Window) <= Budget - 1 + MostPerPoll
  BY <1>5, <1>6, GatesConstants DEF GatesInv, Lags
<1>9. Lags'
  BY <1>2, <1>4, <1>6, <1>7, <1>8, GatesConstants DEF GatesInv, Lags
<1>10. FlagStops'
  BY DEF GatesInv, FlagStops, GatesTypeOK
<1>11. QED
  BY <1>1, <1>9, <1>10 DEF GatesInv

LEMMA FetchInv == ASSUME GatesInv, NEW f \in Fetches, FetchAnswers(f) PROVE GatesInv'
<1> DEFINE used == [spent EXCEPT ![gateClock] = @ + f.cost]
           more == [sent EXCEPT ![gateClock] = @ + f.cost]
<1>1. f.cost \in Nat /\ f.cost <= 3
  BY PollCosts
<1>2. /\ saved \in [Times -> Nat] /\ spent \in [Times -> Nat] /\ sent \in [Times -> Nat]
      /\ restarts \in Nat /\ gateClock \in Times
  BY DEF GatesInv, GatesTypeOK
<1>3. /\ used \in [Times -> Nat] /\ more \in [Times -> Nat]
      /\ More(used, spent, gateClock, f.cost) /\ More(more, sent, gateClock, f.cost)
  BY <1>1, <1>2 DEF More
<1>4. /\ phase = "polling" /\ spent' = used /\ sent' = more /\ phase' = PhaseAfter(f, Recent(throttles) + 1)
      /\ saved' = IF phase' = "idle" THEN used ELSE saved
      /\ UNCHANGED <<gateClock, restarts, commands>>
  BY DEF FetchAnswers, bounds
<1>5. phase' \in {"idle", "alerting", "telling"}
  BY <1>4 DEF PhaseAfter
<1>6. stopped' \in BOOLEAN /\ flagged' \in BOOLEAN
  BY DEF FetchAnswers
<1>7. GatesTypeOK'
  BY <1>3, <1>4, <1>5, <1>6 DEF GatesInv, GatesTypeOK, Times
<1>8. Window' = Window /\ Times' = Times /\ gateClock \in Window
  BY <1>2, <1>4, GatesConstants DEF Window, Times
<1>9. /\ SumOver(used, Times) = SumOver(spent, Times) + f.cost
      /\ SumOver(more, Times) = SumOver(sent, Times) + f.cost
      /\ SumOver(used, Window) = SumOver(spent, Window) + f.cost
  <2>1. Times \in SUBSET Times /\ Window \in SUBSET Times
    BY WindowsFinite
  <2> HIDE DEF used, more
  <2>2. SumOver(used, Times) = SumOver(spent, Times) + f.cost
    BY <1>1, <1>2, <1>3, <2>1, WindowMore
  <2>3. SumOver(more, Times) = SumOver(sent, Times) + f.cost
    BY <1>1, <1>2, <1>3, <2>1, WindowMore
  <2>4. SumOver(used, Window) = SumOver(spent, Window) + f.cost
    BY <1>1, <1>2, <1>3, <1>8, <2>1, WindowMore
  <2>5. QED
    BY <2>2, <2>3, <2>4
<1>10. /\ SumOver(spent, Window) \in Nat /\ SumOver(spent, Times) \in Nat
       /\ SumOver(sent, Times) \in Nat
  BY <1>2, WindowsFinite, WindowSums
<1>11. saved = spent
  BY <1>4 DEF GatesInv, Lags
<1>12. \A t \in Times : saved'[t] <= used[t] /\ used[t] <= more[t]
  BY <1>1, <1>2, <1>4, <1>11 DEF GatesInv, Lags
<1> HIDE DEF used, more
<1>13. /\ SumOver(spent', Times) - SumOver(saved', Times) <= MostPerPoll
       /\ SumOver(sent', Times) - SumOver(spent', Times) <= MostPerPoll * restarts'
       /\ SumOver(spent', Window) <= Budget - 1 + MostPerPoll
  BY <1>1, <1>2, <1>4, <1>9, <1>10, <1>11, GatesConstants DEF GatesInv, Lags
<1>14. Lags'
  BY <1>4, <1>5, <1>8, <1>12, <1>13 DEF Lags
<1>15. FlagStops'
  <2>1. hits = throttles
    BY DEF GatesInv, FlagStops
  <2>2. hits' = throttles'
    BY <2>1 DEF FetchAnswers
  <2>3. Recent(hits) = Recent(throttles)
    BY <2>1
  <2>4. flagged => stopped
    BY <1>4 DEF GatesInv, FlagStops
  <2>5. flagged' => stopped' \/ phase' = "alerting"
    BY <1>4, <2>3, <2>4 DEF FetchAnswers, PhaseAfter, Trips
  <2>6. QED
    BY <2>2, <2>5 DEF FlagStops
<1>16. QED
  BY <1>7, <1>14, <1>15 DEF GatesInv

LEMMA GatesInvNext == GatesInv /\ [GatesNext]_gatesVars => GatesInv'
<1> SUFFICES ASSUME GatesInv, [GatesNext]_gatesVars PROVE GatesInv'
  OBVIOUS
<1>1. CASE UNCHANGED gatesVars
  BY <1>1 DEF GatesInv, GatesTypeOK, Lags, FlagStops, Window, gatesVars
<1>2. CASE GatesNext
  BY <1>2, TickBlockedInv, TickOpenInv, ToldInv, FetchInv, OrdersInv, PassInv, RestartInv
  DEF GatesNext
<1>3. QED
  BY <1>1, <1>2

THEOREM GatesInvariant == GatesSpec => []GatesInv
<1>1. QED
  BY GatesInvInit, GatesInvNext, PTL DEF GatesSpec

\* In no window is more sent than the budget, a poll, and one for each restart.
LEMMA LagsBound == GatesInv => BudgetRespected
<1> SUFFICES ASSUME GatesInv PROVE BudgetRespected
  OBVIOUS
<1>1. /\ spent \in [Times -> Nat] /\ sent \in [Times -> Nat] /\ restarts \in Nat
      /\ \A t \in Times : spent[t] <= sent[t]
  BY DEF GatesInv, GatesTypeOK, Lags
<1>2. SumOver(sent, Window) - SumOver(spent, Window) <= SumOver(sent, Times) - SumOver(spent, Times)
  <2>1. Window \in SUBSET Times /\ Times \in SUBSET Times
    BY WindowsFinite
  <2>2. QED
    BY <1>1, <2>1, WindowGrows
<1>3. /\ SumOver(spent, Window) \in Nat /\ SumOver(sent, Window) \in Nat
      /\ SumOver(spent, Times) \in Nat /\ SumOver(sent, Times) \in Nat
  BY <1>1, WindowsFinite, WindowSums
<1>4. SumOver(sent, Window) <= Budget - 1 + MostPerPoll * (1 + restarts)
  BY <1>1, <1>2, <1>3, GatesConstants DEF GatesInv, Lags
<1>5. QED
  BY <1>4, RecentIsSum DEF BudgetRespected

\* While a flag stands no poll begins.
LEMMA FlagHolds == GatesInv /\ [GatesNext]_gatesVars => FlagStopsPolling
<1> SUFFICES ASSUME GatesInv, [GatesNext]_gatesVars, phase = "idle", phase' = "polling"
             PROVE  ~flagged
  BY DEF FlagStopsPolling
<1>1. TickOpen
  <2>1. phase' # phase
    OBVIOUS
  <2>2. ~(UNCHANGED gatesVars) /\ ~TickBlocked /\ ~Told /\ ~Pause /\ ~ResumeMonitor /\ ~Pass /\ ~Restart
    BY <2>1 DEF gatesVars, TickBlocked, Told, Pause, ResumeMonitor, Pass, Restart, Apart
  <2>3. ~ \E f \in Fetches : FetchAnswers(f)
    BY DEF FetchAnswers
  <2>4. ~ \E b \in {account.paused, FALSE} : TryAgain(b)
    BY <2>1 DEF TryAgain, Apart
  <2>5. QED
    BY <2>2, <2>3, <2>4 DEF GatesNext
<1>2. ~stopped
  BY <1>1, OpenMeans DEF TickOpen
<1>3. QED
  BY <1>2 DEF GatesInv, FlagStops

\* In any day Instagram gets at most the budget, the rest of the poll that
\* reached it and one poll for each restart; and once it flagged the session, or
\* throttled too often, no poll begins until an operator resumed the monitor
\* (scheduler.ts tickOnce, heartbeat, tripBreaker): for any budget, day,
\* thresholds and cooldowns.
THEOREM PollingIsBounded == GatesSpec => PollingBounded
<1>1. GatesInv => BudgetRespected
  BY LagsBound
<1>2. GatesInv /\ GatesInv' /\ [GatesNext]_gatesVars => FlagStopsPolling
  BY FlagHolds
<1>3. GatesInv' => BudgetRespected'
  BY <1>1, PTL
<1>4. GatesInv /\ GatesInv' /\ [GatesNext]_gatesVars
      => [BudgetRespected' /\ FlagStopsPolling]_gatesVars
  BY <1>2, <1>3
<1>5. QED
  BY <1>4, GatesInvariant, PTL DEF GatesSpec, PollingBounded

-----------------------------------------------------------------------------
(* One poll (InstagramFetch).                                              *)

(* One fetcher.                                                            *)

Hints == [pk : BOOLEAN, byName : BOOLEAN]
Outs == {"none", "running", "session", "ok", "rate", "html", "account", "hard", "unexpected"}
Results == [out : Outs, calls : Nat, wire : Nat, before : Hints, after : Hints]
Browsers == [alive : SUBSET Nat, browser : Nat, context : Nat, page : Nat, idle : BOOLEAN]

ApiStages == {"warming", "named", "feed", "lookup", "fallback"}
BrowserStages == {"context", "launching", "setup", "page", "loading", "timeline"}

FetchTypes ==
  /\ source \in Sources /\ hints \in Hints /\ result \in Results
  /\ calls \in Nat /\ wire \in Nat /\ found \in Nat /\ ordered \in BOOLEAN
  /\ place \in {"idle", "profile"} \cup ApiStages \cup BrowserStages

\* Where a poll may be and what it was charged up to there.
Charged ==
  /\ place \in ApiStages => source = "api" /\ wire = calls
  /\ place = "profile" => source = "public"
  /\ place \in BrowserStages => source = "browser"
  /\ place \in {"warming", "profile"} \cup (BrowserStages \ {"timeline"}) => calls = 0
  /\ place \in {"named", "lookup"} => calls = 1
  /\ place \in {"fallback", "timeline"} => calls = 2
  /\ place = "feed" => calls \in {1, 2}

\* The hints of a poll are those it began with, but for an id it has just found.
Hinted ==
  /\ found = IF hints.pk THEN 1 ELSE 0
  /\ place \in {"lookup", "fallback"} => ~hints.pk
  /\ place # "idle" /\ ~ordered =>
       /\ place # "feed" => hints = result.before
       /\ place = "feed" =>
            /\ hints.pk
            /\ IF calls = 1 THEN hints = result.before
                               ELSE ~Known(result.before) /\ ~hints.byName
       /\ place = "named" => hints.byName
       /\ place \in {"lookup", "fallback"} => ~Known(hints)

\* Without a context that runs, the browsers are all strays.
BrowserInv ==
  /\ chromium \in Browsers /\ IsFiniteSet(chromium.alive) /\ 0 \notin chromium.alive
  /\ strays \in Nat
  /\ source # "browser" => chromium.browser = 0
  /\ chromium.context = 0 \/ chromium.browser \notin chromium.alive \/ place = "launching" =>
       place = "setup" \/ Cardinality(chromium.alive) <= strays
  /\ BrowsersAccounted

PollInv == FetchTypes /\ Charged /\ Hinted /\ AsReckoned

-----------------------------------------------------------------------------
(* The poll.                                                               *)

LEMMA AnswersAreWords == FeedAnswers \subseteq Outs \ {"none", "running"}
<1> DEFINE Answers == Outs \ {"none", "running"}
<1>1. ASSUME NEW r \in Responses
      PROVE  Class(r) \in Answers
  <2>1. Parsed(r) \in Answers
    BY DEF Parsed, Outs
  <2>2. AuthBlock(r) \in Answers \cup {"none"}
    <3>1. CASE r.status \in {401, 403}
      BY <3>1 DEF AuthBlock, Outs
    <3>2. CASE r.status \notin {401, 403}
      <4>1. CASE r.status # 400
        BY <3>2, <4>1 DEF AuthBlock
      <4>2. CASE r.status = 400
        BY <3>2, <4>2 DEF AuthBlock, Outs
      <4>3. QED
        BY <4>1, <4>2
    <3>3. QED
      BY <3>1, <3>2
  <2>3. CASE Throttled(r)
    BY <2>3 DEF Class, Outs
  <2>4. CASE ~Throttled(r) /\ r.mark = "html"
    BY <2>4 DEF Class, Outs
  <2>5. CASE ~Throttled(r) /\ r.mark # "html" /\ r.status = 200
    BY <2>1, <2>5 DEF Class
  <2>6. CASE ~Throttled(r) /\ r.mark # "html" /\ r.status # 200
    BY <2>2, <2>6 DEF Class, Outs
  <2>7. QED
    BY <2>3, <2>4, <2>5, <2>6
<1>2. QED
  BY <1>1 DEF FeedAnswers, Outs

LEMMA PollStarts == FetchInit => PollInv
<1> SUFFICES ASSUME FetchInit PROVE PollInv
  OBVIOUS
<1>1. NoHints \in Hints /\ NoHints.pk = FALSE
  BY DEF NoHints, Hints
<1>2. NoResult \in Results /\ NoResult.out = "none"
  BY <1>1 DEF NoResult, Results, Outs
<1>3. FetchTypes
  BY <1>1, <1>2 DEF FetchInit, FetchTypes
<1>4. Charged /\ Hinted /\ AsReckoned
  BY <1>1, <1>2 DEF FetchInit, Charged, ApiStages, BrowserStages, Hinted, AsReckoned, Done
<1>5. QED
  BY <1>3, <1>4 DEF PollInv

\* What an end leaves in the result.
LEMMA EndLeaves ==
  ASSUME FetchTypes, NEW out \in Outs, Ends(out), calls' \in Nat, wire' \in Nat,
         hints' \in Hints
  PROVE  /\ place' = "idle" /\ ordered' = ordered /\ result' \in Results
         /\ result'.out = out /\ result'.calls = calls' /\ result'.wire = wire'
         /\ result'.after = hints' /\ result'.before = result.before
<1> DEFINE g == [result EXCEPT !.out = out, !.calls = calls', !.wire = wire',
                               !.after = hints']
<1>1. result \in Results
  BY DEF FetchTypes
<1>2. /\ g \in Results
      /\ g.out = out /\ g.calls = calls' /\ g.wire = wire'
      /\ g.after = hints' /\ g.before = result.before
  BY <1>1 DEF Results
<1>3. place' = "idle" /\ result' = g /\ ordered' = ordered
  BY DEF Ends
<1> HIDE DEF g
<1>4. QED
  BY <1>2, <1>3

LEMMA BeginKeeps == ASSUME PollInv, BeginRead PROVE PollInv'
<1>1. /\ place = "idle" /\ calls' = 0 /\ wire' = 0 /\ ordered' = FALSE
      /\ UNCHANGED <<hints, found, source>>
      /\ result' = [NoResult EXCEPT !.out = "running", !.before = hints]
      /\ source = "api" => place' = "warming"
      /\ source = "public" => place' = "profile"
      /\ source = "browser" => place' = "context"
  BY DEF BeginRead, Rest
<1>2. source \in {"api", "public", "browser"} /\ hints \in Hints /\ found \in Nat
      /\ found = (IF hints.pk THEN 1 ELSE 0)
  BY DEF PollInv, FetchTypes, Sources, Hinted
<1>3. result' \in Results /\ result'.before = hints
  BY <1>1, <1>2 DEF NoResult, NoHints, Results, Outs, Hints
<1>4. place' \in {"warming", "profile", "context"}
  BY <1>1, <1>2
<1>5. FetchTypes'
  BY <1>1, <1>2, <1>3, <1>4 DEF FetchTypes, ApiStages, BrowserStages, Sources
<1>6. Charged' /\ Hinted' /\ AsReckoned'
  BY <1>1, <1>2, <1>3, <1>4
  DEF Charged, ApiStages, BrowserStages, Hinted, AsReckoned, Done
<1>7. QED
  BY <1>5, <1>6 DEF PollInv

LEMMA WarmUpKeeps == ASSUME PollInv, WarmUp PROVE PollInv'
<1>1. /\ place = "warming" /\ calls' = calls + 1 /\ wire' = wire + 1
      /\ UNCHANGED <<hints, found, source>>
      /\ source = "api" /\ calls = 0 /\ wire = 0
      /\ ~ordered => hints = result.before
  BY DEF WarmUp, Charge, Rest, PollInv, Charged, ApiStages, Hinted
<1>2. FetchTypes /\ hints \in Hints /\ calls' = 1 /\ wire' = 1
      /\ found = (IF hints.pk THEN 1 ELSE 0)
  BY <1>1 DEF PollInv, FetchTypes, Hinted
<1>3. CASE Ends("session")
  <2>1. /\ place' = "idle" /\ ordered' = ordered /\ result' \in Results
        /\ result'.out = "session" /\ result'.calls = 1 /\ result'.wire = 1
        /\ result'.after = hints /\ result'.before = result.before
    BY <1>1, <1>2, <1>3, EndLeaves DEF Outs
  <2>2. FetchTypes'
    BY <1>1, <1>2, <2>1 DEF FetchTypes
  <2>3. Charged' /\ Hinted'
    BY <1>1, <1>2, <2>1 DEF Charged, ApiStages, BrowserStages, Hinted
  <2>4. AsReckoned'
    BY <1>1, <1>2, <2>1 DEF AsReckoned, Done
  <2>5. QED
    BY <2>2, <2>3, <2>4 DEF PollInv
<1>4. CASE /\ place' = IF hints.byName THEN "named" ELSE IF hints.pk THEN "feed" ELSE "lookup"
           /\ UNCHANGED <<result, ordered>>
  <2>1. FetchTypes'
    BY <1>1, <1>2, <1>4 DEF FetchTypes, ApiStages
  <2>2. Charged' /\ Hinted' /\ AsReckoned'
    BY <1>1, <1>2, <1>4
    DEF Charged, ApiStages, BrowserStages, Hinted, AsReckoned, Done, Known
  <2>3. QED
    BY <2>1, <2>2 DEF PollInv
<1>5. QED
  BY <1>3, <1>4 DEF WarmUp

LEMMA LookupKeeps == ASSUME PollInv, Lookup PROVE PollInv'
<1>1. PICK out \in FeedAnswers :
        /\ hints' = IF out = "ok" THEN KeepsId ELSE hints
        /\ found' = IF out = "ok" THEN found + 1 ELSE found
        /\ IF out \in {"ok", "hard"}
           THEN /\ place' = IF out = "ok" THEN "feed" ELSE "fallback"
                /\ UNCHANGED <<result, ordered>>
           ELSE Ends(out)
  BY DEF Lookup, LookupAnswers
<1>2. /\ place = "lookup" /\ calls' = calls + 1 /\ wire' = wire + 1 /\ UNCHANGED source
      /\ source = "api" /\ calls = 1 /\ wire = 1 /\ hints.pk = FALSE /\ found = 0
      /\ ~ordered => hints = result.before /\ ~Known(hints)
      /\ FetchTypes /\ hints \in Hints /\ calls' = 2 /\ wire' = 2
  BY DEF Lookup, Charge, Rest, PollInv, FetchTypes, Charged, ApiStages, Hinted, Hints
<1>3. KeepsId \in Hints /\ KeepsId.pk = TRUE /\ KeepsId.byName = FALSE
  BY <1>2 DEF KeepsId, Hints
<1>4. CASE out = "ok"
  <2>1. FetchTypes'
    BY <1>1, <1>2, <1>3, <1>4 DEF FetchTypes, ApiStages
  <2>2. Charged' /\ Hinted' /\ AsReckoned'
    BY <1>1, <1>2, <1>3, <1>4
    DEF Charged, ApiStages, BrowserStages, Hinted, AsReckoned, Done
  <2>3. QED
    BY <2>1, <2>2 DEF PollInv
<1>5. CASE out = "hard"
  <2>1. FetchTypes'
    BY <1>1, <1>2, <1>5 DEF FetchTypes, ApiStages
  <2>2. Charged' /\ Hinted' /\ AsReckoned'
    BY <1>1, <1>2, <1>5
    DEF Charged, ApiStages, BrowserStages, Hinted, AsReckoned, Done, Known
  <2>3. QED
    BY <2>1, <2>2 DEF PollInv
<1>6. CASE out \notin {"ok", "hard"}
  <2>1. /\ place' = "idle" /\ ordered' = ordered /\ result' \in Results
        /\ result'.out = out /\ result'.calls = 2 /\ result'.wire = 2
        /\ result'.after = hints /\ result'.before = result.before
    BY <1>1, <1>2, <1>6, EndLeaves, AnswersAreWords
  <2>2. UNCHANGED <<hints, found>>
    BY <1>1, <1>6
  <2>3. FetchTypes'
    BY <1>1, <1>2, <2>1, <2>2 DEF FetchTypes
  <2>4. Charged' /\ Hinted'
    BY <1>2, <2>1, <2>2 DEF Charged, ApiStages, BrowserStages, Hinted
  <2>5. AsReckoned'
    BY <1>2, <1>6, <2>1, <2>2 DEF AsReckoned, Done
  <2>6. QED
    BY <2>3, <2>4, <2>5 DEF PollInv
<1>7. QED
  BY <1>4, <1>5, <1>6

LEMMA FeedKeeps == ASSUME PollInv, Feed PROVE PollInv'
<1>1. PICK out \in FeedAnswers : Ends(out)
  BY DEF Feed
<1>2. /\ place \in {"feed", "named"} /\ calls' = calls + 1 /\ wire' = wire + 1
      /\ UNCHANGED <<hints, found, source>>
      /\ source = "api" /\ calls \in {1, 2} /\ wire = calls
      /\ FetchTypes /\ hints \in Hints /\ calls' \in Nat /\ wire' \in Nat
      /\ found = (IF hints.pk THEN 1 ELSE 0)
  BY DEF Feed, Charge, Rest, PollInv, FetchTypes, Charged, ApiStages, Hinted
<1>3. /\ place' = "idle" /\ ordered' = ordered /\ result' \in Results
      /\ result'.out = out /\ result'.calls = calls' /\ result'.wire = wire'
      /\ result'.after = hints /\ result'.before = result.before
  BY <1>1, <1>2, EndLeaves, AnswersAreWords
<1>4. ASSUME ~ordered
      PROVE  /\ Known(hints)
             /\ IF calls = 1 THEN hints = result.before
                ELSE calls = 2 /\ ~Known(result.before) /\ ~hints.byName
  BY <1>2, <1>4 DEF PollInv, Hinted, Charged, Known
<1>5. FetchTypes'
  BY <1>2, <1>3 DEF FetchTypes
<1>6. Charged' /\ Hinted'
  BY <1>2, <1>3 DEF Charged, ApiStages, BrowserStages, Hinted
<1>7. AsReckoned'
  BY <1>2, <1>3, <1>4 DEF AsReckoned, Done
<1>8. QED
  BY <1>5, <1>6, <1>7 DEF PollInv

LEMMA FallbackKeeps == ASSUME PollInv, Fallback PROVE PollInv'
<1>1. PICK out \in FeedAnswers :
        /\ hints' = IF out = "ok" THEN [hints EXCEPT !.byName = TRUE] ELSE hints
        /\ Ends(IF out = "unexpected" THEN "hard" ELSE out)
  BY DEF Fallback
<1>2. /\ place = "fallback" /\ calls' = calls + 1 /\ wire' = wire + 1
      /\ UNCHANGED <<found, source>>
      /\ source = "api" /\ calls = 2 /\ wire = 2 /\ hints.pk = FALSE
      /\ FetchTypes /\ hints \in Hints /\ calls' = 3 /\ wire' = 3
      /\ ~ordered => hints = result.before /\ ~Known(hints)
      /\ found = (IF hints.pk THEN 1 ELSE 0)
  BY DEF Fallback, Charge, Rest, PollInv, FetchTypes, Charged, ApiStages, Hinted, Hints
<1> DEFINE o == IF out = "unexpected" THEN "hard" ELSE out
<1>3. o \in Outs /\ (o = "ok" <=> out = "ok")
  BY AnswersAreWords DEF Outs
<1> HIDE DEF o
<1>4. hints' \in Hints /\ hints'.pk = hints.pk
      /\ (out # "ok" => hints' = hints) /\ (out = "ok" => hints'.byName)
  BY <1>1, <1>2 DEF Hints
<1>5. /\ place' = "idle" /\ ordered' = ordered /\ result' \in Results
      /\ result'.out = o /\ result'.calls = 3 /\ result'.wire = 3
      /\ result'.after = hints' /\ result'.before = result.before
  <2>1. Ends(o)
    BY <1>1 DEF o
  <2>2. QED
    BY <1>2, <1>3, <1>4, <2>1, EndLeaves
<1>6. FetchTypes'
  BY <1>2, <1>4, <1>5 DEF FetchTypes
<1>7. Charged' /\ Hinted'
  BY <1>2, <1>4, <1>5 DEF Charged, ApiStages, BrowserStages, Hinted
<1>8. AsReckoned'
  BY <1>2, <1>3, <1>4, <1>5 DEF AsReckoned, Done, Known
<1>9. QED
  BY <1>6, <1>7, <1>8 DEF PollInv

LEMMA ProfileKeeps == ASSUME PollInv, PublicProfile PROVE PollInv'
<1>1. PICK out \in {"ok", "rate", "unexpected"} : Ends(out)
  BY DEF PublicProfile
<1>2. /\ place = "profile" /\ calls' = calls + 1 /\ wire' = wire + 1
      /\ UNCHANGED <<hints, found, source>>
      /\ source = "public" /\ calls = 0
      /\ FetchTypes /\ hints \in Hints /\ calls' = 1 /\ wire' \in Nat
      /\ ~ordered => hints = result.before
      /\ found = (IF hints.pk THEN 1 ELSE 0)
  BY DEF PublicProfile, Charge, Rest, PollInv, FetchTypes, Charged, Hinted
<1>3. /\ place' = "idle" /\ ordered' = ordered /\ result' \in Results
      /\ result'.out = out /\ result'.calls = 1
      /\ result'.after = hints /\ result'.before = result.before
  BY <1>1, <1>2, EndLeaves DEF Outs
<1>4. FetchTypes'
  BY <1>2, <1>3 DEF FetchTypes
<1>5. Charged' /\ Hinted'
  BY <1>2, <1>3 DEF Charged, ApiStages, BrowserStages, Hinted
<1>6. AsReckoned'
  BY <1>2, <1>3 DEF AsReckoned, Done
<1>7. QED
  BY <1>4, <1>5, <1>6 DEF PollInv

\* The steps of the browser go on to its next stage or end the poll, with the
\* hints as they are.
LEMMA BrowsingKeeps ==
  ASSUME PollInv,
         EnsureContext \/ Launch \/ SetUp \/ NewPage \/ Load \/ Timeline
  PROVE  PollInv'
<1>1. /\ UNCHANGED <<hints, found, source>> /\ place \in BrowserStages
      /\ calls' \in Nat /\ wire' \in Nat /\ FetchTypes /\ hints \in Hints
      /\ source = "browser" /\ calls \in {0, 2}
      /\ ~ordered => hints = result.before
      /\ found = (IF hints.pk THEN 1 ELSE 0)
  BY DEF EnsureContext, Launch, SetUp, NewPage, Load, Timeline, BrowserRest, BrowserEnds,
         PollInv, FetchTypes, Charged, Hinted, BrowserStages
<1>2. \/ /\ place' \in BrowserStages \ {"timeline"} /\ place # "timeline" /\ calls' = calls
         /\ UNCHANGED <<result, ordered>>
      \/ place' = "timeline" /\ place = "loading" /\ calls' = calls + 2 /\ UNCHANGED <<result, ordered>>
      \/ calls' = calls /\ \E out \in {"ok", "session", "unexpected"} : Ends(out)
  BY DEF EnsureContext, Launch, SetUp, NewPage, Load, Timeline, BrowserEnds, Stays,
         BrowserStages
<1>3. CASE place' \in BrowserStages /\ UNCHANGED <<result, ordered>>
           /\ (place' = "timeline" => calls' = 2) /\ (place' # "timeline" => calls' = 0)
  <2>1. FetchTypes'
    BY <1>1, <1>3 DEF FetchTypes
  <2>2. Charged' /\ Hinted' /\ AsReckoned'
    BY <1>1, <1>3 DEF Charged, ApiStages, BrowserStages, Hinted, AsReckoned, Done
  <2>3. QED
    BY <2>1, <2>2 DEF PollInv
<1>4. ASSUME NEW out \in {"ok", "session", "unexpected"}, Ends(out), calls' = calls
      PROVE  PollInv'
  <2>1. /\ place' = "idle" /\ ordered' = ordered /\ result' \in Results
        /\ result'.out = out /\ result'.calls = calls
        /\ result'.after = hints /\ result'.before = result.before
    BY <1>1, <1>4, EndLeaves DEF Outs
  <2>2. FetchTypes'
    BY <1>1, <2>1 DEF FetchTypes
  <2>3. Charged' /\ Hinted'
    BY <1>1, <2>1 DEF Charged, ApiStages, BrowserStages, Hinted
  <2>4. AsReckoned'
    BY <1>1, <2>1 DEF AsReckoned, Done
  <2>5. QED
    BY <2>2, <2>3, <2>4 DEF PollInv
<1>5. place \in BrowserStages \ {"timeline"} => calls = 0
  BY DEF PollInv, Charged
<1>6. QED
  BY <1>1, <1>2, <1>3, <1>4, <1>5 DEF BrowserStages

LEMMA PollKept == ASSUME PollInv, [FetchNext]_fetchVars PROVE PollInv'
<1>1. CASE OrderedAgain
  <2>1. /\ UNCHANGED <<source, place, calls, wire, result, found>>
        /\ hints' = [hints EXCEPT !.byName = FALSE]
        /\ ordered' = (ordered \/ place # "idle")
        /\ hints \in Hints
    BY <1>1 DEF OrderedAgain, thePoll, PollInv, FetchTypes
  <2>2. hints' \in Hints /\ hints'.pk = hints.pk /\ ordered' \in BOOLEAN
        /\ (~ordered' => ~ordered /\ place = "idle")
    BY <2>1 DEF Hints
  <2>3. FetchTypes'
    BY <2>1, <2>2 DEF PollInv, FetchTypes
  <2>4. Charged'
    BY <2>1 DEF PollInv, Charged
  <2>5. Hinted' /\ AsReckoned'
    BY <2>1, <2>2 DEF PollInv, Hinted, AsReckoned, Done
  <2>6. QED
    BY <2>3, <2>4, <2>5 DEF PollInv
<1>2. CASE RebootFetcher
  <2>1. NoResult \in Results /\ NoResult.out = "none"
    BY DEF NoResult, Results, Outs, NoHints, Hints
  <2>2. QED
    BY <1>2, <2>1 DEF RebootFetcher, PollInv, FetchTypes, Charged, Hinted, AsReckoned, Done,
                      ApiStages, BrowserStages
<1>3. CASE IdleShutdown \/ BrowserCrashes \/ UNCHANGED fetchVars
  <2>1. UNCHANGED <<source, hints, thePoll, found, ordered>>
    BY <1>3 DEF IdleShutdown, BrowserCrashes, fetchVars, fetchPast
  <2>2. FetchTypes' /\ Charged' /\ Hinted'
    BY <2>1 DEF PollInv, FetchTypes, Charged, Hinted, thePoll
  <2>3. AsReckoned'
    BY <2>1 DEF PollInv, AsReckoned, Done, thePoll
  <2>4. QED
    BY <2>2, <2>3 DEF PollInv
<1>4. QED
  BY <1>1, <1>2, <1>3, BeginKeeps, WarmUpKeeps, LookupKeeps, FeedKeeps, ProfileKeeps,
     FallbackKeeps, BrowsingKeeps DEF FetchNext

-----------------------------------------------------------------------------
(* The browsers.                                                           *)

LEMMA BrowserStarts == FetchInit => BrowserInv
<1> SUFFICES ASSUME FetchInit PROVE BrowserInv
  OBVIOUS
<1>1. /\ chromium = NoBrowser /\ strays = 0 /\ place = "idle"
  BY DEF FetchInit
<1>2. chromium \in Browsers /\ chromium.alive = {} /\ chromium.browser = 0
  BY <1>1 DEF NoBrowser, Browsers
<1>3. IsFiniteSet({}) /\ Cardinality({}) = 0 /\ chromium.alive \ {chromium.browser} = {}
  BY <1>2, FS_EmptySet
<1>4. QED
  BY <1>1, <1>2, <1>3 DEF BrowserInv, BrowsersAccounted

\* A browser that has just been launched is none of those that ran: there are more
\* names than these and the one of the context.
LEMMA NewBrowser ==
  ASSUME NEW A, A \subseteq Nat, IsFiniteSet(A), NEW c \in Nat
  PROVE  LET b == CHOOSE n \in 1..(Cardinality(A) + 2) : n \notin A \cup {c}
         IN  b \in 1..(Cardinality(A) + 2) /\ b \notin A
<1> DEFINE N == 1..(Cardinality(A) + 2)
           T == A \cup {c}
<1>1. Cardinality(A) \in Nat /\ Cardinality(A) + 2 \in Int /\ 1 \in Int
  BY FS_CardinalityType
<1>2. IsFiniteSet(N) /\ Cardinality(N) = Cardinality(A) + 2
  BY <1>1, FS_Interval
<1>3. IsFiniteSet(T) /\ Cardinality(T) <= Cardinality(A) + 1 /\ Cardinality(T) \in Nat
  <2>1. CASE c \in A
    BY <1>1, <2>1
  <2>2. CASE c \notin A
    <3>1. IsFiniteSet(T) /\ Cardinality(T) = Cardinality(A) + 1
      BY <2>2, FS_AddElement
    <3>2. QED
      BY <1>1, <3>1
  <2>3. QED
    BY <2>1, <2>2
<1>4. \E n \in N : n \notin T
  <2>1. SUFFICES ASSUME N \subseteq T PROVE FALSE
    OBVIOUS
  <2>2. Cardinality(N) <= Cardinality(T)
    BY <1>3, <2>1, FS_Subset
  <2>3. QED
    BY <1>1, <1>2, <1>3, <2>2
<1>5. QED
  BY <1>4

\* Steps of a poll that leave the browsers themselves alone.
LEMMA QuietKeepsBrowsers ==
  ASSUME BrowserInv,
         UNCHANGED <<source, strays>>,
         chromium' \in Browsers, chromium'.alive = chromium.alive,
         chromium'.browser = chromium.browser, chromium'.context = chromium.context,
         place # "setup", place' # "setup",
         place' = "launching" => ~(chromium.context # 0 /\ chromium.browser \in chromium.alive),
         place' = "idle" => chromium.browser = 0 \/ chromium'.idle
  PROVE  BrowserInv'
BY DEF BrowserInv, BrowsersAccounted

LEMMA ArmedKeeps ==
  ASSUME chromium \in Browsers
  PROVE  /\ Armed(chromium) \in Browsers /\ Armed(chromium).alive = chromium.alive
         /\ Armed(chromium).browser = chromium.browser
         /\ Armed(chromium).context = chromium.context /\ Armed(chromium).idle = TRUE
BY DEF Armed, Browsers

LEMMA PrivateKeepsBrowsers ==
  ASSUME PollInv, BrowserInv,
         BeginRead \/ WarmUp \/ Lookup \/ Feed \/ PublicProfile \/ Fallback
  PROVE  BrowserInv'
<1>1. UNCHANGED <<source, chromium, strays>> /\ chromium \in Browsers
  BY DEF BeginRead, WarmUp, Lookup, Feed, PublicProfile, Fallback, Rest, BrowserInv
<1>2. CASE BeginRead
  <2>1. place = "idle" /\ place' \in {"warming", "profile", "context"}
    BY <1>2 DEF BeginRead, Sources, PollInv, FetchTypes
  <2>2. QED
    BY <1>1, <2>1, QuietKeepsBrowsers
<1>3. CASE WarmUp \/ Lookup \/ Feed \/ PublicProfile \/ Fallback
  <2>1. place \in ApiStages \cup {"profile"}
    BY <1>3 DEF WarmUp, Lookup, Feed, PublicProfile, Fallback, ApiStages
  <2>2. chromium.browser = 0
    BY <2>1 DEF PollInv, Charged, BrowserInv
  <2>3. place' \in {"idle", "named", "feed", "lookup", "fallback"}
    BY <1>3 DEF WarmUp, Lookup, Feed, PublicProfile, Fallback, Ends
  <2>4. place # "setup"
    BY <2>1 DEF ApiStages
  <2>5. QED
    BY <1>1, <2>2, <2>3, <2>4, QuietKeepsBrowsers
<1>4. QED
  BY <1>2, <1>3

LEMMA LaunchKeepsBrowsers == ASSUME PollInv, BrowserInv, Launch PROVE BrowserInv'
<1> DEFINE b == CHOOSE n \in 1..(Cardinality(chromium.alive) + 2) :
                          n \notin chromium.alive \cup {chromium.context}
           A == chromium.alive
<1>1. /\ chromium \in Browsers /\ IsFiniteSet(A) /\ 0 \notin A /\ A \subseteq Nat
      /\ chromium.context \in Nat /\ strays \in Nat /\ source = "browser"
      /\ Cardinality(A) <= strays /\ Cardinality(A) \in Nat
  <2>1. place = "launching" /\ source = "browser"
    BY DEF Launch, PollInv, Charged, BrowserStages
  <2>2. QED
    BY <2>1, FS_CardinalityType DEF BrowserInv, Browsers
<1>2. b \in 1..(Cardinality(A) + 2) /\ b \notin A
  BY <1>1, NewBrowser
<1>3. /\ chromium' = [chromium EXCEPT !.alive = A \cup {b}, !.browser = b]
      /\ place' = "setup" /\ UNCHANGED <<strays, source>>
  BY DEF Launch, BrowserRest
<1> HIDE DEF b
<1>4. b \in Nat /\ b # 0
  BY <1>1, <1>2
<1>5. /\ chromium' \in Browsers /\ chromium'.alive = A \cup {b} /\ chromium'.browser = b
      /\ chromium'.context = chromium.context
  BY <1>1, <1>3, <1>4 DEF Browsers
<1>6. IsFiniteSet(A \cup {b}) /\ (A \cup {b}) \ {b} = A /\ 0 \notin A \cup {b}
  BY <1>1, <1>2, <1>4, FS_AddElement
<1>7. QED
  BY <1>1, <1>3, <1>5, <1>6 DEF BrowserInv, BrowsersAccounted

\* A browser whose setting up fails runs on as one more stray.
LEMMA SetUpKeepsBrowsers == ASSUME PollInv, BrowserInv, SetUp PROVE BrowserInv'
<1> DEFINE A == chromium.alive
           b == chromium.browser
<1>1. /\ chromium \in Browsers /\ IsFiniteSet(A) /\ 0 \notin A /\ strays \in Nat
      /\ Cardinality(A \ {b}) <= strays /\ Cardinality(A) \in Nat
      /\ UNCHANGED source /\ source = "browser" /\ b \in Nat
  BY FS_CardinalityType
  DEF BrowserInv, BrowsersAccounted, Browsers, SetUp, BrowserRest, PollInv, Charged, BrowserStages
<1>2. CASE /\ Alive(b) /\ chromium' = [chromium EXCEPT !.context = b]
           /\ place' = "page" /\ UNCHANGED strays
  <2>1. /\ chromium' \in Browsers /\ chromium'.alive = A /\ chromium'.browser = b
        /\ chromium'.context = b
    BY <1>1, <1>2 DEF Browsers
  <2>2. b \in A /\ b # 0
    BY <1>1, <1>2 DEF Alive
  <2>3. QED
    BY <1>1, <1>2, <2>1, <2>2 DEF BrowserInv, BrowsersAccounted
<1>3. CASE /\ strays' = strays + IF Alive(b) THEN 1 ELSE 0
           /\ chromium' = Armed(chromium) /\ place' = "idle"
  <2>1. Cardinality(A) <= strays' /\ Cardinality(A \ {b}) <= strays' /\ strays' \in Nat
    <3>1. CASE b \in A
      <4>1. Cardinality(A \ {b}) = Cardinality(A) - 1
        BY <1>1, <3>1, FS_RemoveElement
      <4>2. strays' = strays + 1
        BY <1>3, <3>1 DEF Alive
      <4>3. QED
        BY <1>1, <4>1, <4>2
    <3>2. CASE b \notin A
      <4>1. A \ {b} = A /\ strays' = strays
        BY <1>1, <1>3, <3>2 DEF Alive
      <4>2. QED
        BY <1>1, <4>1
    <3>3. QED
      BY <3>1, <3>2
  <2>2. /\ chromium' \in Browsers /\ chromium'.alive = A /\ chromium'.browser = b
        /\ chromium'.idle = TRUE
    BY <1>1, <1>3, ArmedKeeps
  <2>3. QED
    BY <1>1, <1>3, <2>1, <2>2 DEF BrowserInv, BrowsersAccounted
<1>4. QED
  BY <1>2, <1>3 DEF SetUp, BrowserEnds, Ends

LEMMA UseKeepsBrowsers ==
  ASSUME PollInv, BrowserInv, EnsureContext \/ NewPage \/ Load \/ Timeline
  PROVE  BrowserInv'
<1>1. chromium \in Browsers /\ UNCHANGED <<source, strays>> /\ place # "setup" /\ place' # "setup"
  BY DEF EnsureContext, NewPage, Load, Timeline, BrowserRest, BrowserInv, BrowserEnds, Ends
<1>2. place' = "launching" => ~(chromium.context # 0 /\ chromium.browser \in chromium.alive)
  BY DEF EnsureContext, NewPage, Load, Timeline, BrowserEnds, Ends, Alive
<1>3. place' # "idle" \/ chromium' = Armed(chromium)
  BY DEF EnsureContext, NewPage, Load, Timeline, BrowserEnds
<1>4. /\ chromium' \in Browsers /\ chromium'.alive = chromium.alive
      /\ chromium'.browser = chromium.browser /\ chromium'.context = chromium.context
  <2>1. \/ chromium' = chromium
        \/ chromium' = Armed(chromium)
        \/ NewPage /\ chromium' = [chromium EXCEPT !.page = chromium.context]
    BY DEF EnsureContext, NewPage, Load, Timeline, BrowserEnds
  <2>2. CASE chromium' = [chromium EXCEPT !.page = chromium.context]
    BY <1>1, <2>2 DEF Browsers
  <2>3. QED
    BY <1>1, <2>1, <2>2, ArmedKeeps
<1>5. place' = "idle" => chromium'.idle
  BY <1>1, <1>3, ArmedKeeps
<1>6. QED
  BY <1>1, <1>2, <1>4, <1>5, QuietKeepsBrowsers

\* The browser in use closes or dies: what runs on is the strays.
LEMMA CloseKeepsBrowsers ==
  ASSUME BrowserInv, IdleShutdown \/ BrowserCrashes PROVE BrowserInv'
<1> DEFINE A == chromium.alive
           b == chromium.browser
           L == A \ {b}
<1>1. /\ chromium \in Browsers /\ IsFiniteSet(L) /\ 0 \notin L /\ strays \in Nat
      /\ Cardinality(L) <= strays /\ UNCHANGED <<source, strays, place>>
      /\ L \ {b} = L /\ L \ {0} = L
  BY FS_Subset
  DEF BrowserInv, BrowsersAccounted, IdleShutdown, BrowserCrashes, thePoll, fetchPast
<1>2. CASE IdleShutdown
  <2>1. chromium' = [chromium EXCEPT !.alive = L, !.browser = 0, !.context = 0, !.idle = FALSE]
    BY <1>2 DEF IdleShutdown, BrowserClosed
  <2>2. chromium' \in Browsers /\ chromium'.alive = L /\ chromium'.browser = 0
    BY <1>1, <2>1 DEF Browsers
  <2>3. QED
    BY <1>1, <2>2 DEF BrowserInv, BrowsersAccounted
<1>3. CASE BrowserCrashes
  <2>1. chromium' = [chromium EXCEPT !.alive = L]
    BY <1>3 DEF BrowserCrashes
  <2>2. /\ chromium' \in Browsers /\ chromium'.alive = L /\ chromium'.browser = b
        /\ chromium'.idle = chromium.idle
    BY <1>1, <2>1 DEF Browsers
  <2>3. QED
    BY <1>1, <2>2 DEF BrowserInv, BrowsersAccounted
<1>4. QED
  BY <1>2, <1>3

LEMMA BrowsersKept ==
  ASSUME PollInv, BrowserInv, [FetchNext]_fetchVars PROVE BrowserInv'
<1>1. CASE RebootFetcher
  <2>1. /\ chromium' = NoBrowser /\ strays' = 0 /\ place' = "idle" /\ UNCHANGED source
    BY <1>1 DEF RebootFetcher
  <2>2. chromium' \in Browsers /\ chromium'.alive = {} /\ chromium'.browser = 0
    BY <2>1 DEF NoBrowser, Browsers
  <2>3. IsFiniteSet({}) /\ Cardinality({}) = 0 /\ {} \ {0} = {}
    BY FS_EmptySet
  <2>4. QED
    BY <2>1, <2>2, <2>3 DEF BrowserInv, BrowsersAccounted
<1>2. CASE OrderedAgain \/ UNCHANGED fetchVars
  <2>1. UNCHANGED <<source, chromium, strays, place>>
    BY <1>2 DEF OrderedAgain, fetchVars, thePoll, fetchPast
  <2>2. QED
    BY <2>1 DEF BrowserInv, BrowsersAccounted
<1>3. QED
  BY <1>1, <1>2, PrivateKeepsBrowsers, LaunchKeepsBrowsers, SetUpKeepsBrowsers,
     UseKeepsBrowsers, CloseKeepsBrowsers DEF FetchNext

\* A poll is charged as the code means it to be and the browsers that run are
\* accounted for, in every state: the invariant the claim below rests on.
THEOREM FetchInvariant == FetchSpec => [](PollInv /\ BrowserInv)
<1>1. FetchInit => PollInv /\ BrowserInv
  BY PollStarts, BrowserStarts
<1>2. PollInv /\ BrowserInv /\ [FetchNext]_fetchVars => (PollInv /\ BrowserInv)'
  BY PollKept, BrowsersKept
<1>3. QED
  BY <1>1, <1>2, PTL DEF FetchSpec

LEMMA InvariantAccounts == ASSUME PollInv, BrowserInv PROVE ReadsAccounted
<1>1. found = IF hints.pk THEN 1 ELSE 0
  BY DEF PollInv, Hinted
<1>2. found <= 1
  BY <1>1
<1>3. AsReckoned /\ BrowsersAccounted
  BY DEF PollInv, BrowserInv
<1>4. QED
  BY <1>2, <1>3 DEF ReadsAccounted, IdFoundOnce

\* What the gates reckon with holds of every poll, of any number of polls,
\* operators and restarts: its requests and hints, the id that is looked up once,
\* and a browser that runs only for a poll or until its timer (fetchRecentPosts,
\* ensureContext, dispose).
THEOREM EveryReadIsAccounted == FetchSpec => []ReadsAccounted
BY InvariantAccounts, FetchInvariant, PTL

-----------------------------------------------------------------------------
(* Which account is polled next (InstagramCadence).                        *)

\* What an account keeps.
IsAccount(r) ==
  r \in [age : Nat \cup {NeverPolled}, failures : {r.failures}, hard : {r.hard},
         paused : {r.paused}, learned : {r.learned}]

\* The accounts polled since the last poll of u.
PolledSince(u) == {v \in Accounts : acc[v].age # NeverPolled /\ PolledBefore(u, v)}

\* An account waits a gap for each account polled since, for each command, and now
\* for the one that is to come.
Bound(polled, asked, gap) ==
  Gap * (polled + asked) + (IF gap < Gap THEN gap ELSE Gap - 1)
WaitBound(u) == Bound(Cardinality(PolledSince(u)), orders, since)

CadenceTyped ==
  /\ DOMAIN acc = Accounts /\ \A u \in Accounts : IsAccount(acc[u])
  /\ since \in 0..Gap /\ real \in 0..Gap /\ orders \in Nat
  /\ waits \in [Accounts -> Nat]
  /\ \A u \in Accounts : ~PolledBefore(u, u)

CadenceInv ==
  /\ CadenceTyped
  /\ \A u \in Accounts : waits[u] <= WaitBound(u)
  /\ ~fresh => since <= real
  /\ ~rushed

-----------------------------------------------------------------------------
(* Ages.                                                                   *)

LEMMA LesserOf ==
  ASSUME NEW a \in Int, NEW b \in Int PROVE Min({a, b}) = IF a <= b THEN a ELSE b
<1>1. \E x \in {a, b} : \A y \in {a, b} : x <= y
  OBVIOUS
<1>2. Min({a, b}) \in {a, b} /\ Min({a, b}) <= a /\ Min({a, b}) <= b
  BY <1>1 DEF Min
<1>3. QED
  BY <1>2

LEMMA GreaterOf ==
  ASSUME NEW a \in Int, NEW b \in Int PROVE Max({a, b}) = IF a >= b THEN a ELSE b
<1>1. \E x \in {a, b} : \A y \in {a, b} : x >= y
  OBVIOUS
<1>2. Max({a, b}) \in {a, b} /\ Max({a, b}) >= a /\ Max({a, b}) >= b
  BY <1>1 DEF Max
<1>3. QED
  BY <1>2

LEMMA MaxAgeIsLarge == MaxAge \in Nat
<1>1. Ceil \in Nat /\ MaxBackoff \in Nat /\ Stale \in Nat
  BY CadenceAssumption
<1>2. Max({Ceil, MaxBackoff}) \in Nat
  BY <1>1, GreaterOf
<1>3. Jitter(Ceil) \in Nat
  BY <1>1 DEF Jitter
<1>4. QED
  BY <1>1, <1>2, <1>3 DEF MaxAge

\* Time passes for the polled accounts only.
LEMMA AgedAccounts ==
  ASSUME CadenceTyped
  PROVE  /\ DOMAIN Aged = Accounts
         /\ \A u \in Accounts :
              IsAccount(Aged[u]) /\ (Aged[u].age = NeverPolled <=> acc[u].age = NeverPolled)
<1>1. ASSUME NEW n \in Nat \cup {NeverPolled}
      PROVE  /\ Older(n, MaxAge) \in Nat \cup {NeverPolled}
             /\ Older(n, MaxAge) = NeverPolled <=> n = NeverPolled
  <2>1. MaxAge \in Nat
    BY MaxAgeIsLarge
  <2>2. CASE n = NeverPolled
    BY <2>2 DEF Older
  <2>3. CASE n \in Nat
    <3>1. Min({n + 1, MaxAge}) \in Nat
      BY <2>1, <2>3, LesserOf
    <3>2. n # NeverPolled
      BY <2>3 DEF NeverPolled
    <3>3. QED
      BY <3>1, <3>2 DEF Older, NeverPolled
  <2>4. QED
    BY <2>2, <2>3
<1>2. ASSUME NEW u \in Accounts
      PROVE  IsAccount(Aged[u]) /\ (Aged[u].age = NeverPolled <=> acc[u].age = NeverPolled)
  <2>1. IsAccount(acc[u])
    BY DEF CadenceTyped
  <2>2. PICK n \in Nat \cup {NeverPolled} : n = acc[u].age
    BY <2>1 DEF IsAccount
  <2>3. PICK k \in Nat \cup {NeverPolled} : k = Older(n, MaxAge) /\ (k = NeverPolled <=> n = NeverPolled)
    BY <1>1
  <2>4. Aged[u] = [acc[u] EXCEPT !.age = k]
    BY <2>1, <2>2, <2>3 DEF Aged, IsAccount
  <2>5. QED
    BY <2>1, <2>2, <2>3, <2>4 DEF IsAccount
<1>3. QED
  BY <1>2 DEF Aged

LEMMA OlderGap ==
  ASSUME NEW n \in 0..Gap
  PROVE  /\ Older(n, Gap) \in 0..Gap
         /\ Older(n, Gap) = IF n < Gap THEN n + 1 ELSE Gap
<1>1. Gap \in Nat
  BY CadenceAssumption
<1>2. Min({n + 1, Gap}) = IF n + 1 <= Gap THEN n + 1 ELSE Gap
  BY <1>1, LesserOf
<1>3. n # NeverPolled
  BY <1>1 DEF NeverPolled
<1>4. QED
  BY <1>1, <1>2, <1>3 DEF Older

-----------------------------------------------------------------------------
(* The wait of one account.                                                *)

LEMMA PolledSinceIsFinite ==
  \A u \in Accounts :
    IsFiniteSet(PolledSince(u)) /\ Cardinality(PolledSince(u)) \in Nat
<1>1. ASSUME NEW S \in SUBSET Accounts
      PROVE  IsFiniteSet(S) /\ Cardinality(S) \in Nat
  BY CadenceAssumption, FS_Subset, FS_CardinalityType
<1>2. QED
  BY <1>1 DEF PolledSince

LEMMA GapTimes ==
  ASSUME NEW m \in Nat, NEW n \in Nat
  PROVE  /\ Gap \in Nat /\ Gap > 0 /\ Gap * m \in Nat
         /\ Gap * (m + 1) = Gap * m + Gap
         /\ m <= n => Gap * m <= Gap * n
<1>1. Gap \in Nat /\ Gap > 0
  BY CadenceAssumption
<1>2. Gap * m \in Nat /\ Gap * (m + 1) = Gap * m + Gap
  BY <1>1
<1>3. ASSUME m <= n PROVE Gap * m <= Gap * n
  <2>1. PICK k \in Nat : n = m + k
    <3>1. n - m \in Nat /\ n = m + (n - m)
      BY <1>3
    <3>2. QED
      BY <3>1
  <2>2. Gap * k \in Nat /\ Gap * (m + k) = Gap * m + Gap * k
    BY <1>1
  <2>3. QED
    BY <1>2, <2>1, <2>2
<1>4. QED
  BY <1>1, <1>2, <1>3

LEMMA BoundsGrow ==
  ASSUME NEW c \in Nat, NEW d \in Nat, NEW o \in Nat, NEW s \in 0..Gap, NEW t \in 0..Gap
  PROVE  /\ Bound(c, o, s) \in Nat
         /\ c <= d /\ s <= t => Bound(c, o, s) <= Bound(d, o, t)
         /\ d = c + 1 => Bound(c, o, s) + 1 <= Bound(d, o, 0)
         /\ c <= d /\ t = s + 1 /\ t < Gap => Bound(c, o, s) + 1 <= Bound(d, o, t)
         /\ c <= d => Bound(c, o, s) <= Bound(d, o + 1, t)
         /\ c <= d + 1 => Bound(c, o, s) <= Bound(d, o + 1, s)
<1>1. c + o \in Nat /\ d + o \in Nat /\ d + (o + 1) \in Nat /\ d + (o + 1) = (d + o) + 1
  OBVIOUS
<1>2. /\ Gap \in Nat /\ Gap > 0 /\ Gap * (c + o) \in Nat /\ Gap * (d + o) \in Nat
      /\ Gap * ((c + o) + 1) = Gap * (c + o) + Gap
      /\ Gap * ((d + o) + 1) = Gap * (d + o) + Gap
      /\ c <= d => Gap * (c + o) <= Gap * (d + o)
      /\ c <= d + 1 => Gap * (c + o) <= Gap * ((d + o) + 1)
  <2>1. c <= d => c + o <= d + o
    OBVIOUS
  <2>2. c <= d + 1 => c + o <= (d + o) + 1
    OBVIOUS
  <2>3. QED
    BY <1>1, <2>1, <2>2, GapTimes
<1> DEFINE X == Gap * (c + o)
           Y == Gap * (d + o)
           Z == Gap * (d + (o + 1))
<1>3. /\ X \in Nat /\ Y \in Nat /\ Z = Y + Gap
      /\ c <= d => X <= Y
      /\ c <= d + 1 => X <= Z
      /\ d = c + 1 => Y = X + Gap
  <2>1. d = c + 1 => d + o = (c + o) + 1
    OBVIOUS
  <2>2. QED
    BY <1>1, <1>2, <2>1
<1>4. /\ Bound(c, o, s) = X + (IF s < Gap THEN s ELSE Gap - 1)
      /\ Bound(d, o, t) = Y + (IF t < Gap THEN t ELSE Gap - 1)
      /\ Bound(d, o, 0) = Y + (IF 0 < Gap THEN 0 ELSE Gap - 1)
      /\ Bound(d, o + 1, t) = Z + (IF t < Gap THEN t ELSE Gap - 1)
      /\ Bound(d, o + 1, s) = Z + (IF s < Gap THEN s ELSE Gap - 1)
  BY DEF Bound
<1> HIDE DEF X, Y, Z
<1>5. s \in Int /\ t \in Int /\ 0 <= s /\ 0 <= t /\ s <= Gap /\ t <= Gap
  BY <1>2
<1>6. QED
  BY <1>2, <1>3, <1>4, <1>5

LEMMA BoundOfGap ==
  ASSUME NEW c \in Nat, NEW o \in Nat, NEW s \in 0..Gap, NEW t \in 0..Gap, s <= t
  PROVE  /\ Bound(c, o, s) \in Nat /\ Bound(c, o, t) \in Nat
         /\ Bound(c, o, s) <= Bound(c, o, t)
<1>1. c <= c
  OBVIOUS
<1>2. Bound(c, o, s) \in Nat
  BY BoundsGrow
<1>3. Bound(c, o, t) \in Nat
  BY BoundsGrow
<1>4. Bound(c, o, s) <= Bound(c, o, t)
  BY <1>1, BoundsGrow
<1>5. QED
  BY <1>2, <1>3, <1>4

\* Whoever was polled since a last poll, a poll or a command of another adds or
\* takes away one.
LEMMA OthersPoll ==
  ASSUME CadenceTyped, NEW u \in Accounts, NEW v \in Accounts, u # v,
         NEW S \in SUBSET Accounts
  PROVE  /\ S = PolledSince(u) \cup {v} =>
              /\ v \notin PolledSince(u) => Cardinality(S) = Cardinality(PolledSince(u)) + 1
              /\ Cardinality(PolledSince(u)) <= Cardinality(S)
         /\ S = PolledSince(u) \ {v} =>
              Cardinality(PolledSince(u)) <= Cardinality(S) + 1
<1>1. IsFiniteSet(PolledSince(u)) /\ Cardinality(PolledSince(u)) \in Nat
  BY PolledSinceIsFinite
<1>2. /\ Cardinality(PolledSince(u) \cup {v}) =
           IF v \in PolledSince(u) THEN Cardinality(PolledSince(u))
           ELSE Cardinality(PolledSince(u)) + 1
      /\ Cardinality(PolledSince(u) \ {v}) =
           IF v \in PolledSince(u) THEN Cardinality(PolledSince(u)) - 1
           ELSE Cardinality(PolledSince(u))
  BY <1>1, FS_AddElement, FS_RemoveElement
<1>3. PICK n \in Nat : n = Cardinality(PolledSince(u))
  BY <1>1
<1>4. ASSUME S = PolledSince(u) \cup {v}
      PROVE  /\ v \notin PolledSince(u) => Cardinality(S) = n + 1
             /\ n <= Cardinality(S)
  <2>1. Cardinality(S) = IF v \in PolledSince(u) THEN n ELSE n + 1
    BY <1>2, <1>3, <1>4
  <2>2. QED
    BY <2>1
<1>5. ASSUME S = PolledSince(u) \ {v}
      PROVE  n <= Cardinality(S) + 1
  <2>1. Cardinality(S) = IF v \in PolledSince(u) THEN n - 1 ELSE n
    BY <1>2, <1>3, <1>5
  <2>2. QED
    BY <2>1
<1>6. QED
  BY <1>3, <1>4, <1>5

-----------------------------------------------------------------------------
(* The steps.                                                              *)

LEMMA CadenceStarts == CadenceInit => CadenceInv
<1> SUFFICES ASSUME CadenceInit PROVE CadenceInv
  OBVIOUS
<1>1. Gap \in Nat
  BY CadenceAssumption
<1>2. CadenceTyped
  <2>1. IsAccount(AddedAccount)
    BY DEF AddedAccount, IsAccount
  <2>2. QED
    BY <1>1, <2>1 DEF CadenceInit, CadenceTyped, PolledBefore
<1>3. ASSUME NEW u \in Accounts PROVE WaitBound(u) \in Nat
  <2>1. PICK c \in Nat : c = Cardinality(PolledSince(u))
    BY PolledSinceIsFinite
  <2>2. Bound(c, orders, since) \in Nat
    BY <1>2, BoundsGrow DEF CadenceTyped
  <2>3. QED
    BY <2>1, <2>2 DEF WaitBound
<1>4. QED
  BY <1>1, <1>2, <1>3 DEF CadenceInit, CadenceInv

\* Time that passes leaves the order of the polls alone.
LEMMA AgedKeepsOrder ==
  ASSUME CadenceTyped, acc' = Aged, UNCHANGED later
  PROVE  \A u \in Accounts : PolledSince(u)' = PolledSince(u)
BY AgedAccounts DEF PolledSince, PolledBefore

LEMMA ClosedKeeps == ASSUME CadenceInv, ClosedTick PROVE CadenceInv'
<1>1. /\ acc' = Aged /\ since' = Older(since, Gap) /\ real' = Older(real, Gap)
      /\ UNCHANGED <<later, waits, rushed, fresh, orders>> /\ CadenceTyped
  BY DEF ClosedTick, CadenceInv
<1>2. /\ since' \in 0..Gap /\ real' \in 0..Gap /\ since <= since'
      /\ since <= real => since' <= real'
  BY <1>1, OlderGap, CadenceAssumption DEF CadenceTyped
<1>3. CadenceTyped'
  BY <1>1, <1>2, AgedAccounts DEF CadenceTyped, PolledBefore
<1>4. ASSUME NEW u \in Accounts PROVE waits'[u] <= WaitBound(u)'
  <2>1. PICK c \in Nat : c = Cardinality(PolledSince(u)) /\ c = Cardinality(PolledSince(u))'
    BY <1>1, PolledSinceIsFinite, AgedKeepsOrder
  <2>2. /\ Bound(c, orders, since) <= Bound(c, orders, since')
        /\ Bound(c, orders, since) \in Nat /\ Bound(c, orders, since') \in Nat
    <3>1. PICK o \in Nat, s \in 0..Gap, t \in 0..Gap : o = orders /\ s = since /\ t = since'
      BY <1>1, <1>2 DEF CadenceTyped
    <3>2. Bound(c, o, s) <= Bound(c, o, t) /\ Bound(c, o, s) \in Nat /\ Bound(c, o, t) \in Nat
      <4>1. s <= t
        BY <1>2, <3>1
      <4>2. QED
        BY <4>1, BoundOfGap
    <3>3. QED
      BY <3>1, <3>2
  <2>3. waits[u] <= Bound(c, orders, since) /\ waits[u] \in Nat
    BY <2>1 DEF CadenceInv, CadenceTyped, WaitBound
  <2>4. WaitBound(u)' = Bound(c, orders, since')
    BY <1>1, <2>1 DEF WaitBound
  <2>5. QED
    BY <1>1, <2>2, <2>3, <2>4
<1>5. QED
  BY <1>1, <1>2, <1>3, <1>4 DEF CadenceInv

LEMMA BoundOfTick ==
  ASSUME NEW c \in Nat, NEW o \in Nat, NEW s \in 0..Gap, NEW t \in 0..Gap, t = s + 1, t < Gap
  PROVE  Bound(c, o, t) \in Nat /\ Bound(c, o, s) \in Nat /\ Bound(c, o, s) + 1 <= Bound(c, o, t)
<1>1. c <= c
  OBVIOUS
<1>2. Bound(c, o, s) + 1 <= Bound(c, o, t)
  BY <1>1, BoundsGrow
<1>3. s <= t
  OBVIOUS
<1>4. QED
  BY <1>2, <1>3, BoundOfGap

LEMMA BoundOfPoll ==
  ASSUME NEW c \in Nat, NEW d \in Nat, NEW o \in Nat, NEW s \in 0..Gap, d = c + 1
  PROVE  Bound(d, o, 0) \in Nat /\ Bound(c, o, s) \in Nat /\ Bound(c, o, s) + 1 <= Bound(d, o, 0)
<1>1. 0 \in 0..Gap
  BY CadenceAssumption
<1>2. Bound(c, o, s) + 1 <= Bound(d, o, 0)
  BY <1>1, BoundsGrow
<1>3. QED
  BY <1>1, <1>2, BoundsGrow

LEMMA BoundOfCommand ==
  ASSUME NEW c \in Nat, NEW d \in Nat, NEW o \in Nat, NEW s \in 0..Gap, NEW t \in 0..Gap,
         (c <= d) \/ (c <= d + 1 /\ t = s)
  PROVE  /\ Bound(c, o, s) \in Nat /\ Bound(d, o + 1, t) \in Nat
         /\ Bound(c, o, s) <= Bound(d, o + 1, t)
<1>1. Bound(c, o, s) <= Bound(d, o + 1, t)
  <2>1. CASE c <= d
    BY <2>1, BoundsGrow
  <2>2. CASE c <= d + 1 /\ t = s
    BY <2>2, BoundsGrow
  <2>3. QED
    BY <2>1, <2>2
<1>2. Bound(c, o, s) \in Nat
  BY BoundsGrow
<1>3. Bound(d, o + 1, t) \in Nat
  <2>1. o + 1 \in Nat
    OBVIOUS
  <2>2. QED
    BY <2>1, BoundsGrow
<1>4. QED
  BY <1>1, <1>2, <1>3

LEMMA NotWaiting ==
  ASSUME CadenceTyped', NEW u \in Accounts PROVE 0 <= WaitBound(u)'
<1>1. IsFiniteSet(PolledSince(u)') /\ Cardinality(PolledSince(u)') \in Nat
  <2>1. ASSUME NEW S \in SUBSET Accounts PROVE IsFiniteSet(S) /\ Cardinality(S) \in Nat
    BY CadenceAssumption, FS_Subset, FS_CardinalityType
  <2>2. PolledSince(u)' \in SUBSET Accounts
    BY DEF PolledSince
  <2>3. QED
    BY <2>1, <2>2
<1>2. PICK c \in Nat, o \in Nat, s \in 0..Gap :
        c = Cardinality(PolledSince(u)') /\ o = orders' /\ s = since'
  BY <1>1 DEF CadenceTyped
<1>3. Bound(c, o, s) \in Nat
  BY BoundsGrow
<1>4. QED
  BY <1>2, <1>3 DEF WaitBound

LEMMA IdleKeeps == ASSUME CadenceInv, IdleTick PROVE CadenceInv'
<1>1. /\ acc' = Aged /\ since' = Older(since, Gap) /\ real' = Older(real, Gap)
      /\ UNCHANGED <<later, rushed, fresh, orders>> /\ CadenceTyped
      /\ waits' = [u \in Accounts |-> Waited(Aged, u)]
  BY DEF IdleTick, CadenceInv
<1>2. /\ since' \in 0..Gap /\ real' \in 0..Gap /\ since <= since'
      /\ since <= real => since' <= real'
      /\ since' < Gap => since' = since + 1
  BY <1>1, OlderGap, CadenceAssumption DEF CadenceTyped
<1>3. CadenceTyped'
  <2>1. waits' \in [Accounts -> Nat]
    BY <1>1 DEF CadenceTyped, Waited
  <2>2. QED
    BY <1>1, <1>2, <2>1, AgedAccounts DEF CadenceTyped, PolledBefore
<1>4. ASSUME NEW u \in Accounts PROVE waits'[u] <= WaitBound(u)'
  <2>1. CASE waits'[u] = 0
    BY <1>3, <2>1, NotWaiting
  <2>2. CASE waits'[u] # 0
    <3>1. MustBeDue(Aged[u]) /\ waits'[u] = waits[u] + 1
      BY <1>1, <2>2 DEF Waited
    <3>2. {} \notin Draws(Aged)
      BY <3>1 DEF Draws
    <3>3. since' < Gap /\ since' = since + 1
      BY <1>1, <1>2, <3>2 DEF IdleTick, ShouldDrip
    <3>4. PICK c \in Nat, o \in Nat, s \in 0..Gap, t \in 0..Gap :
            /\ c = Cardinality(PolledSince(u)) /\ c = Cardinality(PolledSince(u))'
            /\ o = orders /\ s = since /\ t = since'
      BY <1>1, <1>2, PolledSinceIsFinite, AgedKeepsOrder DEF CadenceTyped
    <3>5. Bound(c, o, t) \in Nat /\ Bound(c, o, s) \in Nat /\ Bound(c, o, s) + 1 <= Bound(c, o, t)
      BY <3>3, <3>4, BoundOfTick
    <3>6. waits[u] <= Bound(c, o, s) /\ waits[u] \in Nat
      BY <3>4 DEF CadenceInv, CadenceTyped, WaitBound
    <3>7. WaitBound(u)' = Bound(c, o, t)
      BY <1>1, <3>4 DEF WaitBound
    <3>8. QED
      BY <3>1, <3>5, <3>6, <3>7
  <2>3. QED
    BY <2>1, <2>2
<1>5. QED
  BY <1>1, <1>2, <1>3, <1>4 DEF CadenceInv

LEMMA PolledIsAccount ==
  ASSUME NEW q, IsAccount(q), NEW r \in Polled(q) PROVE IsAccount(r) /\ r.age = 0
<1>1. CASE r \in [age : {0}, failures : {0}, hard : {0}, paused : {q.paused},
                   learned : Learned(q)]
  BY <1>1 DEF IsAccount
<1>2. CASE \E h \in {0, 1} :
        r = [q EXCEPT !.age = 0, !.failures = Min({@ + 1, MaxFailures}), !.hard = Min({@ + h, HardLimit})]
  <2>1. PICK h \in {0, 1} :
        r = [q EXCEPT !.age = 0, !.failures = Min({@ + 1, MaxFailures}), !.hard = Min({@ + h, HardLimit})]
    BY <1>2
  <2>2. PICK a, b : a = Min({q.failures + 1, MaxFailures}) /\ b = Min({q.hard + h, HardLimit})
    OBVIOUS
  <2>3. r = [q EXCEPT !.age = 0, !.failures = a, !.hard = b]
    BY <2>1, <2>2
  <2>4. QED
    BY <2>3 DEF IsAccount
<1>3. QED
  BY <1>1, <1>2 DEF Polled

LEMMA PollKeepsPace ==
  ASSUME CadenceInv, NEW u \in Accounts, NEW r \in Polled(Aged[u]), PollTick(u, r)
  PROVE  CadenceInv'
<1>1. /\ CadenceTyped /\ acc' = [Aged EXCEPT ![u] = r]
      /\ later' = {p \in later : u \notin {p[1], p[2]}} \cup {<<v, u>> : v \in Accounts \ {u}}
      /\ since' = 0 /\ real' = 0 /\ fresh' = FALSE /\ orders' = orders
      /\ waits' = [v \in Accounts |-> IF v = u THEN 0 ELSE Waited(Aged, v)]
      /\ rushed' = (rushed \/ (FleetIsStale(Aged) /\ Older(real, Gap) < Gap /\ ~fresh))
  BY DEF PollTick, CadenceInv
<1>2. /\ IsAccount(r) /\ r.age = 0 /\ r.age # NeverPolled
      /\ acc'[u] = r /\ DOMAIN acc' = Accounts /\ \A v \in Accounts \ {u} : acc'[v] = Aged[v]
  BY <1>1, AgedAccounts, PolledIsAccount DEF NeverPolled
<1>3. /\ \A v \in Accounts : ~PolledBefore(v, v)'
      /\ \A v \in Accounts \ {u} : PolledBefore(v, u)'
      /\ \A v, w \in Accounts \ {u} : PolledBefore(v, w)' <=> PolledBefore(v, w)
  BY <1>1 DEF PolledBefore, CadenceTyped
<1>4. CadenceTyped'
  <2>1. waits' \in [Accounts -> Nat]
    BY <1>1 DEF CadenceTyped, Waited
  <2>2. 0 \in 0..Gap
    BY CadenceAssumption
  <2>3. QED
    BY <1>1, <1>2, <1>3, <2>1, <2>2, AgedAccounts DEF CadenceTyped
<1>5. ASSUME NEW v \in Accounts PROVE waits'[v] <= WaitBound(v)'
  <2>1. CASE waits'[v] = 0
    BY <1>4, <2>1, NotWaiting
  <2>2. CASE waits'[v] # 0
    <3>1. /\ v # u /\ MustBeDue(Aged[v]) /\ Aged[v].age # NeverPolled
          /\ waits'[v] = waits[v] + 1
      BY <1>1, <2>2 DEF Waited
    <3>2. ~Before(Aged, v, u)
      BY <3>1 DEF PollTick, Draws, Oldest
    <3>3. u \notin PolledSince(v)
      BY <1>1, <3>1, <3>2, AgedAccounts DEF Before, PolledSince
    <3>4. PolledSince(v)' = PolledSince(v) \cup {u}
      BY <1>1, <1>2, <1>3, <3>1, AgedAccounts DEF PolledSince
    <3>5. PolledSince(v)' \in SUBSET Accounts
      BY DEF PolledSince
    <3>6. PICK S \in SUBSET Accounts : S = PolledSince(v) \cup {u} /\ S = PolledSince(v)'
      BY <3>4, <3>5
    <3>7. Cardinality(S) = Cardinality(PolledSince(v)) + 1
      BY <1>1, <3>1, <3>3, <3>6, OthersPoll
    <3>8. PICK c \in Nat, d \in Nat, o \in Nat, s \in 0..Gap :
            /\ c = Cardinality(PolledSince(v)) /\ d = Cardinality(S) /\ d = c + 1
            /\ o = orders /\ s = since
      BY <1>1, <3>7, PolledSinceIsFinite DEF CadenceTyped
    <3>9. Bound(d, o, 0) \in Nat /\ Bound(c, o, s) \in Nat /\ Bound(c, o, s) + 1 <= Bound(d, o, 0)
      BY <3>8, BoundOfPoll
    <3>10. waits[v] <= Bound(c, o, s) /\ waits[v] \in Nat
      BY <3>8 DEF CadenceInv, CadenceTyped, WaitBound
    <3>11. WaitBound(v)' = Bound(d, o, 0)
      BY <1>1, <3>6, <3>8 DEF WaitBound
    <3>12. QED
      BY <3>1, <3>9, <3>10, <3>11
  <2>3. QED
    BY <2>1, <2>2
<1>6. ~rushed'
  <2>1. ASSUME FleetIsStale(Aged), Older(real, Gap) < Gap, ~fresh PROVE FALSE
    <3>1. since <= real /\ since \in 0..Gap /\ real \in 0..Gap
      BY <2>1 DEF CadenceInv, CadenceTyped
    <3>2. Older(since, Gap) < Gap
      BY <2>1, <3>1, OlderGap, CadenceAssumption
    <3>3. QED
      BY <2>1, <3>2 DEF PollTick, ShouldDrip
  <2>2. QED
    BY <1>1, <2>1 DEF CadenceInv
<1>7. QED
  BY <1>1, <1>4, <1>5, <1>6 DEF CadenceInv

\* A command leaves the order of the polls alone, but for an account to be polled anew.
LEMMA OperateKeeps ==
  ASSUME CadenceInv, NEW u \in Accounts, NEW r, IsAccount(r),
         r.age = acc[u].age \/ r.age = NeverPolled, Operate(u, r)
  PROVE  CadenceInv'
<1>1. /\ CadenceTyped /\ acc' = [acc EXCEPT ![u] = r] /\ waits' = [waits EXCEPT ![u] = 0]
      /\ orders' = orders + 1 /\ UNCHANGED <<later, since, real, rushed, fresh>>
  BY DEF Operate, CadenceInv
<1>2. /\ acc'[u] = r /\ DOMAIN acc' = Accounts /\ \A v \in Accounts \ {u} : acc'[v] = acc[v]
  BY <1>1 DEF CadenceTyped
<1>3. CadenceTyped'
  BY <1>1, <1>2 DEF CadenceTyped, PolledBefore
<1>4. ASSUME NEW v \in Accounts PROVE waits'[v] <= WaitBound(v)'
  <2>1. CASE v = u
    BY <1>1, <1>3, <2>1, NotWaiting DEF CadenceTyped
  <2>2. CASE v # u
    <3>1. PolledSince(v)' = PolledSince(v) \/ PolledSince(v)' = PolledSince(v) \ {u}
      <4>1. \A w \in Accounts \ {u} : w \in PolledSince(v)' <=> w \in PolledSince(v)
        BY <1>1, <1>2 DEF PolledSince, PolledBefore
      <4>2. u \in PolledSince(v)' => u \in PolledSince(v)
        BY <1>1, <1>2 DEF PolledSince, PolledBefore
      <4>3. PolledSince(v)' \subseteq Accounts /\ PolledSince(v) \subseteq Accounts
        BY DEF PolledSince
      <4>4. QED
        BY <4>1, <4>2, <4>3
    <3>2. PolledSince(v)' \in SUBSET Accounts
      BY DEF PolledSince
    <3>3. PICK S \in SUBSET Accounts :
            S = PolledSince(v)' /\ (S = PolledSince(v) \/ S = PolledSince(v) \ {u})
      BY <3>1, <3>2
    <3>4. Cardinality(PolledSince(v)) <= Cardinality(S) + 1
      <4>1. CASE S = PolledSince(v)
        BY <4>1, PolledSinceIsFinite
      <4>2. CASE S = PolledSince(v) \ {u}
        BY <1>1, <2>2, <4>2, OthersPoll
      <4>3. QED
        BY <3>3, <4>1, <4>2
    <3>5. IsFiniteSet(S) /\ Cardinality(S) \in Nat
      BY CadenceAssumption, FS_Subset, FS_CardinalityType
    <3>6. PICK c \in Nat, d \in Nat, o \in Nat, s \in 0..Gap :
            /\ c = Cardinality(PolledSince(v)) /\ d = Cardinality(S) /\ c <= d + 1
            /\ o = orders /\ s = since
      BY <1>1, <3>4, <3>5, PolledSinceIsFinite DEF CadenceTyped
    <3>7. /\ Bound(c, o, s) \in Nat /\ Bound(d, o + 1, s) \in Nat
          /\ Bound(c, o, s) <= Bound(d, o + 1, s)
      BY <3>6, BoundOfCommand
    <3>8. waits[v] <= Bound(c, o, s) /\ waits[v] \in Nat
      BY <3>6 DEF CadenceInv, CadenceTyped, WaitBound
    <3>9. WaitBound(v)' = Bound(d, o + 1, s) /\ waits'[v] = waits[v]
      BY <1>1, <2>2, <3>3, <3>6 DEF WaitBound, CadenceTyped
    <3>10. QED
      BY <3>7, <3>8, <3>9
  <2>3. QED
    BY <2>1, <2>2
<1>5. QED
  BY <1>1, <1>3, <1>4 DEF CadenceInv

LEMMA StartKeepsPace == ASSUME CadenceInv, StartAgain PROVE CadenceInv'
<1> DEFINE healed == [u \in Accounts |-> [acc[u] EXCEPT !.failures = 0]]
<1>1. /\ CadenceTyped /\ acc' = healed /\ orders' = orders + 1
      /\ since' = SeededGap(healed) /\ fresh' = ~FleetIsStale(healed)
      /\ UNCHANGED <<later, real, rushed, waits>>
  BY DEF StartAgain, past, CadenceInv
<1>2. \A u \in Accounts : IsAccount(healed[u]) /\ healed[u].age = acc[u].age
  BY <1>1 DEF CadenceTyped, IsAccount
<1> HIDE DEF healed
<1>3. since' \in {0, Gap} /\ since' \in 0..Gap /\ (~fresh' => since' = 0)
  <2>1. PICK stale \in BOOLEAN : stale <=> FleetIsStale(healed)
    OBVIOUS
  <2>2. (stale => SeededGap(healed) = 0) /\ (~stale => SeededGap(healed) = Gap)
    BY <2>1 DEF SeededGap
  <2>3. ~fresh' => stale
    BY <1>1, <2>1, Zenon
  <2>4. Gap \in Nat
    BY CadenceAssumption
  <2>5. QED
    BY <1>1, <2>1, <2>2, <2>3, <2>4
<1>4. CadenceTyped'
  <2>1. DOMAIN acc' = Accounts
    BY <1>1 DEF healed
  <2>2. QED
    BY <1>1, <1>2, <1>3, <2>1 DEF CadenceTyped, PolledBefore
<1>5. ASSUME NEW v \in Accounts PROVE waits'[v] <= WaitBound(v)'
  <2>1. PolledSince(v)' = PolledSince(v)
    BY <1>1, <1>2 DEF PolledSince, PolledBefore
  <2>2. PICK c \in Nat, o \in Nat, s \in 0..Gap, t \in 0..Gap :
          /\ c = Cardinality(PolledSince(v)) /\ c = Cardinality(PolledSince(v)')
          /\ o = orders /\ s = since /\ t = since'
    BY <1>1, <1>3, <2>1, PolledSinceIsFinite DEF CadenceTyped
  <2>3. /\ Bound(c, o, s) \in Nat /\ Bound(c, o + 1, t) \in Nat
        /\ Bound(c, o, s) <= Bound(c, o + 1, t)
    <3>1. c <= c
      OBVIOUS
    <3>2. QED
      BY <3>1, BoundOfCommand
  <2>4. waits[v] <= Bound(c, o, s) /\ waits[v] \in Nat
    BY <2>2 DEF CadenceInv, CadenceTyped, WaitBound
  <2>5. WaitBound(v)' = Bound(c, o + 1, t) /\ waits'[v] = waits[v]
    BY <1>1, <2>2 DEF WaitBound
  <2>6. QED
    BY <2>3, <2>4, <2>5
<1>6. ~fresh' => since' <= real'
  BY <1>1, <1>3, CadenceAssumption DEF CadenceTyped
<1>7. QED
  BY <1>1, <1>4, <1>5, <1>6 DEF CadenceInv

LEMMA CadenceStep == ASSUME CadenceInv, [CadenceNext]_cadenceVars PROVE CadenceInv'
<1>1. CASE UNCHANGED cadenceVars
  BY <1>1 DEF cadenceVars, CadenceInv, CadenceTyped, WaitBound, PolledSince, PolledBefore
<1>2. CASE ClosedTick
  BY <1>2, ClosedKeeps
<1>3. CASE IdleTick
  BY <1>3, IdleKeeps
<1>4. ASSUME NEW u \in Accounts, NEW r \in Polled(Aged[u]), PollTick(u, r) PROVE CadenceInv'
  BY <1>4, PollKeepsPace
<1>5. ASSUME NEW u \in Accounts, ForcePoll(u) \/ \E b \in BOOLEAN : PauseAccount(u, b)
      PROVE  CadenceInv'
  <2>1. IsAccount(acc[u])
    BY DEF CadenceInv, CadenceTyped
  <2>2. CASE ForcePoll(u)
    <3>1. PICK r : r = [acc[u] EXCEPT !.age = NeverPolled, !.hard = 0] /\ Operate(u, r)
      BY <2>2 DEF ForcePoll
    <3>2. IsAccount(r) /\ r.age = NeverPolled
      BY <2>1, <3>1 DEF IsAccount
    <3>3. QED
      BY <3>1, <3>2, OperateKeeps
  <2>3. CASE \E b \in BOOLEAN : PauseAccount(u, b)
    <3>1. PICK b \in BOOLEAN : PauseAccount(u, b)
      BY <2>3
    <3>2. PICK h : h = IF b THEN acc[u].hard ELSE 0
      OBVIOUS
    <3>3. PICK r : r = [acc[u] EXCEPT !.paused = b, !.hard = h] /\ Operate(u, r)
      BY <3>1, <3>2 DEF PauseAccount
    <3>4. IsAccount(r) /\ r.age = acc[u].age
      BY <2>1, <3>3 DEF IsAccount
    <3>5. QED
      BY <3>3, <3>4, OperateKeeps
  <2>4. QED
    BY <1>5, <2>2, <2>3
<1>6. CASE StartAgain
  BY <1>6, StartKeepsPace
<1>7. QED
  BY <1>1, <1>2, <1>3, <1>4, <1>5, <1>6 DEF CadenceNext

\* In every state the wait of an account is within its bound and the drip counts from
\* the last real poll at the latest (scheduler.ts, tickOnce, shouldResumeDrip).
THEOREM CadenceInvariant == CadenceSpec => []CadenceInv
<1>1. CadenceInit => CadenceInv
  BY CadenceStarts
<1>2. CadenceInv /\ [CadenceNext]_cadenceVars => CadenceInv'
  BY CadenceStep
<1>3. QED
  BY <1>1, <1>2, PTL DEF CadenceSpec

LEMMA BoundedIsPaced == CadenceInv => PollsPaced
<1> SUFFICES ASSUME CadenceInv PROVE PollsPaced
  OBVIOUS
<1>1. ASSUME NEW u \in Accounts
      PROVE  waits[u] <= Gap * (Cardinality(Accounts) + orders)
  <2>1. PolledSince(u) \in SUBSET (Accounts \ {u})
    BY DEF CadenceInv, CadenceTyped, PolledSince
  <2>2. /\ IsFiniteSet(Accounts) /\ Cardinality(Accounts) \in Nat
        /\ IsFiniteSet(Accounts \ {u}) /\ Cardinality(Accounts \ {u}) = Cardinality(Accounts) - 1
    BY CadenceAssumption, FS_RemoveElement, FS_CardinalityType
  <2>3. Cardinality(PolledSince(u)) <= Cardinality(Accounts) - 1
    BY <2>1, <2>2, FS_Subset
  <2>4. PICK c \in Nat, n \in Nat, o \in Nat, s \in 0..Gap :
          /\ c = Cardinality(PolledSince(u)) /\ n = Cardinality(Accounts) /\ c + 1 <= n
          /\ o = orders /\ s = since
    BY <2>2, <2>3, PolledSinceIsFinite DEF CadenceInv, CadenceTyped
  <2>5. waits[u] <= Bound(c, o, s) /\ waits[u] \in Nat
    BY <2>4 DEF CadenceInv, CadenceTyped, WaitBound
  <2>6. /\ Gap \in Nat /\ Gap > 0 /\ Gap * (c + o) \in Nat
        /\ Gap * ((c + o) + 1) = Gap * (c + o) + Gap
    <3>1. c + o \in Nat
      OBVIOUS
    <3>2. QED
      BY <3>1, GapTimes
  <2>7. Gap * ((c + o) + 1) <= Gap * (n + o)
    <3>1. (c + o) + 1 \in Nat /\ n + o \in Nat /\ (c + o) + 1 <= n + o
      BY <2>4
    <3>2. QED
      BY <3>1, GapTimes
  <2>8. Bound(c, o, s) <= Gap * (c + o) + Gap
    BY <2>6 DEF Bound
  <2>9. Bound(c, o, s) \in Nat /\ Gap * (n + o) \in Nat
    <3>1. n + o \in Nat
      OBVIOUS
    <3>2. Gap * (n + o) \in Nat
      BY <3>1, GapTimes
    <3>3. QED
      BY <3>2, BoundsGrow
  <2>10. waits[u] <= Gap * (n + o)
    BY <2>5, <2>6, <2>7, <2>8, <2>9
  <2>11. QED
    BY <2>4, <2>10
<1>2. QED
  BY <1>1 DEF CadenceInv, PollsPaced

\* An account that stays due waits its turn and no more, and a fleet that catches up
\* is paced, over all intervals, failures, commands and restarts (dueAccounts,
\* shouldResumeDrip).
THEOREM EveryAccountHasItsTurn == CadenceSpec => []PollsPaced
BY CadenceInvariant, BoundedIsPaced, PTL

-----------------------------------------------------------------------------
(* What the channels get of an account (InstagramFeed).                    *)

PollShapes ==
  [pc : {"idle", "fetching", "loop", "classify", "publish", "sent"},
   acc : Rows, window : SUBSET Media, chans : SUBSET Outlets,
   todo : SUBSET Media, next : Anchors, held : Media \cup {Null},
   post : Media \cup {Null}, left : SUBSET Outlets,
   to : Outlets \cup {Null}, pushed : [Outlets -> Nat]]

InLoop(u) == u.pc \in {"loop", "classify", "publish", "sent"}
InHand(u) == u.pc \in {"classify", "publish", "sent"}
Serving(u) == u.pc \in {"publish", "sent"}

\* Above(w) for the poll u.
AboveOf(u, w) ==
  {p \in w : /\ u.acc.anchor.id \in w => Taken[p] > Taken[u.acc.anchor.id]
             /\ u.acc.anchor.at # Null => Taken[p] > u.acc.anchor.at}

\* Every channel that u serves has post p on record.
Served(u, s, p) == \A c \in u.chans : <<c, p>> \in s

\* A poll reaches its posts by their time: those it is done with are on record,
\* unless they are not older than the first one without a verdict.
Ordered(u, s) ==
  /\ u.todo \subseteq AboveOf(u, u.window)
  /\ InHand(u) => u.post \in u.todo /\ \A p \in u.todo : Taken[u.post] <= Taken[p]
  /\ \A p \in AboveOf(u, u.window) :
       p \in u.todo \/ Served(u, s, p) \/ (u.held # Null /\ Taken[u.held] <= Taken[p])
  /\ u.held # Null => \A p \in u.todo : Taken[u.held] <= Taken[p]

\* While a post is in hand, the channels that wait for it have no record of it and
\* the others have.
Handing(u, s) ==
  Serving(u) =>
    /\ u.left \subseteq u.chans
    /\ \A c \in u.left : <<c, u.post>> \notin s
    /\ \A c \in u.chans \ u.left : <<c, u.post>> \in s
    /\ u.pc = "sent" => u.to \in u.left

\* An anchor below which nothing is published is not below floor f.
AnchorFloor(a, f) == a.id = Null \/ f = 0 \/ (a.at # Null /\ a.at >= f)

\* A card without a record is on its way to it, or a crash took the record.
OnRecord(s) ==
  \/ cards[s] = 0 \/ s \in onRecord \/ s \in unrecorded
  \/ poll.pc = "sent" /\ s = <<poll.to, poll.post>>

FeedInv ==
  /\ FeedTypeOK
  /\ InLoop(poll) => /\ Ordered(poll, onRecord) /\ Handing(poll, onRecord)
                     /\ poll.acc.anchor.id # Null /\ AnchorFloor(poll.next, floor)
  /\ ~InLoop(poll) => poll.held = Null
  /\ poll.pc # "idle" => /\ AnchorFloor(poll.acc.anchor, floor)
                         /\ row.key # poll.acc.key => row.anchor.id = Null
  /\ AnchorFloor(row.anchor, floor)
  /\ PushedOnce
  /\ \A s \in Outlets \X Media : OnRecord(s)

LEMMA FeedTypes ==
  ASSUME FeedInv
  PROVE  /\ poll \in PollShapes /\ row \in Rows /\ floor \in Nat /\ ops \in Nat
         /\ onRecord \subseteq Outlets \X Media /\ cards \in [Outlets \X Media -> Nat]
         /\ row.anchor \in Anchors /\ poll.acc \in Rows /\ poll.acc.anchor \in Anchors
         /\ now \in Nat /\ reloads \in Nat
BY DEF FeedInv, FeedTypeOK, PollShapes, Rows

LEMMA Blanks ==
  /\ NoAnchor \in Anchors /\ NoAnchor.id = Null /\ NoAnchor.at = Null
  /\ NoAccount \in Rows /\ NoAccount.anchor = NoAnchor
  /\ \A k \in Nat : NewRow(k) \in Rows /\ NewRow(k).anchor = NoAnchor
<1>1. NoAnchor \in Anchors /\ NoAnchor.id = Null /\ NoAnchor.at = Null
  BY DEF NoAnchor, Anchors
<1>2. NoAccount \in Rows /\ NoAccount.anchor = NoAnchor
  BY <1>1 DEF NoAccount, Rows
<1>3. ASSUME NEW k \in Nat PROVE NewRow(k) \in Rows /\ NewRow(k).anchor = NoAnchor
  BY <1>3, <1>1 DEF NewRow, NoAccount, Rows
<1>4. QED
  BY <1>1, <1>2, <1>3

LEMMA NoPollIsIdle == NoPoll \in PollShapes /\ NoPoll.pc = "idle" /\ NoPoll.held = Null
<1>1. NoAccount \in Rows /\ NoAnchor \in Anchors
  BY Blanks
<1>2. [c \in Outlets |-> 0] \in [Outlets -> Nat]
  OBVIOUS
<1> HIDE DEF NoAccount, NoAnchor
<1>3. QED
  BY <1>1, <1>2 DEF NoPoll, PollShapes

LEMMA FeedStarts == FeedInit => FeedInv
<1> SUFFICES ASSUME FeedInit PROVE FeedInv
  OBVIOUS
<1>1. PICK a \in FirstAnchors : row = [NewRow(1) EXCEPT !.anchor = a]
  BY DEF FeedInit
<1>2. a \in Anchors
  BY <1>1, FeedAssumption, Blanks DEF FirstAnchors, Anchors, FeedInit
<1>3. row \in Rows
  BY <1>1, <1>2, Blanks DEF Rows
<1>4. /\ poll \in PollShapes /\ poll.pc = "idle" /\ poll.held = Null /\ floor = 0 /\ onRecord = {} /\ unrecorded = {}
      /\ \A s \in Outlets \X Media : cards[s] = 0
      /\ cards \in [Outlets \X Media -> Nat]
  BY NoPollIsIdle DEF FeedInit
<1>5. FeedTypeOK
  BY <1>3, <1>4, FeedAssumption DEF FeedTypeOK, FeedInit, PollShapes
<1>6. QED
  BY <1>4, <1>5 DEF FeedInv, InLoop, AnchorFloor, PushedOnce, OnRecord

-----------------------------------------------------------------------------
(* The steps that leave the poll alone, and those that end it.             *)

LEMMA FeedAside ==
  ASSUME FeedInv, UNCHANGED <<poll, onRecord, cards, unrecorded>>, FeedTypeOK', floor' \in {floor, 0},
         AnchorFloor(row'.anchor, floor'),
         poll.pc # "idle" /\ row'.key # poll.acc.key => row'.anchor.id = Null
  PROVE  FeedInv'
<1>1. AnchorFloor(poll.next, floor) => AnchorFloor(poll.next, floor')
  BY DEF AnchorFloor
<1>2. AnchorFloor(poll.acc.anchor, floor) => AnchorFloor(poll.acc.anchor, floor')
  BY DEF AnchorFloor
<1>3. PushedOnce' /\ \A s \in Outlets \X Media : OnRecord(s)'
  BY DEF FeedInv, PushedOnce, OnRecord
<1>4. (InLoop(poll) => /\ Ordered(poll, onRecord) /\ Handing(poll, onRecord)
                       /\ poll.acc.anchor.id # Null /\ AnchorFloor(poll.next, floor))'
  BY <1>1 DEF FeedInv, InLoop, Ordered, Handing, AnchorFloor, InHand, Served, Serving, AboveOf
<1>5. (~InLoop(poll) => poll.held = Null)'
  BY DEF FeedInv, InLoop
<1>6. QED
  BY <1>2, <1>3, <1>4, <1>5 DEF FeedInv, AnchorFloor

LEMMA PollEnds ==
  ASSUME FeedInv, EndPoll, poll.pc # "sent", FeedTypeOK', AnchorFloor(row'.anchor, floor')
  PROVE  FeedInv'
<1>1. poll'.pc = "idle" /\ poll'.held = Null /\ UNCHANGED <<cards, unrecorded, onRecord>>
  BY NoPollIsIdle DEF EndPoll
<1>2. PushedOnce' /\ \A s \in Outlets \X Media : OnRecord(s)'
  BY <1>1 DEF FeedInv, PushedOnce, OnRecord
<1>3. QED
  BY <1>1, <1>2 DEF FeedInv, InLoop, AnchorFloor

\* What a poll writes to the row.
LEMMA Marked ==
  ASSUME FeedInv, NEW a \in Anchors, Mark(a), poll.pc # "idle"
  PROVE  /\ row' \in Rows
         /\ row'.anchor = a \/ row'.anchor = row.anchor
         /\ row'.anchor = a \/ row.anchor.id = Null
<1>1. CASE row.key # poll.acc.key
  BY <1>1, FeedTypes DEF Mark, FeedInv
<1>2. CASE row.key = poll.acc.key
  <2>1. row' = [row EXCEPT !.polled = TRUE, !.anchor = a]
    BY <1>2 DEF Mark
  <2>2. QED
    BY <2>1, FeedTypes DEF Rows
<1>3. QED
  BY <1>1, <1>2

LEMMA EndTypes ==
  ASSUME FeedInv, EndPoll, row' \in Rows, floor' \in Nat
  PROVE  FeedTypeOK'
<1>1. poll' \in PollShapes /\ UNCHANGED <<env, onRecord, cards, unrecorded>>
  BY NoPollIsIdle DEF EndPoll
<1>2. QED
  BY <1>1 DEF FeedInv, FeedTypeOK, env, PollShapes

LEMMA PostTimes == \A p \in Media : Taken[p] \in Nat /\ Taken[p] > 0
BY FeedAssumption

LEMMA AtAnchors == \A p \in Media : At(p) \in Anchors /\ At(p).at = Taken[p] /\ Taken[p] # Null
BY FeedAssumption DEF At, Anchors

LEMMA WindowPosts == \A w \in Windows : w \subseteq Media
BY DEF Windows, Online

\* The anchor that a poll means to leave is not below the floor.
LEMMA ForwardKeeps ==
  ASSUME FeedInv, poll.pc = "fetching", NEW p \in Media, poll.acc.anchor.id # Null
  PROVE  Forward(p) \in Anchors /\ AnchorFloor(Forward(p), floor)
<1> DEFINE a == poll.acc.anchor
<1>1. a \in Anchors /\ AnchorFloor(a, floor) /\ floor \in Nat
  BY FeedTypes DEF FeedInv
<1>2. CASE a.at = Null \/ Taken[p] >= a.at
  <2>1. Forward(p) = At(p) /\ Taken[p] \in Nat
    BY <1>2, PostTimes DEF Forward
  <2>2. floor = 0 \/ Taken[p] >= floor
    <3>1. CASE a.at = Null
      BY <1>1, <3>1 DEF AnchorFloor
    <3>2. CASE a.at # Null
      <4>1. a.at \in Nat /\ Taken[p] >= a.at
        BY <1>1, <1>2, <3>2 DEF Anchors
      <4>2. QED
        BY <1>1, <2>1, <4>1 DEF AnchorFloor
    <3>3. QED
      BY <3>1, <3>2
  <2>3. QED
    BY <2>1, <2>2, AtAnchors DEF AnchorFloor
<1>3. CASE ~(a.at = Null \/ Taken[p] >= a.at)
  BY <1>1, <1>3 DEF Forward
<1>4. QED
  BY <1>2, <1>3

LEMMA FetchingEnds ==
  ASSUME FeedInv,
         FetchFails \/ FetchEmpty \/
         (\E w \in Windows : \E p \in w : Seed(w, p) \/ NothingNew(w, p))
  PROVE  FeedInv'
<1>1. EndPoll /\ poll.pc = "fetching"
  BY DEF FetchFails, FetchEmpty, Seed, NothingNew
<1>2. CASE FetchFails \/ FetchEmpty
  <2>1. Mark(row.anchor) /\ floor' = floor
    BY <1>2 DEF FetchFails, FetchEmpty
  <2>2. row' \in Rows /\ row'.anchor = row.anchor
    BY <1>1, <2>1, FeedTypes DEF Mark, Rows
  <2>3. AnchorFloor(row'.anchor, floor') /\ FeedTypeOK'
    BY <1>1, <2>1, <2>2, EndTypes, FeedTypes DEF FeedInv
  <2>4. QED
    BY <1>1, <2>3, PollEnds
<1>3. ASSUME NEW w \in Windows, NEW p \in w, Seed(w, p) PROVE FeedInv'
  <2>1. p \in Media /\ Mark(At(p)) /\ floor' = Taken[p]
    BY <1>3, WindowPosts DEF Seed
  <2>2. /\ At(p) \in Anchors /\ At(p).at = Taken[p]
        /\ Taken[p] # Null /\ Taken[p] \in Nat
    BY <2>1, AtAnchors, PostTimes
  <2>3. row' \in Rows /\ (row'.anchor = At(p) \/ (row'.anchor = row.anchor /\ row.anchor.id = Null))
    BY <1>1, <2>1, <2>2, Marked
  <2>4. AnchorFloor(row'.anchor, floor') /\ FeedTypeOK'
    BY <1>1, <2>1, <2>2, <2>3, EndTypes DEF AnchorFloor
  <2>5. QED
    BY <1>1, <2>4, PollEnds
<1>4. ASSUME NEW w \in Windows, NEW p \in w, NothingNew(w, p) PROVE FeedInv'
  <2>1. p \in Media /\ Mark(Forward(p)) /\ floor' = floor /\ poll.acc.anchor.id # Null
    BY <1>4, WindowPosts DEF NothingNew, Unseeded
  <2>2. Forward(p) \in Anchors /\ AnchorFloor(Forward(p), floor)
    BY <1>1, <2>1, ForwardKeeps
  <2>3. row' \in Rows /\ (row'.anchor = Forward(p) \/ row'.anchor = row.anchor)
    BY <1>1, <2>1, <2>2, Marked
  <2>4. AnchorFloor(row'.anchor, floor') /\ FeedTypeOK'
    BY <1>1, <2>1, <2>2, <2>3, EndTypes, FeedTypes DEF FeedInv
  <2>5. QED
    BY <1>1, <2>4, PollEnds
<1>5. QED
  BY <1>2, <1>3, <1>4

LEMMA CommandKeeps ==
  ASSUME FeedInv,
         AddAccount \/ RemoveAccount \/ ResetLastPost \/ Tick
         \/ (\E b \in BOOLEAN : SetPaused(b)) \/ (\E B \in SUBSET Outlets : Bind(B))
         \/ (\E p \in Media : Delete(p))
  PROVE  FeedInv'
<1>1. /\ UNCHANGED <<poll, onRecord, cards, unrecorded, reloads>> /\ floor' \in {floor, 0}
      /\ now' \in Nat /\ ops' \in Nat /\ bound' \subseteq Outlets /\ deleted' \subseteq Media
  BY DEF AddAccount, RemoveAccount, ResetLastPost, Tick, SetPaused, Bind, Delete, Command,
     Aside, Online, FeedInv, FeedTypeOK
<1>2. /\ row' \in Rows
      /\ \/ row'.anchor = row.anchor /\ row'.key = row.key
         \/ row'.anchor.id = Null
  <2>1. CASE AddAccount
    <3>1. row' = NewRow(ops + 2) /\ ops + 2 \in Nat
      BY <2>1, FeedTypes DEF AddAccount
    <3>2. QED
      BY <3>1, Blanks
  <2>2. CASE RemoveAccount
    BY <2>2, Blanks DEF RemoveAccount
  <2>3. CASE ResetLastPost
    BY <2>3, Blanks, FeedTypes DEF ResetLastPost, Rows
  <2>4. ASSUME NEW b \in BOOLEAN, SetPaused(b)
        PROVE  row' \in Rows /\ row'.anchor = row.anchor /\ row'.key = row.key
    BY <2>4, FeedTypes DEF SetPaused, Rows
  <2>5. CASE UNCHANGED row
    BY <2>5, FeedTypes
  <2>6. QED
    BY <2>1, <2>2, <2>3, <2>4, <2>5 DEF Tick, Bind, Delete
<1>3. FeedTypeOK'
  BY <1>1, <1>2, FeedTypes DEF FeedInv, FeedTypeOK
<1>4. /\ AnchorFloor(row'.anchor, floor')
      /\ poll.pc # "idle" /\ row'.key # poll.acc.key => row'.anchor.id = Null
  BY <1>1, <1>2 DEF FeedInv, AnchorFloor
<1>5. QED
  BY <1>1, <1>3, <1>4, FeedAside

-----------------------------------------------------------------------------
(* The loop over the new posts.                                            *)

\* A step of the loop that leaves the row alone and Discord to Deliver.
LEMMA LoopStep ==
  ASSUME FeedInv, NEW u \in PollShapes, poll' = u, UNCHANGED <<env, row, floor, cards, unrecorded>>,
         poll.pc # "idle", u.acc = poll.acc,
         onRecord \subseteq onRecord', onRecord' \subseteq Outlets \X Media,
         poll.pc = "sent" => <<poll.to, poll.post>> \in onRecord',
         u.pc # "sent", ~InLoop(u) => u.held = Null,
         InLoop(u) => /\ Ordered(u, onRecord') /\ Handing(u, onRecord') /\ u.acc.anchor.id # Null
                      /\ AnchorFloor(u.next, floor)
  PROVE  FeedInv'
<1>1. FeedTypeOK'
  BY DEF FeedInv, FeedTypeOK, env, PollShapes
<1>2. PushedOnce' /\ \A s \in Outlets \X Media : OnRecord(s)'
  BY DEF FeedInv, PushedOnce, OnRecord
<1>3. (InLoop(poll) => /\ Ordered(poll, onRecord) /\ Handing(poll, onRecord)
                       /\ poll.acc.anchor.id # Null /\ AnchorFloor(poll.next, floor))'
  BY DEF InLoop, Ordered, Handing, AnchorFloor, InHand, Served, Serving, AboveOf
<1>4. (~InLoop(poll) => poll.held = Null)'
  BY DEF InLoop
<1>5. QED
  BY <1>1, <1>2, <1>3, <1>4 DEF FeedInv, AnchorFloor

LEMMA StartKeeps == ASSUME FeedInv, StartPoll PROVE FeedInv'
<1>1. PICK u : u = [poll EXCEPT !.pc = "fetching", !.acc = row]
  OBVIOUS
<1>2. u \in PollShapes /\ u.pc = "fetching" /\ u.acc = row /\ u.held = poll.held
  BY <1>1, FeedTypes DEF PollShapes
<1>3. poll' = u /\ UNCHANGED <<env, row, onRecord, cards, floor, unrecorded>> /\ poll.pc = "idle"
  BY <1>1 DEF StartPoll
<1>4. FeedTypeOK'
  BY <1>2, <1>3 DEF FeedInv, FeedTypeOK, env, PollShapes
<1>5. PushedOnce' /\ \A s \in Outlets \X Media : OnRecord(s)'
  BY <1>3 DEF FeedInv, PushedOnce, OnRecord
<1>6. QED
  BY <1>2, <1>3, <1>4, <1>5 DEF FeedInv, AnchorFloor, InLoop

LEMMA PostsBegin ==
  ASSUME FeedInv, NEW w \in Windows, NEW p \in w, BeginPosts(w, p)
  PROVE  FeedInv'
<1> PICK u : u = [poll EXCEPT !.pc = "loop", !.window = w, !.chans = bound,
                              !.next = Forward(p), !.todo = Above(w)]
  OBVIOUS
<1>1. /\ poll.pc = "fetching" /\ poll' = u /\ UNCHANGED <<env, row, onRecord, cards, floor, unrecorded>>
      /\ poll.acc.anchor.id # Null
  BY DEF BeginPosts, Unseeded
<1>2. w \subseteq Media /\ p \in Media /\ bound \subseteq Outlets
  BY WindowPosts DEF FeedInv, FeedTypeOK
<1>3. Forward(p) \in Anchors /\ AnchorFloor(Forward(p), floor)
  BY <1>1, <1>2, ForwardKeeps
<1>4. Above(w) = AboveOf(poll, w) /\ Above(w) \subseteq Media
  BY <1>2 DEF Above, AboveOf
<1>5. /\ u \in PollShapes /\ u.pc = "loop" /\ u.acc = poll.acc /\ u.window = w
      /\ u.next = Forward(p) /\ u.todo = Above(w) /\ u.held = poll.held
  <2> HIDE DEF Forward, Above
  <2>1. QED
    BY <1>2, <1>3, <1>4, FeedTypes DEF PollShapes
<1>6. poll.held = Null
  BY <1>1 DEF FeedInv, InLoop
<1>7. QED
  BY <1>1, <1>3, <1>4, <1>5, <1>6, LoopStep, FeedTypes
     DEF Ordered, Handing, InHand, Serving, AboveOf

LEMMA SkipKeeps ==
  ASSUME FeedInv, NEW p \in Media, Skip(p)
  PROVE  FeedInv'
<1> PICK u : u = [poll EXCEPT !.todo = @ \ {p}]
  OBVIOUS
<1>1. /\ poll.pc = "loop" /\ poll' = u /\ UNCHANGED <<env, row, onRecord, cards, floor, unrecorded>>
      /\ p \in poll.todo /\ Served(poll, onRecord, p)
  BY DEF Skip, Earliest, Unseen, HasSeen, Served
<1>2. /\ u \in PollShapes /\ u.pc = "loop" /\ u.acc = poll.acc /\ u.window = poll.window
      /\ u.next = poll.next /\ u.todo = poll.todo \ {p} /\ u.held = poll.held
      /\ u.chans = poll.chans
  BY <1>1, FeedTypes DEF PollShapes
<1>3. Ordered(poll, onRecord) /\ poll.acc.anchor.id # Null /\ AnchorFloor(poll.next, floor)
  BY <1>1 DEF FeedInv, InLoop
<1>4. Ordered(u, onRecord) /\ Handing(u, onRecord)
  BY <1>1, <1>2, <1>3 DEF Ordered, Handing, InHand, Serving, AboveOf, Served
<1>5. QED
  BY <1>1, <1>2, <1>3, <1>4, LoopStep, FeedTypes DEF InLoop

LEMMA ClassifyKeeps ==
  ASSUME FeedInv, NEW p \in Media, Classify(p)
  PROVE  FeedInv'
<1> PICK u : u = [poll EXCEPT !.pc = "classify", !.post = p]
  OBVIOUS
<1>1. /\ poll.pc = "loop" /\ poll' = u /\ UNCHANGED <<env, row, onRecord, cards, floor, unrecorded>>
      /\ p \in poll.todo /\ \A q \in poll.todo : Taken[p] <= Taken[q]
  BY DEF Classify, Earliest
<1>2. /\ u \in PollShapes /\ u.pc = "classify" /\ u.acc = poll.acc /\ u.window = poll.window
      /\ u.next = poll.next /\ u.todo = poll.todo /\ u.held = poll.held
      /\ u.chans = poll.chans /\ u.post = p
  BY <1>1, FeedTypes DEF PollShapes
<1>3. Ordered(poll, onRecord) /\ poll.acc.anchor.id # Null /\ AnchorFloor(poll.next, floor)
  BY <1>1 DEF FeedInv, InLoop
<1>4. Ordered(u, onRecord) /\ Handing(u, onRecord)
  BY <1>1, <1>2, <1>3 DEF Ordered, Handing, InHand, Serving, AboveOf, Served
<1>5. QED
  BY <1>1, <1>2, <1>3, <1>4, LoopStep, FeedTypes DEF InLoop

LEMMA UndecidedKeeps == ASSUME FeedInv, Undecided PROVE FeedInv'
<1> PICK u : u = [NextPost EXCEPT !.held = Hold]
  OBVIOUS
<1>1. /\ poll.pc = "classify" /\ poll' = u
      /\ UNCHANGED <<env, row, onRecord, cards, floor, unrecorded>>
  BY DEF Undecided
<1>2. Ordered(poll, onRecord) /\ poll.acc.anchor.id # Null /\ AnchorFloor(poll.next, floor)
  BY <1>1 DEF FeedInv, InLoop
<1>3. /\ poll.post \in poll.todo /\ poll.post \in Media
      /\ \A q \in poll.todo : Taken[poll.post] <= Taken[q]
  BY <1>1, <1>2, FeedTypes DEF Ordered, InHand, PollShapes
<1>4. Hold \in Media /\ Hold # Null
  BY <1>3, FeedTypes, FeedAssumption DEF Hold, PollShapes
<1>5. /\ u \in PollShapes /\ u.pc = "loop" /\ u.acc = poll.acc /\ u.window = poll.window
      /\ u.next = poll.next /\ u.todo = poll.todo \ {poll.post} /\ u.held = Hold
      /\ u.chans = poll.chans
  <2> HIDE DEF Hold
  <2>1. QED
    BY <1>1, <1>4, FeedTypes DEF PollShapes, NextPost
<1>6. \A q \in poll.todo : Taken[Hold] <= Taken[q]
  BY <1>2, <1>3 DEF Hold, Ordered
<1>7. \A q \in AboveOf(poll, poll.window) :
        q \in poll.todo \ {poll.post} \/ Served(poll, onRecord, q) \/ Taken[Hold] <= Taken[q]
  <2>1. CASE poll.held = Null
    BY <2>1, <1>2, <1>6 DEF Ordered
  <2>2. CASE poll.held # Null
    BY <2>2, <1>2, <1>6 DEF Ordered, Hold
  <2>3. QED
    BY <2>1, <2>2
<1>8. Ordered(u, onRecord) /\ Handing(u, onRecord)
  <2>1. Handing(u, onRecord) /\ u.todo \subseteq AboveOf(u, u.window)
    BY <1>2, <1>5 DEF Ordered, Handing, Serving, AboveOf
  <2>2. AboveOf(u, u.window) = AboveOf(poll, poll.window)
    BY <1>5 DEF AboveOf
  <2>3. \A q \in Media : Served(u, onRecord, q) <=> Served(poll, onRecord, q)
    BY <1>5 DEF Served
  <2>4. \A q \in AboveOf(u, u.window) : q \in Media
    BY <2>2, FeedTypes DEF AboveOf, PollShapes
  <2>5. QED
    BY <1>4, <1>5, <1>6, <1>7, <2>1, <2>2, <2>3, <2>4 DEF Ordered, InHand
<1>9. QED
  BY <1>1, <1>2, <1>5, <1>8, LoopStep, FeedTypes DEF InLoop

\* A post is done with once every channel has it on record.
LEMMA PostEnds ==
  ASSUME FeedInv, InHand(poll), NEW u \in PollShapes, NEW S \in SUBSET Outlets,
         poll' = u, UNCHANGED <<env, row, floor, cards, unrecorded>>, Record(S),
         poll.pc = "sent" => poll.to \in S,
         u.pc = "loop", u.acc = poll.acc, u.window = poll.window, u.next = poll.next,
         u.todo = poll.todo \ {poll.post}, u.held = poll.held, u.chans = poll.chans,
         Served(poll, onRecord', poll.post)
  PROVE  FeedInv'
<1>1. Ordered(poll, onRecord) /\ poll.acc.anchor.id # Null /\ AnchorFloor(poll.next, floor)
  BY DEF FeedInv, InLoop, InHand
<1>2. poll.post \in Media /\ onRecord \subseteq onRecord' /\ onRecord' \subseteq Outlets \X Media
  BY <1>1, FeedTypes DEF Ordered, PollShapes, Record
<1>3. poll.pc = "sent" => <<poll.to, poll.post>> \in onRecord'
  BY DEF Record
<1>4. Ordered(u, onRecord') /\ Handing(u, onRecord')
  BY <1>1, <1>2 DEF Ordered, Handing, InHand, Serving, AboveOf, Served
<1>5. QED
  BY <1>1, <1>2, <1>3, <1>4, LoopStep, FeedTypes DEF InLoop, InHand

\* A post that channels still wait for goes to one of them.
LEMMA PostGoesOn ==
  ASSUME FeedInv, InHand(poll), NEW u \in PollShapes, NEW S \in SUBSET Outlets,
         poll' = u, UNCHANGED <<env, row, floor, cards, unrecorded>>, Record(S),
         poll.pc = "sent" => poll.to \in S,
         u.pc = "publish", u.acc = poll.acc, u.window = poll.window, u.next = poll.next,
         u.todo = poll.todo, u.held = poll.held, u.chans = poll.chans, u.post = poll.post,
         u.left \subseteq u.chans,
         \A c \in u.left : <<c, poll.post>> \notin onRecord',
         \A c \in u.chans \ u.left : <<c, poll.post>> \in onRecord'
  PROVE  FeedInv'
<1>1. Ordered(poll, onRecord) /\ poll.acc.anchor.id # Null /\ AnchorFloor(poll.next, floor)
  BY DEF FeedInv, InLoop, InHand
<1>2. poll.post \in Media /\ onRecord \subseteq onRecord' /\ onRecord' \subseteq Outlets \X Media
  BY <1>1, FeedTypes DEF Ordered, PollShapes, Record
<1>3. poll.pc = "sent" => <<poll.to, poll.post>> \in onRecord'
  BY DEF Record
<1>4. Ordered(u, onRecord') /\ Handing(u, onRecord')
  BY <1>1, <1>2 DEF Ordered, Handing, InHand, Serving, AboveOf, Served
<1>5. QED
  BY <1>1, <1>2, <1>3, <1>4, LoopStep, FeedTypes DEF InLoop, InHand

LEMMA ServeKeeps ==
  ASSUME FeedInv, InHand(poll), NEW q \in PollShapes, NEW S \in SUBSET Outlets,
         poll' = Serve(q), UNCHANGED <<env, row, floor, cards, unrecorded>>, Record(S),
         poll.pc = "sent" => poll.to \in S,
         q.acc = poll.acc, q.window = poll.window, q.next = poll.next,
         q.todo = poll.todo, q.held = poll.held, q.chans = poll.chans, q.post = poll.post,
         q.left \subseteq q.chans,
         \A c \in q.left : <<c, poll.post>> \notin onRecord',
         \A c \in q.chans \ q.left : <<c, poll.post>> \in onRecord'
  PROVE  FeedInv'
<1>1. CASE q.left = {}
  <2> PICK u : u = [q EXCEPT !.pc = "loop", !.todo = @ \ {q.post}, !.post = Null]
    OBVIOUS
  <2>1. poll' = u
    BY <1>1 DEF Serve
  <2>2. /\ u \in PollShapes /\ u.pc = "loop" /\ u.acc = poll.acc /\ u.window = poll.window
        /\ u.next = poll.next /\ u.todo = poll.todo \ {poll.post} /\ u.held = poll.held
        /\ u.chans = poll.chans
    BY DEF PollShapes
  <2>3. Served(poll, onRecord', poll.post)
    BY <1>1 DEF Served
  <2>4. QED
    BY <2>1, <2>2, <2>3, PostEnds
<1>2. CASE q.left # {}
  <2> PICK u : u = [q EXCEPT !.pc = "publish"]
    OBVIOUS
  <2>1. poll' = u
    BY <1>2 DEF Serve
  <2>2. /\ u \in PollShapes /\ u.pc = "publish" /\ u.acc = poll.acc
        /\ u.window = poll.window /\ u.next = poll.next /\ u.todo = poll.todo
        /\ u.held = poll.held /\ u.chans = poll.chans /\ u.post = poll.post
        /\ u.left = q.left
    BY DEF PollShapes
  <2>3. QED
    BY <2>1, <2>2, PostGoesOn
<1>3. QED
  BY <1>1, <1>2

LEMMA IrrelevantKeeps == ASSUME FeedInv, Irrelevant PROVE FeedInv'
<1> DEFINE S == Unseen(poll.post)
<1> PICK u : u = NextPost
  OBVIOUS
<1>1. /\ poll.pc = "classify" /\ InHand(poll) /\ poll' = u /\ Record(S)
      /\ UNCHANGED <<env, row, floor, cards, unrecorded>>
  BY DEF Irrelevant, InHand
<1>2. /\ u \in PollShapes /\ u.pc = "loop" /\ u.acc = poll.acc /\ u.window = poll.window
      /\ u.next = poll.next /\ u.todo = poll.todo \ {poll.post} /\ u.held = poll.held
      /\ u.chans = poll.chans
  BY FeedTypes DEF PollShapes, NextPost
<1>3. S \in SUBSET Outlets
  BY FeedTypes DEF PollShapes, Unseen
<1>4. Served(poll, onRecord', poll.post)
  BY <1>1 DEF Served, Record, Unseen, HasSeen
<1>5. QED
  <2> HIDE DEF S
  <2>1. QED
    BY <1>1, <1>2, <1>3, <1>4, PostEnds

LEMMA RelevantKeeps == ASSUME FeedInv, Relevant PROVE FeedInv'
<1> DEFINE full == {c \in Unseen(poll.post) : poll.pushed[c] >= PushCap}
<1> PICK q : q = [poll EXCEPT !.left = Unseen(poll.post) \ full]
  OBVIOUS
<1>1. /\ poll.pc = "classify" /\ InHand(poll) /\ poll' = Serve(q) /\ Record(full)
      /\ UNCHANGED <<env, row, floor, cards, unrecorded>>
  BY DEF Relevant, InHand
<1>2. full \in SUBSET Outlets /\ Unseen(poll.post) \subseteq poll.chans
  BY FeedTypes DEF PollShapes, Unseen
<1>3. /\ q \in PollShapes /\ q.acc = poll.acc /\ q.window = poll.window
      /\ q.next = poll.next /\ q.todo = poll.todo /\ q.held = poll.held
      /\ q.chans = poll.chans /\ q.post = poll.post /\ q.left = Unseen(poll.post) \ full
  <2> HIDE DEF full
  <2>1. QED
    BY <1>2, FeedTypes DEF PollShapes
<1>4. /\ \A c \in q.left : <<c, poll.post>> \notin onRecord'
      /\ \A c \in q.chans \ q.left : <<c, poll.post>> \in onRecord'
  BY <1>1, <1>3 DEF Record, Unseen, HasSeen
<1>5. QED
  <2> HIDE DEF full
  <2>1. QED
    BY <1>1, <1>2, <1>3, <1>4, ServeKeeps

\* A channel is served: its record follows, with a card or without one.
LEMMA ChannelServed ==
  ASSUME FeedInv, Serving(poll), NEW c \in poll.left, NEW q \in PollShapes,
         poll.pc = "sent" => c = poll.to,
         poll' = Serve(q), UNCHANGED <<env, row, floor, cards, unrecorded>>, Record({c}),
         q.acc = poll.acc, q.window = poll.window, q.next = poll.next,
         q.todo = poll.todo, q.held = poll.held, q.chans = poll.chans, q.post = poll.post,
         q.left = poll.left \ {c}
  PROVE  FeedInv'
<1>1. Handing(poll, onRecord) /\ InHand(poll) /\ {c} \in SUBSET Outlets
  BY FeedTypes DEF FeedInv, InLoop, InHand, Serving, PollShapes
<1>2. /\ q.left \subseteq q.chans
      /\ \A d \in q.left : <<d, poll.post>> \notin onRecord'
      /\ \A d \in q.chans \ q.left : <<d, poll.post>> \in onRecord'
  BY <1>1 DEF Handing, Record
<1>3. QED
  BY <1>1, <1>2, ServeKeeps

LEMMA PublishFailsKeeps ==
  ASSUME FeedInv, NEW c \in Outlets, PublishFails(c) PROVE FeedInv'
<1> PICK q : q = Answered(c)
  OBVIOUS
<1>1. /\ Serving(poll) /\ poll' = Serve(q) /\ Record({c})
      /\ UNCHANGED <<env, row, floor, cards, unrecorded>>
      /\ poll.pc = "sent" => c = poll.to
  BY DEF PublishFails, Serving
<1>2. c \in poll.left
  BY <1>1 DEF PublishFails, Serving, FeedInv, InLoop, Handing
<1>3. /\ q \in PollShapes /\ q.acc = poll.acc /\ q.window = poll.window
      /\ q.next = poll.next /\ q.todo = poll.todo /\ q.held = poll.held
      /\ q.chans = poll.chans /\ q.post = poll.post /\ q.left = poll.left \ {c}
  BY FeedTypes DEF PollShapes, Answered
<1>4. QED
  BY <1>1, <1>2, <1>3, ChannelServed

LEMMA DeliveredKeeps == ASSUME FeedInv, CardRecorded PROVE FeedInv'
<1> PICK c : c = poll.to
  OBVIOUS
<1> PICK q : q = [Answered(c) EXCEPT !.pushed[c] = @ + 1]
  OBVIOUS
<1>1. /\ poll.pc = "sent" /\ Serving(poll) /\ poll' = Serve(q) /\ Record({c})
      /\ UNCHANGED <<env, row, floor, cards, unrecorded>>
  BY DEF CardRecorded, Serving
<1>2. c \in poll.left /\ c \in Outlets
  BY <1>1, FeedTypes DEF Serving, FeedInv, InLoop, Handing, PollShapes
<1>3. /\ q \in PollShapes /\ q.acc = poll.acc /\ q.window = poll.window
      /\ q.next = poll.next /\ q.todo = poll.todo /\ q.held = poll.held
      /\ q.chans = poll.chans /\ q.post = poll.post /\ q.left = poll.left \ {c}
  <2> PICK a : a = Answered(c)
    OBVIOUS
  <2>1. /\ a \in PollShapes /\ a.acc = poll.acc /\ a.window = poll.window
        /\ a.next = poll.next /\ a.todo = poll.todo /\ a.held = poll.held
        /\ a.chans = poll.chans /\ a.post = poll.post /\ a.left = poll.left \ {c}
    BY FeedTypes DEF PollShapes, Answered
  <2>2. a.pushed \in [Outlets -> Nat] /\ [a.pushed EXCEPT ![c] = @ + 1] \in [Outlets -> Nat]
    BY <1>2, <2>1 DEF PollShapes
  <2>3. q = [a EXCEPT !.pushed = [a.pushed EXCEPT ![c] = @ + 1]]
    BY <2>1 DEF PollShapes
  <2> PICK n : n = [a.pushed EXCEPT ![c] = @ + 1]
    OBVIOUS
  <2>4. q = [a EXCEPT !.pushed = n] /\ n \in [Outlets -> Nat]
    BY <2>2, <2>3
  <2>5. QED
    BY <2>1, <2>4 DEF PollShapes
<1>4. QED
  BY <1>1, <1>2, <1>3, ChannelServed

\* The post in hand is above the anchor the poll started from, and so above the
\* floor.
LEMMA InHandAboveFloor ==
  ASSUME FeedInv, InHand(poll)
  PROVE  poll.post \in Media /\ Taken[poll.post] > floor
<1>1. /\ poll.post \in poll.todo /\ poll.todo \subseteq AboveOf(poll, poll.window)
      /\ AnchorFloor(poll.acc.anchor, floor) /\ poll.acc.anchor.id # Null
  BY DEF FeedInv, InLoop, InHand, Ordered
<1>2. /\ poll.post \in Media /\ Taken[poll.post] \in Nat /\ Taken[poll.post] > 0
      /\ floor \in Nat /\ poll.acc.anchor.at \in Nat \cup {Null}
  BY <1>1, FeedTypes, PostTimes DEF PollShapes, Anchors
<1>3. poll.acc.anchor.at # Null => Taken[poll.post] > poll.acc.anchor.at
  BY <1>1 DEF AboveOf
<1>4. QED
  BY <1>1, <1>2, <1>3 DEF AnchorFloor

LEMMA DeliverKeeps ==
  ASSUME FeedInv, NEW c \in Outlets, PushCard(c) PROVE FeedInv'
<1> PICK u : u = [poll EXCEPT !.pc = "sent", !.to = c]
  OBVIOUS
<1> DEFINE s == <<c, poll.post>>
<1>1. /\ poll.pc = "publish" /\ c \in poll.left /\ InHand(poll) /\ poll' = u
      /\ cards' = [cards EXCEPT ![s] = @ + 1]
      /\ UNCHANGED <<env, row, onRecord, floor, unrecorded>>
  BY DEF PushCard, InHand
<1>2. /\ u \in PollShapes /\ u.pc = "sent" /\ u.acc = poll.acc /\ u.window = poll.window
      /\ u.next = poll.next /\ u.todo = poll.todo /\ u.held = poll.held
      /\ u.chans = poll.chans /\ u.post = poll.post /\ u.left = poll.left /\ u.to = c
  BY FeedTypes DEF PollShapes
<1>3. /\ Ordered(poll, onRecord) /\ Handing(poll, onRecord) /\ poll.acc.anchor.id # Null
      /\ AnchorFloor(poll.next, floor)
  BY <1>1 DEF FeedInv, InLoop
<1>4. s \in Outlets \X Media /\ s \notin onRecord
  BY <1>1, <1>3, InHandAboveFloor DEF Handing, Serving
<1>5. cards[s] = 0 \/ s \in unrecorded
  BY <1>1, <1>4 DEF FeedInv, OnRecord
<1>6. Ordered(u, onRecord) /\ Handing(u, onRecord)
  BY <1>1, <1>2, <1>3 DEF Ordered, Handing, InHand, Serving, AboveOf, Served
<1>7. /\ cards' \in [Outlets \X Media -> Nat] /\ cards'[s] = cards[s] + 1
      /\ \A t \in Outlets \X Media : t # s => cards'[t] = cards[t]
  BY <1>1, <1>4, FeedTypes
<1>8. FeedTypeOK'
  BY <1>1, <1>2, <1>7 DEF FeedInv, FeedTypeOK, env, PollShapes
<1>9. PushedOnce'
  BY <1>1, <1>4, <1>5, <1>7 DEF FeedInv, PushedOnce
<1>10. \A t \in Outlets \X Media : OnRecord(t)'
  BY <1>1, <1>2, <1>7 DEF FeedInv, OnRecord
<1>11. (InLoop(poll) => /\ Ordered(poll, onRecord) /\ Handing(poll, onRecord)
                        /\ poll.acc.anchor.id # Null /\ AnchorFloor(poll.next, floor))'
  BY <1>1, <1>2, <1>3, <1>6 DEF InLoop, Ordered, Handing, AnchorFloor, InHand, Served,
     Serving, AboveOf
<1>12. /\ InLoop(poll)'
       /\ (poll.pc # "idle" =>
             (AnchorFloor(poll.acc.anchor, floor) /\
              (row.key # poll.acc.key => row.anchor.id = Null)))'
  BY <1>1, <1>2 DEF FeedInv, AnchorFloor, InLoop
<1>13. QED
  BY <1>1, <1>8, <1>9, <1>10, <1>11, <1>12 DEF FeedInv, AnchorFloor

\* Where a finished poll leaves the anchor: nothing new of its window that is not
\* after it lacks a record.
LEMMA AnchorsLeftServed ==
  ASSUME FeedInv, poll.pc = "loop", poll.todo = {}, NEW a \in AnchorsLeft
  PROVE  /\ a \in Anchors
         /\ AnchorFloor(a, floor)
         /\ a # row.anchor =>
              \A p \in AboveOf(poll, poll.window) :
                a.at # Null /\ Taken[p] <= a.at => Served(poll, onRecord, p)
<1>1. /\ Ordered(poll, onRecord) /\ poll.acc.anchor.id # Null /\ AnchorFloor(poll.next, floor)
      /\ AnchorFloor(row.anchor, floor) /\ AnchorFloor(poll.acc.anchor, floor)
  BY DEF FeedInv, InLoop
<1>2. /\ poll.next \in Anchors /\ row.anchor \in Anchors /\ floor \in Nat
      /\ poll.window \subseteq Media /\ poll.acc.anchor \in Anchors
      /\ poll.held \in Media \cup {Null}
  BY FeedTypes DEF PollShapes
<1>3. AboveOf(poll, poll.window) = Above(poll.window) /\ Above(poll.window) \subseteq Media
  BY <1>2 DEF AboveOf, Above
<1>4. CASE poll.held = Null
  <2>1. a = poll.next
    BY <1>4 DEF AnchorsLeft
  <2>2. QED
    BY <1>1, <1>2, <1>4, <2>1 DEF Ordered
<1> DEFINE below == {p \in Above(poll.window) : Taken[p] < Taken[poll.held]}
<1>5. CASE poll.held # Null /\ below = {}
  BY <1>1, <1>2, <1>5 DEF AnchorsLeft
<1>6. CASE poll.held # Null /\ below # {}
  <2>1. PICK q \in Latest(below) : a = At(q)
    BY <1>6 DEF AnchorsLeft
  <2>2. /\ q \in Media /\ q \in Above(poll.window) /\ Taken[q] < Taken[poll.held]
        /\ poll.held \in Media
    BY <1>2, <1>3, <1>6, <2>1 DEF Latest
  <2>3. a \in Anchors /\ a.at = Taken[q] /\ Taken[q] # Null
    BY <2>1, <2>2, AtAnchors
  <2>4. Taken[q] > floor
    <3>1. /\ Taken[q] \in Nat /\ Taken[q] > 0 /\ floor \in Nat
          /\ poll.acc.anchor.at \in Nat \cup {Null}
      BY <1>2, <2>2, PostTimes DEF Anchors
    <3>2. poll.acc.anchor.at # Null => Taken[q] > poll.acc.anchor.at
      BY <2>2 DEF Above
    <3>3. QED
      BY <1>1, <3>1, <3>2 DEF AnchorFloor
  <2>5. AnchorFloor(a, floor)
    BY <1>2, <2>2, <2>3, <2>4, PostTimes DEF AnchorFloor
  <2>6. ASSUME NEW p \in AboveOf(poll, poll.window), Taken[p] <= a.at
        PROVE  Served(poll, onRecord, p)
    <3>1. Taken[p] < Taken[poll.held]
      BY <1>3, <2>2, <2>3, <2>6, PostTimes
    <3>2. QED
      BY <1>1, <1>3, <2>2, <3>1, PostTimes DEF Ordered
  <2>7. QED
    BY <2>3, <2>5, <2>6
<1>7. QED
  BY <1>4, <1>5, <1>6

LEMMA FinishKeeps == ASSUME FeedInv, FinishPoll PROVE FeedInv'
<1>1. /\ poll.pc = "loop" /\ poll.todo = {} /\ EndPoll /\ floor' = floor
      /\ \E a \in AnchorsLeft : Mark(a)
  BY DEF FinishPoll
<1>2. PICK a \in AnchorsLeft : Mark(a)
  BY <1>1
<1>3. a \in Anchors /\ AnchorFloor(a, floor)
  BY <1>1, AnchorsLeftServed
<1>4. row' \in Rows /\ (row'.anchor = a \/ row'.anchor = row.anchor)
  BY <1>1, <1>2, <1>3, Marked
<1>5. AnchorFloor(row'.anchor, floor') /\ FeedTypeOK'
  BY <1>1, <1>3, <1>4, EndTypes, FeedTypes DEF FeedInv
<1>6. QED
  BY <1>1, <1>5, PollEnds

LEMMA CrashKeeps == ASSUME FeedInv, Crash PROVE FeedInv'
<1>1. /\ poll' = NoPoll /\ reloads' = reloads + 1
      /\ UNCHANGED <<now, deleted, row, bound, onRecord, cards, floor, ops>>
      /\ unrecorded' = IF poll.pc = "sent" THEN unrecorded \cup {<<poll.to, poll.post>>} ELSE unrecorded
  BY DEF Crash
<1>2. unrecorded \subseteq unrecorded' /\ unrecorded' \subseteq Outlets \X Media
  <2>1. CASE poll.pc = "sent"
    <3>1. poll.post \in Media /\ poll.to \in poll.left /\ poll.left \subseteq Outlets
      BY <2>1, InHandAboveFloor, FeedTypes
         DEF InHand, FeedInv, InLoop, Handing, Serving, PollShapes
    <3>2. QED
      BY <1>1, <2>1, <3>1 DEF FeedInv, FeedTypeOK
  <2>2. QED
    BY <1>1, <2>1 DEF FeedInv, FeedTypeOK
<1>3. poll' \in PollShapes /\ poll'.pc = "idle" /\ poll'.held = Null
  BY <1>1, NoPollIsIdle
<1>4. FeedTypeOK'
  BY <1>1, <1>2, <1>3 DEF FeedInv, FeedTypeOK, PollShapes
<1>5. PushedOnce'
  BY <1>1, <1>2 DEF FeedInv, PushedOnce
<1>6. \A s \in Outlets \X Media : OnRecord(s)'
  BY <1>1, <1>3 DEF FeedInv, OnRecord
<1>7. QED
  BY <1>1, <1>3, <1>4, <1>5, <1>6 DEF FeedInv, InLoop, AnchorFloor

LEMMA FeedStutters == ASSUME FeedInv, UNCHANGED vars PROVE FeedInv'
<1>1. UNCHANGED <<poll, onRecord, cards, unrecorded, row, floor>> /\ FeedTypeOK'
  BY DEF vars, FeedInv, FeedTypeOK
<1>2. /\ AnchorFloor(row'.anchor, floor')
      /\ poll.pc # "idle" /\ row'.key # poll.acc.key => row'.anchor.id = Null
  BY <1>1 DEF FeedInv
<1>3. QED
  BY <1>1, <1>2, FeedAside

LEMMA FeedStepKeeps == FeedInv /\ [FeedNext]_vars => FeedInv'
<1> SUFFICES ASSUME FeedInv, [FeedNext]_vars PROVE FeedInv'
  OBVIOUS
<1>1. CASE StartPoll
  BY <1>1, StartKeeps
<1>2. ASSUME FetchFails \/ FetchEmpty \/
             (\E w \in Windows : \E p \in w : Seed(w, p) \/ NothingNew(w, p))
      PROVE  FeedInv'
  BY <1>2, FetchingEnds
<1>3. ASSUME NEW w \in Windows, NEW p \in w, BeginPosts(w, p) PROVE FeedInv'
  BY <1>3, PostsBegin
<1>4. ASSUME NEW p \in Media, Skip(p) \/ Classify(p) PROVE FeedInv'
  BY <1>4, SkipKeeps, ClassifyKeeps
<1>5. CASE Undecided \/ Irrelevant \/ Relevant
  BY <1>5, UndecidedKeeps, IrrelevantKeeps, RelevantKeeps
<1>6. ASSUME NEW c \in Outlets, PushCard(c) \/ PublishFails(c) PROVE FeedInv'
  BY <1>6, DeliverKeeps, PublishFailsKeeps
<1>7. CASE CardRecorded \/ FinishPoll \/ Crash
  BY <1>7, DeliveredKeeps, FinishKeeps, CrashKeeps
<1>8. ASSUME AddAccount \/ RemoveAccount \/ ResetLastPost \/ Tick
             \/ (\E b \in BOOLEAN : SetPaused(b)) \/ (\E B \in SUBSET Outlets : Bind(B))
             \/ (\E p \in Media : Delete(p))
      PROVE  FeedInv'
  BY <1>8, CommandKeeps
<1>9. CASE UNCHANGED vars
  BY <1>9, FeedStutters
<1>10. QED
  BY <1>1, <1>2, <1>3, <1>4, <1>5, <1>6, <1>7, <1>8, <1>9 DEF FeedNext, PollStep

\* Only the end of a poll moves an anchor while its posts are in work, and only a
\* posted card changes what a channel shows.
LEMMA StepSkipsNothing ==
  FeedInv /\ [FeedNext]_vars => NothingSkippedNorBackfilled
<1> SUFFICES ASSUME FeedInv, [FeedNext]_vars PROVE NothingSkippedNorBackfilled
  OBVIOUS
<1>1. /\ UNCHANGED cards \/ \E c \in Outlets : PushCard(c)
      /\ \/ UNCHANGED row \/ poll.pc # "loop" \/ FinishPoll
         \/ AddAccount \/ RemoveAccount \/ ResetLastPost \/ \E b \in BOOLEAN : SetPaused(b)
  BY DEF FeedNext, PollStep, StartPoll, FetchFails, FetchEmpty, Seed, NothingNew,
     BeginPosts, Skip, Classify, Undecided, Irrelevant, Relevant, PushCard, CardRecorded,
     PublishFails, FinishPoll, EndPoll, Aside, Bind, Delete, Tick, Crash, vars, AddAccount,
     RemoveAccount, ResetLastPost, SetPaused
<1>2. ASSUME NEW s \in Outlets \X Media, cards'[s] # cards[s]
      PROVE  Taken[s[2]] > floor
  <2>1. PICK c \in Outlets : PushCard(c)
    BY <1>1, <1>2
  <2>2. /\ poll.pc = "publish" /\ InHand(poll)
        /\ cards' = [cards EXCEPT ![<<c, poll.post>>] = @ + 1]
    BY <2>1 DEF PushCard, InHand
  <2>3. s = <<c, poll.post>>
    BY <1>2, <2>2, FeedTypes
  <2>4. QED
    BY <2>2, <2>3, InHandAboveFloor
<1>3. ASSUME NEW p \in poll.window, poll.pc = "loop",
             row'.anchor # row.anchor, row'.anchor.at # Null,
             poll.acc.anchor.at # Null => Taken[p] > poll.acc.anchor.at,
             poll.acc.anchor.id \in poll.window => Taken[p] > Taken[poll.acc.anchor.id],
             Taken[p] <= row'.anchor.at
      PROVE  Served(poll, onRecord, p)
  <2>1. CASE FinishPoll
    <3>1. poll.todo = {} /\ \E a \in AnchorsLeft : Mark(a)
      BY <2>1 DEF FinishPoll
    <3>2. PICK a \in AnchorsLeft : Mark(a)
      BY <3>1
    <3>3. /\ a \in Anchors
          /\ a # row.anchor =>
               \A q \in AboveOf(poll, poll.window) :
                 a.at # Null /\ Taken[q] <= a.at => Served(poll, onRecord, q)
      BY <1>3, <3>1, AnchorsLeftServed
    <3>4. row'.anchor = a
      BY <1>3, <3>2, <3>3, Marked
    <3>5. p \in AboveOf(poll, poll.window)
      BY <1>3 DEF AboveOf
    <3>6. QED
      BY <1>3, <3>3, <3>4, <3>5
  <2>2. CASE AddAccount
    <3>1. row' = NewRow(ops + 2) /\ ops + 2 \in Nat
      BY <2>2, FeedTypes DEF AddAccount
    <3>2. QED
      BY <1>3, <3>1, Blanks
  <2>3. CASE RemoveAccount
    BY <1>3, <2>3, Blanks DEF RemoveAccount
  <2>4. CASE ResetLastPost
    BY <1>3, <2>4, Blanks, FeedTypes DEF ResetLastPost, Rows
  <2>5. CASE \E b \in BOOLEAN : SetPaused(b)
    BY <1>3, <2>5, FeedTypes DEF SetPaused, Rows
  <2>6. QED
    BY <1>1, <1>3, <2>1, <2>2, <2>3, <2>4, <2>5
<1>4. QED
  BY <1>2, <1>3 DEF NothingSkippedNorBackfilled, Served, HasSeen

\* What holds of an account, its poll and the records of its posts: a poll goes
\* through its new posts by their time and leaves each on record with every
\* channel, or with the first undecided one held; no anchor is older than what the
\* account was seeded to; and a card without a record is a crash's
\* (processAccount, markSeen).
THEOREM FeedInvariant == FeedSpec => []FeedInv
<1>1. FeedInit => FeedInv
  BY FeedStarts
<1>2. FeedInv /\ [FeedNext]_vars => FeedInv'
  BY FeedStepKeeps
<1>3. QED
  BY <1>1, <1>2, PTL DEF FeedSpec

\* A channel gets what it should get of an account, once: no post twice, none
\* skipped by an anchor that moves past it, and none from before the account was
\* seeded (processAccount).
THEOREM EachPostIsPushedOnce == FeedSpec => EachPostOnce
<1>1. FeedInv => PushedOnce
  BY DEF FeedInv
<1>2. FeedInv /\ [FeedNext]_vars => NothingSkippedNorBackfilled
  BY StepSkipsNothing
<1>3. QED
  BY <1>1, <1>2, FeedInvariant, PTL DEF FeedSpec, EachPostOnce
=============================================================================
