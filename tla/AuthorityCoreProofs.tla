-------------------------- MODULE AuthorityCoreProofs --------------------------
(***************************************************************************)
(* Theorems about AuthorityCore, for every instance of it: its state is    *)
(* well typed, its log runs ahead of its tables, and what has ended stays  *)
(* ended.  The invariant behind them, Inv, pairs each grant of the engine  *)
(* with its row of the log.  It is shown once per handler, of all the      *)
(* points the handler has: whether the handler completes, is cut short by  *)
(* a full log or crashes then needs no argument of its own.                *)
(***************************************************************************)
EXTENDS AuthorityLemmas

-------------------------------------------------------------------------------
(* The invariant *)

\* What the log may hold of a grant: a prepare is not a commit.
Logged(row) ==
  /\ row.state = "Prepared" => row.commit = "Prepared"
  /\ HoldsCapacity(row.state) => row.commit # "Prepared"

\* How a grant of the engine relates to its row in the log.
Covered(grant, row) ==
  /\ grant.state # "Prepared"
  /\ HoldsCapacity(grant.state) =>
       /\ grant.commit # "Prepared"
       /\ HoldsCapacity(row.state)
       /\ SameReservation(grant, row)
  /\ IsTerminal(grant.state) => row.state \in {grant.state, "Prepared"}
  /\ IsTerminal(row.state) => grant.state = row.state

ImageOK(image) ==
  /\ \A g \in GrantIds : Logged(image.grants[g])
  /\ image.spec.bound \/ image.grants = NoGrants

\* The log covers the engine, and ids the engine has still to mint are new to both.
Covers(image, engine) ==
  /\ \A g \in GrantIds : Covered(engine.grants[g], image.grants[g])
  /\ \A g \in GrantIds :
       g > engine.serial => /\ engine.grants[g].state = "Absent"
                            /\ image.grants[g].state = "Absent"
  /\ engine.spec.bound /\ image.spec.bound

\* What the log has ended so far stays ended.
Keeps(image) ==
  \A g \in GrantIds :
    IsTerminal(disk.grants[g].state) => image.grants[g].state = disk.grants[g].state

\* What engine and log owe each other at every point of a handler.
Agree(engine, image) == ImageOK(image) /\ Covers(image, engine) /\ Keeps(image)

Safe(point) == Agree(point.mem, point.disk)

PointType == [mem : Engine, disk : Image, reply : Outcomes \cup {None}]

SafePoints == {p \in PointType : sink = "journal" => Safe(p)}

HistoryOK ==
  /\ answered \in [Attempts -> Outcomes \cup {None}]
  /\ acks \in [GrantIds -> {"none", "sent", "accepted"}]

CoreInv ==
  /\ up \in BOOLEAN
  /\ sink \in IF up THEN {"journal", "memory"} ELSE {"none"}
  /\ mem \in Engine /\ disk \in Image
  /\ used \in 0..JournalBound /\ starts \in 0..MaxStarts
  /\ ImageOK(disk)
  /\ sink = "journal" => Covers(disk, mem)

Inv == CoreInv /\ HistoryOK

-------------------------------------------------------------------------------
(* Running the points of a handler *)

LEMMA PointFields ==
  ASSUME NEW engine \in Engine, NEW image \in Image, NEW reply \in Outcomes \cup {None}
  PROVE  /\ Point(engine, image, reply) \in PointType
         /\ Point(engine, image, reply).mem = engine
         /\ Point(engine, image, reply).disk = image
         /\ Point(engine, image, reply).reply = reply
  BY DEF Point, PointType

LEMMA PointSafe ==
  ASSUME NEW engine \in Engine, NEW image \in Image, NEW reply \in Outcomes \cup {None},
         sink = "journal" => Agree(engine, image)
  PROVE  Point(engine, image, reply) \in SafePoints
  BY PointFields DEF SafePoints, Safe

LEMMA NoEngineType == NoEngine \in Engine
<1>1. \A ids, Row : EmptyTable(ids) \in Table(ids, Row)
  BY DEF EmptyTable, Table
<1>2. UnboundSpec \in ClusterSpecs
  BY <1>1 DEF UnboundSpec, ClusterSpecs
<1>3. NoGrant \in Grant
  BY DEF NoGrant, Grant, GrantStates, CommitStates
<1>4. NoAttempt \in Attempt
  BY DEF NoAttempt, Attempt, Outcomes, Digest
<1>5. NoGrants \in [GrantIds -> Grant] /\ NoAttempts \in [Attempts -> Attempt]
  BY <1>3, <1>4 DEF NoGrants, NoAttempts
<1>. QED BY <1>1, <1>2, <1>5 DEF NoEngine, Engine

\* A handler comes to one of its points, and the log stays within its bound.
LEMMA ReachedType ==
  ASSUME used \in 0..JournalBound, NEW S, NEW points \in Seq(S), Len(points) >= 1,
         NEW records
  PROVE  /\ Reached(points, records) \in 1..Len(points)
         /\ records => \A n \in 1..Reached(points, records) : Recorded(n) \in 0..JournalBound
<1>1. JournalBound \in Nat /\ Len(points) \in Nat
  BY CoreAssumption
<1>2. CASE JournalBound = 0 \/ ~records
  BY <1>1, <1>2 DEF Reached, Recorded
<1>3. CASE ~(JournalBound = 0 \/ ~records)
  <2>1. Reached(points, records) = Least(Len(points), 1 + JournalBound - used)
    BY <1>1, <1>3 DEF Reached, Least
  <2>. QED BY <1>1, <1>3, <2>1 DEF Least, Recorded
<1>. QED BY <1>2, <1>3

\* What the log has ended stays ended through this step.
KeepsEnded ==
  \A g \in GrantIds :
    IsTerminal(disk.grants[g].state) => disk'.grants[g].state = disk.grants[g].state

LEMMA CompletesSafe ==
  ASSUME CoreInv, up, NEW points \in Seq(SafePoints), Len(points) >= 1,
         Completes(points)
  PROVE  CoreInv' /\ KeepsEnded
<1>. DEFINE n == Reached(points, sink = "journal")
<1>0. /\ n \in 1..Len(points)
      /\ sink = "journal" => \A k \in 1..n : Recorded(k) \in 0..JournalBound
  BY ReachedType DEF CoreInv
<1>1. /\ n \in 1..Len(points)
      /\ sink = "journal" => Recorded(n) \in 0..JournalBound
  <2>. HIDE DEF n
  <2>1. n \in 1..n
    BY <1>0
  <2>. QED BY <1>0, <2>1
<1>2. points[n] \in SafePoints
  BY <1>1
<1>3. /\ mem' = points[n].mem
      /\ Persists(points, n, sink = "journal")
      /\ UNCHANGED <<up, sink, starts>>
  BY DEF Completes
<1>. HIDE DEF n
<1>4. mem' \in Engine /\ points[n].disk \in Image
  BY <1>2, <1>3 DEF SafePoints, PointType
<1>5. CASE sink = "journal"
  <2>1. Safe(points[n])
    BY <1>2, <1>5 DEF SafePoints
  <2>2. disk' = points[n].disk /\ used' = Recorded(n)
    BY <1>3, <1>5 DEF Persists
  <2>3. ImageOK(disk') /\ Covers(disk', mem') /\ KeepsEnded
    BY <2>1, <2>2, <1>3 DEF Safe, Agree, Keeps, KeepsEnded
  <2>. QED BY <1>1, <1>3, <1>4, <1>5, <2>2, <2>3 DEF CoreInv, ImageOK, Covers
<1>6. CASE sink # "journal"
  <2>1. disk' = disk /\ used' = used
    BY <1>3, <1>6 DEF Persists
  <2>. QED BY <1>3, <1>4, <1>6, <2>1 DEF CoreInv, ImageOK, KeepsEnded
<1>. QED BY <1>5, <1>6

LEMMA FallsSafe ==
  ASSUME CoreInv, Falls, UNCHANGED starts,
         disk' \in Image, ImageOK(disk'), used' \in 0..JournalBound
  PROVE  CoreInv'
<1>1. up' = FALSE /\ sink' = "none" /\ mem' \in Engine
  BY NoEngineType DEF Falls
<1>. QED BY <1>1 DEF CoreInv, ImageOK

LEMMA CrashesSafe ==
  ASSUME CoreInv, NEW points \in Seq(SafePoints), Len(points) >= 1, CrashesIn(points)
  PROVE  CoreInv' /\ KeepsEnded
<1>1. PICK n \in 1..Reached(points, sink = "journal") :
        Persists(points, n, sink = "journal")
  BY DEF CrashesIn
<1>2. /\ n \in 1..Len(points)
      /\ sink = "journal" => Recorded(n) \in 0..JournalBound
  BY <1>1, ReachedType DEF CoreInv
<1>3. points[n] \in SafePoints
  BY <1>2
<1>4. Falls /\ UNCHANGED starts
  BY DEF CrashesIn
<1>5. CASE sink = "journal"
  <2>1. points[n].disk \in Image /\ Safe(points[n])
    BY <1>3, <1>5 DEF SafePoints, PointType
  <2>2. disk' = points[n].disk /\ used' = Recorded(n)
    BY <1>1, <1>5 DEF Persists
  <2>3. disk' \in Image /\ ImageOK(disk') /\ KeepsEnded
    BY <2>1, <2>2 DEF Safe, Agree, Keeps, KeepsEnded
  <2>. QED BY <1>2, <1>4, <1>5, <2>2, <2>3, FallsSafe
<1>6. CASE sink # "journal"
  <2>1. disk' = disk /\ used' = used
    BY <1>1, <1>6 DEF Persists
  <2>2. disk' \in Image /\ ImageOK(disk') /\ used' \in 0..JournalBound
    BY <2>1 DEF CoreInv, ImageOK
  <2>3. KeepsEnded
    BY <2>1 DEF KeepsEnded
  <2>. QED BY <1>4, <2>2, <2>3, FallsSafe
<1>. QED BY <1>5, <1>6

LEMMA PerformsSafe ==
  ASSUME Inv, up, NEW points \in Seq(SafePoints), Len(points) >= 1, Performs(points)
  PROVE  Inv' /\ KeepsEnded
<1>1. CASE Completes(points) /\ UNCHANGED <<answered, acks>>
  BY <1>1, CompletesSafe DEF Inv, HistoryOK
<1>2. CASE CrashesIn(points) /\ UNCHANGED acks
  <2>1. UNCHANGED answered
    BY <1>2 DEF CrashesIn, Falls
  <2>. QED BY <1>2, <2>1, CrashesSafe DEF Inv, HistoryOK
<1>. QED BY <1>1, <1>2 DEF Performs

LEMMA AnswersSafe ==
  ASSUME Inv, up, NEW points \in Seq(SafePoints), Len(points) >= 1, NEW attempt,
         Answers(points, attempt)
  PROVE  Inv' /\ KeepsEnded
<1>1. CASE /\ Completes(points)
           /\ answered' = [answered EXCEPT
                             ![attempt] = points[Reached(points, sink = "journal")].reply]
           /\ UNCHANGED acks
  <2>. DEFINE n == Reached(points, sink = "journal")
  <2>1. n \in 1..Len(points)
    BY ReachedType DEF Inv, CoreInv
  <2>2. points[n].reply \in Outcomes \cup {None}
    BY <2>1 DEF SafePoints, PointType
  <2>. HIDE DEF n
  <2>3. answered' \in [Attempts -> Outcomes \cup {None}]
    BY <1>1, <2>2 DEF Inv, HistoryOK, n
  <2>. QED BY <1>1, <2>3, CompletesSafe DEF Inv, HistoryOK
<1>2. CASE CrashesIn(points) /\ UNCHANGED acks
  <2>1. UNCHANGED answered
    BY <1>2 DEF CrashesIn, Falls
  <2>. QED BY <1>2, <2>1, CrashesSafe DEF Inv, HistoryOK
<1>. QED BY <1>1, <1>2 DEF Answers

-------------------------------------------------------------------------------
(* Loops over grants *)

\* A row the engine may carry as the log has it.
Own(row) == Covered(row, row) /\ Logged(row)

\* The engine and the log go on to next and written: the grants in ids come to
\* rows in the engine and to logged in the log, the others stay.
Moves(engine, image, next, written, ids, rows, logged) ==
  /\ \A g \in GrantIds :
       next.grants[g] = IF g \in ids THEN rows[g] ELSE engine.grants[g]
  /\ \A g \in GrantIds :
       written.grants[g] = IF g \in ids THEN logged[g] ELSE image.grants[g]
  /\ next.serial >= engine.serial
  /\ next.spec.bound = engine.spec.bound
  /\ written.spec.bound = image.spec.bound
  /\ \A g \in GrantIds : g \in ids =>
       /\ ~IsTerminal(image.grants[g].state)
       /\ g <= next.serial
       /\ Covered(rows[g], logged[g])
       /\ Logged(logged[g])

\* Changing some grants in the engine and in the log, to rows the log covers,
\* is safe for grants the log has not ended and the engine has minted.
LEMMA RowsSafe ==
  ASSUME NEW engine \in Engine, NEW next \in Engine, NEW image, NEW written,
         NEW ids, NEW rows, NEW logged,
         Agree(engine, image),
         Moves(engine, image, next, written, ids, rows, logged)
  PROVE  Agree(next, written)
<1>. USE EligibilityAssumption DEF Moves, Agree
<1>0. engine.serial \in Nat /\ next.serial \in Nat
  BY EngineFields
<1>1. \A g \in GrantIds : Logged(written.grants[g])
  BY DEF ImageOK
<1>2. written.spec.bound
  BY DEF Covers
<1>3. \A g \in GrantIds : Covered(next.grants[g], written.grants[g])
  BY DEF Covers
<1>4. ASSUME NEW g \in GrantIds, g > next.serial
      PROVE  next.grants[g].state = "Absent" /\ written.grants[g].state = "Absent"
  <2>1. g \notin ids /\ g > engine.serial
    BY <1>0, <1>4
  <2>. QED BY <2>1 DEF Covers
<1>5. next.spec.bound
  BY DEF Covers
<1>6. \A g \in GrantIds :
        IsTerminal(disk.grants[g].state) => written.grants[g].state = disk.grants[g].state
  BY DEF Keeps
<1>. QED BY <1>1, <1>2, <1>3, <1>4, <1>5, <1>6 DEF ImageOK, Covers, Keeps

\* What holds capacity is minted, and the log has not ended it.
LEMMA HeldRow ==
  ASSUME NEW engine \in Engine, NEW image, Covers(image, engine),
         NEW g \in GrantIds, HoldsCapacity(engine.grants[g].state)
  PROVE  /\ ~IsTerminal(image.grants[g].state)
         /\ g <= engine.serial
         /\ engine.grants[g].commit # "Prepared"
<1>1. Covered(engine.grants[g], image.grants[g])
  BY DEF Covers
<1>2. ~IsTerminal(engine.grants[g].state)
  BY DEF HoldsCapacity, IsTerminal, IsQuarantined
<1>3. g \in Nat /\ engine.serial \in Nat
  BY EligibilityAssumption, EngineFields
<1>4. ~(g > engine.serial)
  BY DEF Covers, HoldsCapacity, IsQuarantined
<1>. QED BY <1>1, <1>2, <1>3, <1>4 DEF Covered

\* A grant the engine carries that has not ended holds capacity.
LEMMA Holding ==
  ASSUME NEW engine \in Engine, NEW image, Covers(image, engine),
         NEW g \in GrantIds, engine.grants[g].state # "Absent",
         ~IsTerminal(engine.grants[g].state)
  PROVE  HoldsCapacity(engine.grants[g].state)
<1>1. engine.grants[g] \in Grant
  BY EngineFields
<1>2. engine.grants[g].state \in GrantStates
  BY <1>1 DEF Grant
<1>3. engine.grants[g].state # "Prepared"
  BY DEF Covers, Covered
<1>. QED BY <1>2, <1>3 DEF GrantStates, IsTerminal, HoldsCapacity, IsQuarantined

LEMMA CountType ==
  ASSUME NEW ids \in SUBSET GrantIds
  PROVE  Cardinality(ids) \in Nat
  BY EligibilityAssumption, FS_Subset, FS_CardinalityType

LEMMA PointSequence ==
  ASSUME NEW k \in Nat, NEW S, NEW f \in [1..k -> S]
  PROVE  f \in Seq(S) /\ Len(f) = k
  OBVIOUS

LEMMA RevalidatedOwn ==
  ASSUME NEW engine \in Engine, NEW grant \in Grant
  PROVE  Own(Revalidated(engine, grant))
<1>1. \/ /\ Revalidated(engine, grant).state = "Committed"
         /\ Revalidated(engine, grant).commit = "Committed"
      \/ Revalidated(engine, grant).state = "Revoked"
  BY RevalidatedType
<1>. QED BY <1>1 DEF Own, Covered, Logged, SameReservation, HoldsCapacity, IsQuarantined,
                    IsTerminal

LEMMA TerminatedOwn ==
  ASSUME NEW grant \in Grant, NEW state \in GrantStates, IsTerminal(state)
  PROVE  Own(Terminated(grant, state))
<1>1. Terminated(grant, state).state = state
  BY TerminatedType
<1>. QED BY <1>1 DEF Own, Covered, Logged, SameReservation, HoldsCapacity, IsQuarantined,
                    IsTerminal

LEMMA SweepSafe ==
  ASSUME NEW engine \in Engine, NEW image \in Image, NEW targets \in SUBSET GrantIds,
         NEW rows \in [GrantIds -> Grant],
         \A g \in targets : Own(rows[g]),
         sink = "journal" =>
           /\ Agree(engine, image)
           /\ \A g \in targets : HoldsCapacity(engine.grants[g].state)
  PROVE  /\ Sweep(engine, image, targets, rows) \in Seq(SafePoints)
         /\ Len(Sweep(engine, image, targets, rows)) >= 1
<1>. DEFINE point(done) == Point([engine EXCEPT !.grants = Rewritten(@, done, rows)],
                                 WriteGrants(image, done, rows, engine.tick), None)
            k == Cardinality(targets) + 1
<1>1. k \in Nat /\ k >= 1
  BY CountType
<1>2. ASSUME NEW done \in SUBSET targets PROVE point(done) \in SafePoints
  <2>. DEFINE grants == Rewritten(engine.grants, done, rows)
              next == [engine EXCEPT !.grants = grants]
              written == WriteGrants(image, done, rows, engine.tick)
  <2>1. /\ grants \in [GrantIds -> Grant]
        /\ \A g \in GrantIds : grants[g] = IF g \in done THEN rows[g] ELSE engine.grants[g]
    <3>1. engine.grants \in [GrantIds -> Grant]
      BY EngineFields
    <3>. QED BY <3>1 DEF Rewritten
  <2>2. [engine EXCEPT !.grants = Rewritten(@, done, rows)] = next
    BY DEF Engine
  <2>. HIDE DEF grants
  <2>3. /\ next \in Engine /\ next.grants = grants
        /\ next.serial = engine.serial /\ next.spec = engine.spec
    BY <2>1, EngineGrants
  <2>4. engine.tick \in Nat /\ done \in SUBSET GrantIds
    BY EngineFields
  <2>5. /\ written \in Image
        /\ \A g \in GrantIds :
             written.grants[g] = IF g \in done THEN rows[g] ELSE image.grants[g]
        /\ written.spec = image.spec
    BY <2>4, WriteGrantsType
  <2>. HIDE DEF next, written
  <2>6. ASSUME sink = "journal"
        PROVE  Agree(next, written)
    <3>1. \A g \in GrantIds : g \in done =>
             /\ ~IsTerminal(image.grants[g].state)
             /\ g <= next.serial
             /\ Covered(rows[g], rows[g])
             /\ Logged(rows[g])
      <4>1. ASSUME NEW g \in GrantIds, g \in done
            PROVE  ~IsTerminal(image.grants[g].state) /\ g <= engine.serial
        BY <2>6, <4>1, HeldRow DEF Agree
      <4>. QED BY <2>3, <4>1 DEF Own
    <3>2. next.serial >= engine.serial
      BY <2>3, EngineFields
    <3>3. /\ next.spec.bound = engine.spec.bound
          /\ written.spec.bound = image.spec.bound
      BY <2>3, <2>5
    <3>4. \A g \in GrantIds :
            next.grants[g] = IF g \in done THEN rows[g] ELSE engine.grants[g]
      BY <2>1, <2>3
    <3>5. \A g \in GrantIds :
            written.grants[g] = IF g \in done THEN rows[g] ELSE image.grants[g]
      BY <2>5
    <3>6. Moves(engine, image, next, written, done, rows, rows)
      BY <3>1, <3>2, <3>3, <3>4, <3>5 DEF Moves
    <3>7. Agree(engine, image)
      BY <2>6
    <3>. QED BY <2>3, <3>6, <3>7, RowsSafe
  <2>7. Point(next, written, None) \in SafePoints
    BY <2>3, <2>5, <2>6, PointSafe
  <2>. QED BY <2>2, <2>7 DEF written
<1>3. \A n \in 1..k : Earliest(targets, n - 1) \in SUBSET targets
  BY DEF Earliest
<1>4. Sweep(engine, image, targets, rows) = [n \in 1..k |-> point(Earliest(targets, n - 1))]
  BY DEF Sweep
<1>. HIDE DEF point, k
<1>5. [n \in 1..k |-> point(Earliest(targets, n - 1))] \in [1..k -> SafePoints]
  BY <1>2, <1>3
<1>6. /\ Sweep(engine, image, targets, rows) \in Seq(SafePoints)
      /\ Len(Sweep(engine, image, targets, rows)) = k
  BY <1>1, <1>4, <1>5, PointSequence
<1>. QED BY <1>1, <1>6

LEMMA ReboundType ==
  ASSUME NEW engine \in Engine, NEW ids \in SUBSET GrantIds
  PROVE  /\ Rebound(engine, ids) \in [Attempts -> Attempt]
         /\ \A a \in Attempts : a \in AttemptsOf(engine.grants, ids) =>
              Rebound(engine, ids)[a].grant \in GrantIds
<1>. DEFINE new(a) == [engine.attempts[a] EXCEPT
                        !.known = TRUE, !.grant = GrantOf(engine.grants, ids, a)]
<1>1. engine.attempts \in [Attempts -> Attempt]
  BY EngineFields
<1>2. ASSUME NEW a \in Attempts, a \in AttemptsOf(engine.grants, ids)
      PROVE  new(a) \in Attempt /\ new(a).grant \in GrantIds
  <2>1. \E g \in ids : engine.grants[g].attempt = a
    BY <1>2 DEF AttemptsOf
  <2>2. GrantOf(engine.grants, ids, a) \in GrantIds
    BY <2>1 DEF GrantOf
  <2>3. engine.attempts[a] \in Attempt
    BY <1>1
  <2>. QED BY <2>2, <2>3 DEF Attempt
<1>3. \A a \in Attempts :
        Rebound(engine, ids)[a] = IF a \in AttemptsOf(engine.grants, ids) THEN new(a)
                                  ELSE engine.attempts[a]
  BY DEF Rebound
<1>4. \A a \in Attempts : Rebound(engine, ids)[a] \in Attempt
  <2>. HIDE DEF new
  <2>. QED BY <1>1, <1>2, <1>3
<1>5. \A a \in Attempts : a \in AttemptsOf(engine.grants, ids) =>
        Rebound(engine, ids)[a].grant \in GrantIds
  <2>. HIDE DEF new
  <2>. QED BY <1>2, <1>3
<1>6. Rebound(engine, ids) = [a \in Attempts |-> Rebound(engine, ids)[a]]
  BY DEF Rebound
<1>. QED BY <1>4, <1>5, <1>6

LEMMA ExpirySafe ==
  ASSUME NEW engine \in Engine, NEW image \in Image,
         sink = "journal" => Agree(engine, image)
  PROVE  /\ Expiry(engine, image) \in Seq(SafePoints)
         /\ Len(Expiry(engine, image)) >= 1
<1>. DEFINE expired == Expired(engine)
            rows == AllTerminated(engine, "Expired")
            rebound(noted) == Rebound(engine, noted)
            point(ended, noted) ==
              Point([engine EXCEPT !.grants = Rewritten(@, ended, rows),
                                   !.attempts = rebound(noted)],
                    WriteAttempts(WriteGrants(image, ended, rows, engine.tick),
                                  AttemptsOf(engine.grants, noted), rebound(noted),
                                  engine.tick),
                    None)
            k == 2 * Cardinality(expired) + 1
<1>1. expired \in SUBSET GrantIds /\ \A g \in expired : IsLive(engine.grants[g].state)
  BY DEF Expired, Live
<1>2. k \in Nat /\ k >= 1
  BY <1>1, CountType
<1>3. engine.grants \in [GrantIds -> Grant] /\ engine.tick \in Nat /\ engine.serial \in Nat
  BY EngineFields
<1>4. /\ rows \in [GrantIds -> Grant]
      /\ \A g \in GrantIds : Own(rows[g])
  BY <1>3, TerminatedType, TerminatedOwn DEF AllTerminated, GrantStates, IsTerminal
<1>. HIDE DEF rows, k
<1>5. ASSUME NEW ended \in SUBSET expired, NEW noted \in SUBSET expired
      PROVE  point(ended, noted) \in SafePoints
  <2>. DEFINE grants == Rewritten(engine.grants, ended, rows)
              attempts == rebound(noted)
              next == [engine EXCEPT !.grants = grants, !.attempts = attempts]
              middle == WriteGrants(image, ended, rows, engine.tick)
              written == WriteAttempts(middle, AttemptsOf(engine.grants, noted), attempts,
                                       engine.tick)
  <2>1. /\ grants \in [GrantIds -> Grant]
        /\ \A g \in GrantIds : grants[g] = IF g \in ended THEN rows[g] ELSE engine.grants[g]
    BY <1>3, <1>4 DEF Rewritten
  <2>2. attempts \in [Attempts -> Attempt]
    BY <1>1, ReboundType
  <2>3. point(ended, noted) = Point(next, written, None)
    BY DEF Engine
  <2>. HIDE DEF grants, attempts
  <2>4. /\ next \in Engine /\ next.grants = grants
        /\ next.serial = engine.serial /\ next.spec = engine.spec
    BY <2>1, <2>2 DEF Engine
  <2>5. /\ middle \in Image
        /\ \A g \in GrantIds :
             middle.grants[g] = IF g \in ended THEN rows[g] ELSE image.grants[g]
        /\ middle.spec = image.spec
    <3>1. ended \in SUBSET GrantIds
      BY <1>1
    <3>. QED BY <1>3, <1>4, <3>1, WriteGrantsType
  <2>. HIDE DEF next, middle
  <2>6. /\ written \in Image /\ written.grants = middle.grants
        /\ written.spec = middle.spec
    BY <1>3, <2>2, <2>5, WriteAttemptsType
  <2>. HIDE DEF written
  <2>7. ASSUME sink = "journal"
        PROVE  Agree(next, written)
    <3>1. ASSUME NEW g \in GrantIds, g \in ended
          PROVE  ~IsTerminal(image.grants[g].state) /\ g <= engine.serial
      <4>1. IsLive(engine.grants[g].state)
        BY <1>1, <3>1
      <4>2. HoldsCapacity(engine.grants[g].state)
        BY <2>7, <4>1, Holding DEF Agree, IsLive, IsTerminal
      <4>. QED BY <2>7, <4>2, HeldRow DEF Agree
    <3>2. \A g \in GrantIds : Covered(rows[g], rows[g]) /\ Logged(rows[g])
      BY <1>4 DEF Own
    <3>3. Moves(engine, image, next, written, ended, rows, rows)
      BY <1>3, <2>1, <2>4, <2>5, <2>6, <3>1, <3>2 DEF Moves
    <3>4. Agree(engine, image)
      BY <2>7
    <3>. QED BY <2>4, <3>3, <3>4, RowsSafe
  <2>8. Point(next, written, None) \in SafePoints
    BY <2>4, <2>6, <2>7, PointSafe
  <2>. QED BY <2>3, <2>8
<1>6. \A n \in 1..k : /\ Earliest(expired, n \div 2) \in SUBSET expired
                      /\ Earliest(expired, (n - 1) \div 2) \in SUBSET expired
  BY DEF Earliest
<1>7. Expiry(engine, image) =
        [n \in 1..k |-> point(Earliest(expired, n \div 2), Earliest(expired, (n - 1) \div 2))]
  BY DEF Expiry, k, rows
<1>. HIDE DEF point, expired
<1>8. [n \in 1..k |-> point(Earliest(expired, n \div 2), Earliest(expired, (n - 1) \div 2))]
        \in [1..k -> SafePoints]
  BY <1>5, <1>6
<1>9. /\ Expiry(engine, image) \in Seq(SafePoints)
      /\ Len(Expiry(engine, image)) = k
  BY <1>2, <1>7, <1>8, PointSequence
<1>. QED BY <1>2, <1>9

-------------------------------------------------------------------------------
(* One grant *)

\* Moves, of the single grant id.
MovesOne(engine, image, next, written, id, grant, row) ==
  /\ \A g \in GrantIds :
       next.grants[g] = IF g \in {id} THEN grant ELSE engine.grants[g]
  /\ \A g \in GrantIds :
       written.grants[g] = IF g \in {id} THEN row ELSE image.grants[g]
  /\ next.serial >= engine.serial
  /\ next.spec.bound = engine.spec.bound
  /\ written.spec.bound = image.spec.bound
  /\ ~IsTerminal(image.grants[id].state)
  /\ id <= next.serial
  /\ Covered(grant, row)
  /\ Logged(row)

LEMMA RowSafe ==
  ASSUME NEW engine \in Engine, NEW next \in Engine, NEW image, NEW written,
         NEW id, NEW grant, NEW row,
         Agree(engine, image),
         MovesOne(engine, image, next, written, id, grant, row)
  PROVE  Agree(next, written)
<1>. DEFINE rows == [g \in GrantIds |-> grant]
            logged == [g \in GrantIds |-> row]
<1>1. Moves(engine, image, next, written, {id}, rows, logged)
  BY DEF MovesOne, Moves
<1>. HIDE DEF rows, logged
<1>. QED BY <1>1, RowsSafe

\* The invariant agrees with a log no record was added to, and attempts and the
\* rest of the tables do not matter to it.
LEMMA SameSafe ==
  ASSUME NEW engine, NEW next, NEW image, NEW written, Agree(engine, image),
         next.grants = engine.grants, next.serial = engine.serial,
         next.spec.bound = engine.spec.bound,
         written.grants = image.grants, written.spec.bound = image.spec.bound
  PROVE  Agree(next, written)
  BY DEF Agree, ImageOK, Covers, Keeps

LEMMA StartSafe ==
  ASSUME CoreInv
  PROVE  sink = "journal" => Agree(mem, disk)
  BY DEF CoreInv, Agree, Keeps

LEMMA TwoPoints ==
  ASSUME NEW S, NEW p \in S, NEW q \in S
  PROVE  << p, q >> \in Seq(S) /\ Len(<< p, q >>) = 2
  OBVIOUS

LEMMA OnePoint ==
  ASSUME NEW S, NEW p \in S
  PROVE  << p >> \in Seq(S) /\ Len(<< p >>) = 1
  OBVIOUS

LEMMA JoinPoints ==
  ASSUME NEW S, NEW s \in Seq(S), NEW t \in Seq(S), Len(s) >= 1 \/ Len(t) >= 1
  PROVE  s \o t \in Seq(S) /\ Len(s \o t) >= 1
  OBVIOUS

-------------------------------------------------------------------------------
(* Submitting *)

LEMMA GrantPointsSafe ==
  ASSUME CoreInv, NEW request \in Requests, NEW view \in View,
         Decision(request).outcome \in Authorising, mem.serial + 1 \in GrantIds
  PROVE  LET points == GrantPoints(request, view, Decision(request))
         IN  points \in Seq(SafePoints) /\ Len(points) >= 1
<1>. DEFINE decision == Decision(request)
            id       == mem.serial + 1
            counter  == Greatest(mem.counter, id)
            minted   == [mem EXCEPT !.serial = id, !.counter = counter]
            grant    == NewGrant(request, decision)
            row      == [grant EXCEPT !.state = "Prepared", !.commit = "Prepared"]
            prepared == WriteGrant(disk, id, row, mem.tick)
            commit   == WriteGrant(prepared, id, grant, mem.tick)
            digest   == [request |-> request, view |-> view]
            attempt  == [NoAttempt EXCEPT !.known = TRUE, !.grant = id,
                                          !.outcome = decision.outcome, !.digest = digest]
            granted  == WithGrant(minted, id, grant)
            held     == WithAttempt(granted, request.attempt, attempt)
            noted    == WriteAttempt(commit, request.attempt, attempt, mem.tick)
<1>1. /\ mem \in Engine /\ disk \in Image /\ mem.tick \in Nat /\ mem.serial \in Nat
      /\ mem.counter \in Nat
  BY EngineFields DEF CoreInv
<1>2. request \in Request /\ request.attempt \in Attempts
  BY CoreAssumption DEF Request
<1>3. decision.outcome \in Outcomes
  BY <1>1, <1>2, DecisionType
<1>4. /\ grant \in Grant
      /\ grant.state = "Committed" /\ grant.commit = "Committed"
  BY <1>1, <1>2, NewGrantType
<1>. HIDE DEF decision, grant
<1>5. /\ row \in Grant /\ row.state = "Prepared" /\ row.commit = "Prepared"
  <2>1. row \in Grant
    <3>1. "Prepared" \in GrantStates /\ "Prepared" \in CommitStates
      BY DEF GrantStates, CommitStates
    <3>. QED BY <1>4, <3>1, GrantUpdates
  <2>2. row.state = "Prepared"
    BY <1>4 DEF Grant
  <2>3. row.commit = "Prepared"
    BY <1>4 DEF Grant
  <2>. QED BY <2>1, <2>2, <2>3
<1>. HIDE DEF row
<1>6. digest \in Digest
  BY DEF Digest
<1>. HIDE DEF digest
<1>7. attempt \in Attempt
  BY <1>3, <1>6 DEF NoAttempt, Attempt
<1>. HIDE DEF attempt
<1>8. counter \in Nat
  BY <1>1 DEF Greatest
<1>. HIDE DEF counter
<1>9. /\ minted \in Engine /\ minted.grants = mem.grants /\ minted.serial = id
      /\ minted.spec = mem.spec /\ minted.attempts = mem.attempts
  <2>1. id \in Nat
    BY <1>1
  <2>2. minted \in Engine
    BY <1>1, <1>8, <2>1 DEF Engine
  <2>3. /\ minted.grants = mem.grants /\ minted.serial = id
        /\ minted.spec = mem.spec /\ minted.attempts = mem.attempts
    BY <1>1 DEF Engine
  <2>. QED BY <2>2, <2>3
<1>. HIDE DEF minted
<1>10. /\ granted \in Engine
       /\ \A g \in GrantIds :
            granted.grants[g] = IF g \in {id} THEN grant ELSE minted.grants[g]
       /\ granted.serial = minted.serial /\ granted.spec = minted.spec
  BY <1>4, <1>9, EngineGrant
<1>. HIDE DEF granted
<1>11. /\ held \in Engine /\ held.grants = granted.grants
       /\ held.serial = granted.serial /\ held.spec = granted.spec
  BY <1>7, <1>10, EngineAttempt
<1>. HIDE DEF held
<1>12. /\ prepared \in Image
       /\ \A g \in GrantIds :
            prepared.grants[g] = IF g \in {id} THEN row ELSE disk.grants[g]
       /\ prepared.spec = disk.spec
  BY <1>1, <1>5, WriteGrantType, SMTT(20)
<1>. HIDE DEF prepared
<1>13. /\ commit \in Image
       /\ \A g \in GrantIds :
            commit.grants[g] = IF g \in {id} THEN grant ELSE prepared.grants[g]
       /\ commit.spec = prepared.spec
  <2>1. prepared \in Image
    BY <1>12
  <2>2. grant \in Grant /\ mem.tick \in Nat /\ id \in GrantIds
    BY <1>1, <1>4
  <2>. HIDE DEF id
  <2>. QED BY <2>1, <2>2, WriteGrantType
<1>. HIDE DEF commit
<1>14. /\ noted \in Image /\ noted.grants = commit.grants /\ noted.spec = commit.spec
  BY <1>1, <1>7, <1>13, WriteAttemptType
<1>. HIDE DEF noted
<1>15. ASSUME sink = "journal"
       PROVE  /\ Agree(minted, disk) /\ Agree(minted, prepared) /\ Agree(minted, commit)
              /\ Agree(held, commit) /\ Agree(held, noted)
  <2>. USE <1>15
  <2>0. Agree(mem, disk)
    BY StartSafe
  <2>1. /\ mem.grants[id].state = "Absent" /\ disk.grants[id].state = "Absent"
        /\ id > mem.serial /\ id <= id
    BY <1>1, <2>0 DEF Agree, Covers
  <2>2. Agree(minted, disk)
    <3>1. \A g \in GrantIds : g > id => g > mem.serial
      BY <1>1, EligibilityAssumption
    <3>. QED BY <1>9, <2>0, <3>1 DEF Agree, ImageOK, Covers, Keeps
  <2>3. Agree(minted, prepared)
    <3>1. MovesOne(minted, disk, minted, prepared, id, minted.grants[id], row)
      <4>1. Covered(minted.grants[id], row)
        BY <1>5, <1>9, <2>1 DEF Covered, HoldsCapacity, IsQuarantined, IsTerminal
      <4>2. Logged(row)
        BY <1>5 DEF Logged, HoldsCapacity, IsQuarantined
      <4>3. ~IsTerminal(disk.grants[id].state) /\ minted.serial >= minted.serial
        BY <1>1, <1>9, <2>1 DEF IsTerminal
      <4>. QED BY <1>9, <1>12, <2>1, <4>1, <4>2, <4>3 DEF MovesOne
    <3>. QED BY <1>9, <2>2, <3>1, RowSafe
  <2>4. ~IsTerminal(prepared.grants[id].state)
    BY <1>5, <1>12 DEF IsTerminal
  <2>5. Logged(grant)
    BY <1>4 DEF Logged
  <2>6. Agree(minted, commit)
    <3>1. MovesOne(minted, prepared, minted, commit, id, minted.grants[id], grant)
      <4>1. Covered(minted.grants[id], grant)
        BY <1>4, <1>9, <2>1 DEF Covered, HoldsCapacity, IsQuarantined, IsTerminal
      <4>2. minted.serial >= minted.serial
        BY <1>1, <1>9
      <4>. QED BY <1>9, <1>13, <2>1, <2>4, <2>5, <4>1, <4>2 DEF MovesOne
    <3>. QED BY <1>9, <2>3, <3>1, RowSafe
  <2>7. Agree(granted, commit)
    <3>1. MovesOne(minted, prepared, granted, commit, id, grant, grant)
      <4>1. Covered(grant, grant)
        BY <1>4 DEF Covered, HoldsCapacity, IsQuarantined, IsTerminal, SameReservation
      <4>2. granted.serial >= minted.serial /\ granted.serial = id
        BY <1>1, <1>9, <1>10
      <4>. QED BY <1>10, <1>13, <2>1, <2>4, <2>5, <4>1, <4>2 DEF MovesOne
    <3>. QED BY <1>9, <1>10, <2>3, <3>1, RowSafe
  <2>8. Agree(held, commit)
    BY <1>11, <2>7, SameSafe
  <2>9. Agree(held, noted)
    BY <1>14, <2>8, SameSafe
  <2>. QED BY <2>2, <2>3, <2>6, <2>8, <2>9
<1>16. {"Indeterminate", "Refused", decision.outcome} \subseteq Outcomes \cup {None}
  BY <1>3 DEF Outcomes
<1>17. /\ Point(minted, disk, "Indeterminate") \in SafePoints
       /\ Point(minted, disk, "Refused") \in SafePoints
       /\ Point(minted, prepared, "Indeterminate") \in SafePoints
  BY <1>1, <1>9, <1>12, <1>15, <1>16, PointSafe
<1>18. /\ Point(minted, commit, "Refused") \in SafePoints
       /\ Point(held, commit, "Refused") \in SafePoints
       /\ Point(held, noted, decision.outcome) \in SafePoints
  BY <1>9, <1>11, <1>13, <1>14, <1>15, <1>16, PointSafe
<1>. DEFINE begun == << Point(minted, disk, "Indeterminate"),
                        Point(minted, prepared, "Indeterminate") >>
            refused == << Point(minted, disk, "Refused") >>
            full == << Point(minted, commit, "Refused") >>
            done == << Point(held, commit, "Refused"),
                       Point(held, noted, decision.outcome) >>
<1>19. begun \in Seq(SafePoints) /\ Len(begun) >= 1
  BY <1>17, TwoPoints
<1>20. /\ refused \in Seq(SafePoints) /\ Len(refused) >= 1
       /\ full \in Seq(SafePoints) /\ done \in Seq(SafePoints)
  BY <1>17, <1>18, TwoPoints, OnePoint
<1>21. GrantPoints(request, view, decision) \in {refused, begun \o full, begun \o done}
  <2>1. [mem EXCEPT !.serial = id, !.counter = Greatest(@, id)] = minted
    BY <1>1 DEF Engine, minted, counter
  <2>2. [minted EXCEPT !.grants[id] = grant, !.attempts[request.attempt] = attempt] = held
    BY <1>9 DEF Engine, held, granted, WithGrant, WithAttempt
  <2>. QED
    BY <2>1, <2>2 DEF GrantPoints, grant, row, prepared, commit, digest, attempt, noted
<1>. HIDE DEF begun, refused, full, done
<1>22. /\ begun \o full \in Seq(SafePoints) /\ Len(begun \o full) >= 1
       /\ begun \o done \in Seq(SafePoints) /\ Len(begun \o done) >= 1
  BY <1>19, <1>20, JoinPoints
<1>. QED BY <1>20, <1>21, <1>22 DEF decision

LEMMA RenewPointsSafe ==
  ASSUME CoreInv, NEW request \in Requests, Renews(request),
         Decision(request).outcome \in Authorising
  PROVE  LET points == RenewPoints(request, Decision(request))
         IN  points \in Seq(SafePoints) /\ Len(points) >= 1
<1>. DEFINE decision == Decision(request)
            id      == request.renews
            old     == mem.grants[id]
            expiry  == IF request.lease = 0 THEN 0 ELSE mem.tick + request.lease
            epoch   == mem.spec.epoch
            degraded == decision.outcome = "Degraded"
            renewed == [old EXCEPT !.requested = request.units, !.units = decision.units,
                                   !.expiry = expiry, !.epoch = epoch,
                                   !.degraded = degraded]
            row     == [renewed EXCEPT !.state = "Committed"]
            next    == WithGrant(mem, id, renewed)
            written == WriteGrant(disk, id, row, mem.tick)
<1>1. /\ mem \in Engine /\ disk \in Image /\ mem.tick \in Nat /\ mem.serial \in Nat
      /\ mem.spec \in ClusterSpecs /\ mem.grants \in [GrantIds -> Grant]
  BY EngineFields DEF CoreInv
<1>2. request \in Request
  BY CoreAssumption
<1>3. /\ id \in GrantIds /\ id # 0
      /\ request.units \in Nat /\ request.lease \in Nat
  BY <1>2 DEF Request, Renews
<1>4. /\ decision.outcome \in Outcomes /\ decision.units \in Nat
      /\ old.state # "Absent" /\ ~IsTerminal(old.state)
  BY <1>1, <1>2, <1>3, DecisionType
<1>5. old \in Grant
  BY <1>1, <1>3
<1>6. expiry \in Nat /\ epoch \in Nat /\ degraded \in BOOLEAN
  BY <1>1, <1>3 DEF ClusterSpecs
<1>. HIDE DEF decision, id, old, expiry, epoch, degraded
<1>7. renewed \in Grant
  BY <1>3, <1>4, <1>5, <1>6, GrantUpdates
<1>8. renewed.state = old.state /\ renewed.commit = old.commit
  BY <1>5 DEF Grant
<1>. HIDE DEF renewed
<1>9. row \in Grant
  BY <1>7 DEF Grant, GrantStates
<1>10. row.state = "Committed" /\ row.commit = renewed.commit
  BY <1>7 DEF Grant
<1>11. SameReservation(renewed, row)
  BY <1>7 DEF Grant, SameReservation
<1>. HIDE DEF row
<1>12. /\ next \in Engine
       /\ \A g \in GrantIds : next.grants[g] = IF g \in {id} THEN renewed ELSE mem.grants[g]
       /\ next.serial = mem.serial /\ next.spec = mem.spec
  BY <1>1, <1>3, <1>7, EngineGrant
<1>13. /\ written \in Image
       /\ \A g \in GrantIds : written.grants[g] = IF g \in {id} THEN row ELSE disk.grants[g]
       /\ written.spec = disk.spec
  <2>1. disk \in Image /\ id \in GrantIds /\ row \in Grant /\ mem.tick \in Nat
    BY <1>1, <1>3, <1>9
  <2>. QED BY <2>1, WriteGrantType
<1>. HIDE DEF next, written
<1>14. ASSUME sink = "journal" PROVE Agree(next, written)
  <2>1. Agree(mem, disk)
    BY <1>14, StartSafe
  <2>2. HoldsCapacity(old.state)
    BY <1>1, <1>3, <1>4, <2>1, Holding DEF Agree, old
  <2>3. /\ ~IsTerminal(disk.grants[id].state)
        /\ id <= mem.serial
        /\ old.commit # "Prepared"
    BY <1>1, <1>3, <2>1, <2>2, HeldRow DEF Agree, old
  <2>4. Covered(renewed, row) /\ Logged(row)
    BY <1>8, <1>10, <1>11, <2>2, <2>3
       DEF Covered, Logged, HoldsCapacity, IsQuarantined, IsTerminal
  <2>5. next.serial >= mem.serial
    BY <1>1, <1>12
  <2>6. MovesOne(mem, disk, next, written, id, renewed, row)
    BY <1>12, <1>13, <2>3, <2>4, <2>5 DEF MovesOne
  <2>. QED BY <1>1, <1>12, <2>1, <2>6, RowSafe
<1>15. "Indeterminate" \in Outcomes
  BY DEF Outcomes
<1>16. Point(mem, disk, "Indeterminate") \in SafePoints
  BY <1>1, <1>15, StartSafe, PointSafe
<1>17. Point(next, written, decision.outcome) \in SafePoints
  BY <1>4, <1>12, <1>13, <1>14, PointSafe
<1>18. RenewPoints(request, decision) =
         << Point(mem, disk, "Indeterminate"), Point(next, written, decision.outcome) >>
  <2>1. [mem EXCEPT !.grants[id] = renewed] = next
    BY DEF next, WithGrant
  <2>2. [old EXCEPT !.requested = request.units, !.units = decision.units,
                    !.expiry = expiry, !.epoch = epoch, !.degraded = degraded] = renewed
    BY DEF renewed
  <2>. QED BY <2>1, <2>2 DEF RenewPoints, row, written, id, old, expiry, epoch, degraded
<1>. QED BY <1>16, <1>17, <1>18, TwoPoints DEF decision

-------------------------------------------------------------------------------
(* Releasing, acknowledging, cancelling *)

LEMMA ReachesType ==
  ASSUME mem \in Engine, NEW id \in GrantIds \cup {0}, NEW attempt \in Attempts \cup {None}
  PROVE  Reaches(id, attempt) \in GrantIds \cup {0}
<1>1. mem.attempts \in [Attempts -> Attempt]
  BY EngineFields
<1>2. attempt # None => mem.attempts[attempt].grant \in GrantIds \cup {0}
  BY <1>1 DEF Attempt
<1>. QED BY <1>2 DEF Reaches

\* Ending a grant that holds capacity, in the log and then in the engine, is safe.
LEMMA EndingSafe ==
  ASSUME CoreInv, NEW id \in GrantIds, NEW state \in GrantStates, IsTerminal(state),
         sink = "journal" => HoldsCapacity(mem.grants[id].state)
  PROVE  LET grant == Terminated(mem.grants[id], state)
             next == WithGrant(mem, id, grant)
             written == WriteGrant(disk, id, grant, mem.tick)
         IN  /\ next \in Engine /\ next.attempts = mem.attempts
             /\ written \in Image
             /\ sink = "journal" => Agree(next, written)
<1>. DEFINE grant == Terminated(mem.grants[id], state)
            next == WithGrant(mem, id, grant)
            written == WriteGrant(disk, id, grant, mem.tick)
<1>1. /\ mem \in Engine /\ disk \in Image /\ mem.tick \in Nat /\ mem.serial \in Nat
      /\ mem.grants \in [GrantIds -> Grant]
  BY EngineFields DEF CoreInv
<1>2. mem.grants[id] \in Grant
  BY <1>1
<1>3. grant \in Grant /\ Covered(grant, grant) /\ Logged(grant)
  BY <1>2, TerminatedType, TerminatedOwn DEF Own
<1>. HIDE DEF grant
<1>4. /\ next \in Engine
      /\ \A g \in GrantIds : next.grants[g] = IF g \in {id} THEN grant ELSE mem.grants[g]
      /\ next.serial = mem.serial /\ next.spec = mem.spec /\ next.attempts = mem.attempts
  BY <1>1, <1>3, EngineGrant
<1>5. /\ written \in Image
      /\ \A g \in GrantIds : written.grants[g] = IF g \in {id} THEN grant ELSE disk.grants[g]
      /\ written.spec = disk.spec
  BY <1>1, <1>3, WriteGrantType, SMTT(20)
<1>. HIDE DEF next, written
<1>6. ASSUME sink = "journal" PROVE Agree(next, written)
  <2>1. Agree(mem, disk)
    BY <1>6, StartSafe
  <2>2. ~IsTerminal(disk.grants[id].state) /\ id <= mem.serial
    BY <1>1, <1>6, <2>1, HeldRow DEF Agree
  <2>3. next.serial >= mem.serial
    BY <1>1, <1>4
  <2>4. MovesOne(mem, disk, next, written, id, grant, grant)
    BY <1>3, <1>4, <1>5, <2>2, <2>3 DEF MovesOne
  <2>. QED BY <1>1, <1>4, <2>1, <2>4, RowSafe
<1>. QED BY <1>4, <1>5, <1>6 DEF next, written, grant

LEMMA ReleasePointsSafe ==
  ASSUME CoreInv, NEW id \in GrantIds, mem.grants[id].state # "Absent",
         ~IsTerminal(mem.grants[id].state)
  PROVE  ReleasePoints(id) \in Seq(SafePoints) /\ Len(ReleasePoints(id)) >= 1
<1>. DEFINE owner    == mem.grants[id].attempt
            grant    == Terminated(mem.grants[id], "Released")
            released == WithGrant(mem, id, grant)
            attempt  == [mem.attempts[owner] EXCEPT !.released = TRUE]
            marked   == WithAttempt(released, owner, attempt)
            written  == WriteGrant(disk, id, grant, mem.tick)
            noted    == WriteAttempt(written, owner, marked.attempts[owner], mem.tick)
<1>1. mem \in Engine /\ disk \in Image /\ mem.tick \in Nat
  BY EngineFields DEF CoreInv
<1>2. sink = "journal" => HoldsCapacity(mem.grants[id].state)
  BY <1>1, StartSafe, Holding DEF Agree
<1>3. /\ released \in Engine /\ released.attempts = mem.attempts
      /\ written \in Image
      /\ sink = "journal" => Agree(released, written)
  BY <1>2, EndingSafe DEF GrantStates, IsTerminal
<1>. HIDE DEF owner, grant, released, written
<1>4. owner \in Attempts => attempt \in Attempt
  <2>1. mem.attempts \in [Attempts -> Attempt]
    BY <1>1, EngineFields
  <2>. QED BY <2>1 DEF Attempt
<1>. HIDE DEF attempt
<1>5. /\ marked \in Engine /\ marked.grants = released.grants
      /\ marked.serial = released.serial /\ marked.spec = released.spec
  BY <1>3, <1>4, EngineAttempt
<1>. HIDE DEF marked
<1>6. owner \in Attempts => marked.attempts[owner] \in Attempt
  BY <1>5, EngineFields
<1>7. /\ noted \in Image /\ noted.grants = written.grants /\ noted.spec = written.spec
  BY <1>1, <1>3, <1>6, WriteAttemptType
<1>. HIDE DEF noted
<1>8. sink = "journal" => Agree(marked, written) /\ Agree(marked, noted)
  BY <1>3, <1>5, <1>7, SameSafe
<1>9. {"Indeterminate", "Granted"} \subseteq Outcomes
  BY DEF Outcomes
<1>10. /\ Point(mem, disk, "Indeterminate") \in SafePoints
       /\ Point(marked, written, "Indeterminate") \in SafePoints
       /\ Point(marked, noted, "Granted") \in SafePoints
       /\ Point(released, written, "Granted") \in SafePoints
  BY <1>1, <1>3, <1>5, <1>7, <1>8, <1>9, StartSafe, PointSafe
<1>. DEFINE three == << Point(mem, disk, "Indeterminate"),
                        Point(marked, written, "Indeterminate"),
                        Point(marked, noted, "Granted") >>
            two == << Point(mem, disk, "Indeterminate"), Point(released, written, "Granted") >>
<1>11. three \in Seq(SafePoints) /\ Len(three) >= 1
  BY <1>10
<1>12. two \in Seq(SafePoints) /\ Len(two) >= 1
  BY <1>10, TwoPoints
<1>13. ReleasePoints(id) \in {two, three}
  <2>1. [mem EXCEPT !.grants[id] = grant] = released
    BY DEF released, WithGrant
  <2>2. [released EXCEPT !.attempts[owner].released = TRUE] = marked
    BY <1>3 DEF marked, attempt, WithAttempt, Engine
  <2>. QED BY <2>1, <2>2 DEF ReleasePoints, owner, grant, written, noted
<1>. HIDE DEF two, three
<1>. QED BY <1>11, <1>12, <1>13

LEMMA CancelPointsSafe ==
  ASSUME CoreInv, NEW id \in GrantIds \cup {0}, NEW named \in Attempts \cup {None}
  PROVE  CancelPoints(id, named) \in Seq(SafePoints) /\ Len(CancelPoints(id, named)) >= 1
<1>. DEFINE target  == Reaches(id, named)
            grant   == mem.grants[target]
            held    == target # 0 /\ HoldsCapacity(grant.state)
            revoked == Terminated(grant, "Revoked")
            engine  == IF held THEN WithGrant(mem, target, revoked) ELSE mem
            image   == IF held THEN WriteGrant(disk, target, revoked, mem.tick) ELSE disk
            attempt == IF named # None /\ mem.attempts[named].known THEN named
                       ELSE grant.attempt
            record  == [engine.attempts[attempt] EXCEPT !.cancelled = TRUE]
            marked  == WithAttempt(engine, attempt, record)
            noted   == WriteCancel(image, attempt, mem.tick)
<1>1. mem \in Engine /\ disk \in Image /\ mem.tick \in Nat
  BY EngineFields DEF CoreInv
<1>2. target \in GrantIds \cup {0}
  BY <1>1, ReachesType
<1>3. /\ engine \in Engine /\ image \in Image
      /\ sink = "journal" => Agree(engine, image)
  <2>1. CASE held
    <3>1. target \in GrantIds
      BY <1>2, <2>1
    <3>. QED BY <2>1, <3>1, EndingSafe DEF GrantStates, IsTerminal
  <2>2. CASE ~held
    BY <1>1, <2>2, StartSafe
  <2>. QED BY <2>1, <2>2
<1>4. [mem EXCEPT !.grants[target] = revoked] = WithGrant(mem, target, revoked)
  BY DEF WithGrant
<1>5. CancelPoints(id, named) =
        (IF held THEN << Point(mem, disk, "Indeterminate") >> ELSE << >>) \o
        (IF mem.attempts[attempt].known
         THEN << Point(engine, image, "Indeterminate"), Point(marked, noted, "Cancelled") >>
         ELSE << Point(engine, image, "Cancelled") >>)
  <2>. DEFINE changed == [engine EXCEPT !.attempts[attempt].cancelled = TRUE]
  <2>1. changed = marked
    BY <1>3 DEF WithAttempt, Engine
  <2>2. CancelPoints(id, named) =
          (IF held THEN << Point(mem, disk, "Indeterminate") >> ELSE << >>) \o
          (IF mem.attempts[attempt].known
           THEN << Point(engine, image, "Indeterminate"),
                   Point(changed, noted, "Cancelled") >>
           ELSE << Point(engine, image, "Cancelled") >>)
    BY Zenon DEF CancelPoints, WithGrant
  <2>. HIDE DEF changed, marked, engine, image, noted, attempt, held
  <2>. QED BY <2>1, <2>2
<1>. HIDE DEF target, grant, revoked, engine, image, attempt, held
<1>6. attempt \in Attempts => record \in Attempt
  <2>1. engine.attempts \in [Attempts -> Attempt]
    BY <1>3, EngineFields
  <2>. QED BY <2>1 DEF Attempt
<1>. HIDE DEF record
<1>7. /\ marked \in Engine /\ marked.grants = engine.grants
      /\ marked.serial = engine.serial /\ marked.spec = engine.spec
  BY <1>3, <1>6, EngineAttempt
<1>. HIDE DEF marked
<1>8. /\ noted \in Image /\ noted.grants = image.grants /\ noted.spec = image.spec
  <2>. DEFINE cancelled == [image.attempts[attempt] EXCEPT !.known = TRUE, !.cancelled = TRUE]
  <2>1. attempt \in Attempts => cancelled \in Attempt
    <3>1. image.attempts \in [Attempts -> Attempt]
      BY <1>3, ImageFields
    <3>. QED BY <3>1 DEF Attempt
  <2>2. noted = WriteAttempt(image, attempt, cancelled, mem.tick)
    BY DEF WriteCancel
  <2>. HIDE DEF cancelled, noted
  <2>. QED BY <1>1, <1>3, <2>1, <2>2, WriteAttemptType
<1>. HIDE DEF noted
<1>9. sink = "journal" => Agree(marked, noted)
  BY <1>3, <1>7, <1>8, SameSafe
<1>10. {"Indeterminate", "Cancelled"} \subseteq Outcomes
  BY DEF Outcomes
<1>11. /\ Point(mem, disk, "Indeterminate") \in SafePoints
       /\ Point(engine, image, "Indeterminate") \in SafePoints
       /\ Point(engine, image, "Cancelled") \in SafePoints
       /\ Point(marked, noted, "Cancelled") \in SafePoints
  BY <1>1, <1>3, <1>7, <1>8, <1>9, <1>10, StartSafe, PointSafe
<1>. DEFINE revoking == IF held THEN << Point(mem, disk, "Indeterminate") >> ELSE << >>
            ending == IF mem.attempts[attempt].known
                      THEN << Point(engine, image, "Indeterminate"),
                              Point(marked, noted, "Cancelled") >>
                      ELSE << Point(engine, image, "Cancelled") >>
<1>12. revoking \in Seq(SafePoints)
  BY <1>11
<1>13. ending \in Seq(SafePoints) /\ Len(ending) >= 1
  BY <1>11, TwoPoints, OnePoint
<1>14. CancelPoints(id, named) = revoking \o ending
  BY <1>5
<1>. HIDE DEF revoking, ending
<1>. QED BY <1>12, <1>13, <1>14, JoinPoints

LEMMA AcknowledgePointsSafe ==
  ASSUME CoreInv, NEW id \in GrantIds, mem.grants[id].state # "Absent",
         ~IsTerminal(mem.grants[id].state)
  PROVE  AcknowledgePoints(id) \in Seq(SafePoints) /\ Len(AcknowledgePoints(id)) >= 1
<1>. DEFINE old    == mem.grants[id]
            lifted == IsQuarantined(old.state)
            grant  == IF lifted THEN Revalidated(mem, old) ELSE old
            engine == WithGrant(mem, id, grant)
            image  == IF lifted THEN WriteGrant(disk, id, grant, mem.tick) ELSE disk
            acked  == [grant EXCEPT !.acked = TRUE, !.state = "Acknowledged",
                                    !.commit = "Acknowledged"]
            row    == [grant EXCEPT !.state = "Acknowledged"]
            next   == WithGrant(engine, id, acked)
            written == WriteGrant(image, id, row, mem.tick)
            answer == GrantOutcome(grant)
            waiting == Point(engine, image, "Indeterminate")
            done    == Point(next, written, answer)
<1>1. /\ mem \in Engine /\ disk \in Image /\ mem.tick \in Nat /\ mem.serial \in Nat
      /\ mem.grants \in [GrantIds -> Grant]
  BY EngineFields DEF CoreInv
<1>2. old \in Grant
  BY <1>1
<1>3. sink = "journal" => /\ Agree(mem, disk) /\ HoldsCapacity(old.state)
                          /\ ~IsTerminal(disk.grants[id].state) /\ id <= mem.serial
  BY <1>1, StartSafe, Holding, HeldRow DEF Agree
<1>4. AcknowledgePoints(id) =
        IF ~lifted THEN << waiting, done >>
        ELSE << Point(mem, disk, "Indeterminate") >> \o
             IF grant.state = "Committed" THEN << waiting, done >>
             ELSE << Point(engine, image, "Fenced") >>
  BY Zenon DEF AcknowledgePoints, WithGrant
<1>. HIDE DEF old, lifted
<1>5. /\ grant \in Grant
      /\ lifted => grant.state \in {"Committed", "Revoked"} /\ Own(grant)
      /\ ~lifted => grant = old
  BY <1>1, <1>2, RevalidatedType, RevalidatedOwn
<1>. HIDE DEF grant
<1>6. /\ engine \in Engine
      /\ \A g \in GrantIds : engine.grants[g] = IF g \in {id} THEN grant ELSE mem.grants[g]
      /\ engine.serial = mem.serial /\ engine.spec = mem.spec
  BY <1>1, <1>5, EngineGrant
<1>. HIDE DEF engine
<1>7. lifted => /\ image \in Image
                /\ \A g \in GrantIds :
                     image.grants[g] = IF g \in {id} THEN grant ELSE disk.grants[g]
                /\ image.spec = disk.spec
  <2>1. disk \in Image /\ grant \in Grant /\ mem.tick \in Nat
    BY <1>1, <1>5
  <2>. QED BY <2>1, WriteGrantType
<1>8. ~lifted => image = disk
  OBVIOUS
<1>9. image \in Image
  BY <1>1, <1>7, <1>8
<1>. HIDE DEF image
<1>10. ASSUME sink = "journal" PROVE Agree(engine, image)
  <2>1. engine.serial >= mem.serial
    BY <1>1, <1>6
  <2>2. CASE lifted
    <3>1. MovesOne(mem, disk, engine, image, id, grant, grant)
      BY <1>3, <1>5, <1>6, <1>7, <1>10, <2>1, <2>2 DEF MovesOne, Own
    <3>. QED BY <1>1, <1>3, <1>6, <1>10, <3>1, RowSafe
  <2>3. CASE ~lifted
    <3>1. Covered(grant, disk.grants[id]) /\ Logged(disk.grants[id])
      BY <1>3, <1>5, <1>10, <2>3 DEF Agree, Covers, ImageOK, old
    <3>2. MovesOne(mem, disk, engine, image, id, grant, disk.grants[id])
      BY <1>3, <1>6, <1>8, <1>10, <2>1, <2>3, <3>1 DEF MovesOne
    <3>. QED BY <1>1, <1>3, <1>6, <1>10, <3>2, RowSafe
  <2>. QED BY <2>2, <2>3
<1>11. /\ acked \in Grant /\ acked.state = "Acknowledged" /\ acked.commit = "Acknowledged"
       /\ SameReservation(acked, grant)
  <2>1. acked \in Grant
    <3>1. "Acknowledged" \in GrantStates /\ "Acknowledged" \in CommitStates
      BY DEF GrantStates, CommitStates
    <3>. QED BY <1>5, <3>1, GrantUpdates
  <2>2. acked.state = "Acknowledged"
    BY <1>5 DEF Grant
  <2>3. acked.commit = "Acknowledged"
    BY <1>5 DEF Grant
  <2>4. SameReservation(acked, grant)
    BY <1>5 DEF Grant, SameReservation
  <2>. QED BY <2>1, <2>2, <2>3, <2>4
<1>12. /\ row \in Grant /\ row.state = "Acknowledged" /\ row.commit = grant.commit
       /\ SameReservation(row, grant)
  <2>1. row \in Grant
    BY <1>5 DEF Grant, GrantStates
  <2>2. row.state = "Acknowledged"
    BY <1>5 DEF Grant
  <2>3. row.commit = grant.commit
    BY <1>5 DEF Grant
  <2>4. SameReservation(row, grant)
    BY <1>5 DEF Grant, SameReservation
  <2>. QED BY <2>1, <2>2, <2>3, <2>4
<1>13. answer \in Outcomes
  BY <1>5 DEF GrantOutcome, Outcomes
<1>. HIDE DEF acked, row, answer
<1>14. /\ next \in Engine
       /\ \A g \in GrantIds : next.grants[g] = IF g \in {id} THEN acked ELSE engine.grants[g]
       /\ next.serial = engine.serial /\ next.spec = engine.spec
  BY <1>6, <1>11, EngineGrant
<1>15. /\ written \in Image
       /\ \A g \in GrantIds : written.grants[g] = IF g \in {id} THEN row ELSE image.grants[g]
       /\ written.spec = image.spec
  <2>1. row \in Grant /\ mem.tick \in Nat
    BY <1>1, <1>12
  <2>. QED BY <1>9, <2>1, WriteGrantType
<1>. HIDE DEF next, written
<1>16. ASSUME sink = "journal", ~lifted \/ grant.state = "Committed"
       PROVE  Agree(next, written)
  <2>1. Agree(engine, image)
    BY <1>10, <1>16
  <2>2. HoldsCapacity(grant.state) /\ engine.grants[id] = grant
    BY <1>3, <1>5, <1>6, <1>16 DEF HoldsCapacity
  <2>3. /\ ~IsTerminal(image.grants[id].state) /\ id <= engine.serial
        /\ grant.commit # "Prepared"
    BY <1>6, <2>1, <2>2, HeldRow DEF Agree
  <2>4. Covered(acked, row) /\ Logged(row)
    BY <1>11, <1>12, <2>3
       DEF Covered, Logged, SameReservation, HoldsCapacity, IsQuarantined, IsTerminal
  <2>5. next.serial >= engine.serial /\ id <= next.serial
    BY <1>1, <1>6, <1>14, <2>3
  <2>6. MovesOne(engine, image, next, written, id, acked, row)
    BY <1>14, <1>15, <2>3, <2>4, <2>5 DEF MovesOne
  <2>. QED BY <1>6, <1>14, <2>1, <2>6, RowSafe
<1>17. {"Indeterminate", "Fenced"} \subseteq Outcomes
  BY DEF Outcomes
<1>18. /\ Point(mem, disk, "Indeterminate") \in SafePoints
       /\ waiting \in SafePoints
       /\ Point(engine, image, "Fenced") \in SafePoints
  BY <1>1, <1>3, <1>6, <1>9, <1>10, <1>17, PointSafe
<1>19. ~lifted \/ grant.state = "Committed" => done \in SafePoints
  BY <1>13, <1>14, <1>15, <1>16, PointSafe
<1>. DEFINE first == << Point(mem, disk, "Indeterminate") >>
            both == << waiting, done >>
            fenced == << Point(engine, image, "Fenced") >>
<1>. HIDE DEF waiting, done
<1>20. first \in Seq(SafePoints) /\ Len(first) >= 1 /\ fenced \in Seq(SafePoints)
  BY <1>18, OnePoint
<1>21. ~lifted \/ grant.state = "Committed" => both \in Seq(SafePoints) /\ Len(both) >= 1
  BY <1>18, <1>19, TwoPoints
<1>22. AcknowledgePoints(id) = IF ~lifted THEN both
                               ELSE first \o IF grant.state = "Committed" THEN both ELSE fenced
  BY <1>4
<1>. HIDE DEF first, both, fenced
<1>. QED BY <1>20, <1>21, <1>22, JoinPoints

-------------------------------------------------------------------------------
(* Administration *)

LEMMA AllRevalidatedType ==
  ASSUME NEW engine \in Engine
  PROVE  /\ AllRevalidated(engine) \in [GrantIds -> Grant]
         /\ \A g \in GrantIds : Own(AllRevalidated(engine)[g])
<1>1. engine.grants \in [GrantIds -> Grant]
  BY EngineFields
<1>. QED BY <1>1, RevalidatedType, RevalidatedOwn DEF AllRevalidated

\* Revalidating the live grants, or ending all that hold capacity, is a safe loop.
LEMMA LiveHolds ==
  ASSUME NEW engine \in Engine, NEW image, Covers(image, engine)
  PROVE  \A g \in Live(engine.grants) : HoldsCapacity(engine.grants[g].state)
<1>. SUFFICES ASSUME NEW g \in Live(engine.grants)
              PROVE  HoldsCapacity(engine.grants[g].state)
  OBVIOUS
<1>1. g \in GrantIds /\ IsLive(engine.grants[g].state)
  BY DEF Live
<1>. QED BY <1>1, Holding DEF IsLive, IsTerminal

LEMMA CommandPointsSafe ==
  ASSUME CoreInv, NEW command \in Commands
  PROVE  CommandPoints(command) \in Seq(SafePoints) /\ Len(CommandPoints(command)) >= 1
<1>. DEFINE written == WriteCommand(disk, command, mem.tick)
            changed == [mem EXCEPT !.spec = SpecAfter(@, command),
                                   !.contracts = ContractsAfter(@, command)]
            sweep == Sweep(changed, written, Live(mem.grants), AllRevalidated(changed))
            first == << Point(mem, disk, None) >>
            rest == IF ~Accepts(mem.spec, mem.contracts, command)
                    THEN << Point(mem, written, None) >>
                    ELSE IF ~MovesAuthority(command) THEN << Point(changed, written, None) >>
                    ELSE sweep
<1>1. mem \in Engine /\ disk \in Image /\ mem.tick \in Nat /\ command \in Command
  BY EngineFields, CoreAssumption DEF CoreInv
<1>2. /\ written \in Image /\ written.grants = disk.grants
      /\ written.spec.bound = disk.spec.bound
  BY <1>1, WriteCommandType
<1>. HIDE DEF written
<1>3. sink = "journal" => Agree(mem, disk) /\ Agree(mem, written)
  BY <1>2, StartSafe, SameSafe
<1>4. first \in Seq(SafePoints)
  BY <1>1, <1>3, PointSafe, OnePoint
<1>5. CASE ~Accepts(mem.spec, mem.contracts, command)
  <2>1. Point(mem, written, None) \in SafePoints
    BY <1>1, <1>2, <1>3, PointSafe
  <2>2. rest \in Seq(SafePoints) /\ Len(rest) >= 1
    BY <1>5, <2>1, OnePoint
  <2>. HIDE DEF first, rest
  <2>3. first \o rest \in Seq(SafePoints) /\ Len(first \o rest) >= 1
    BY <1>4, <2>2, JoinPoints
  <2>. QED BY <2>3 DEF CommandPoints, first, rest, written
<1>6. CASE Accepts(mem.spec, mem.contracts, command)
  <2>1. /\ changed \in Engine /\ changed.grants = mem.grants
        /\ changed.serial = mem.serial /\ changed.spec.bound = mem.spec.bound
    BY <1>1, <1>6, CommandedType
  <2>. HIDE DEF changed
  <2>2. sink = "journal" => Agree(changed, written)
    BY <1>3, <2>1, SameSafe
  <2>3. Point(changed, written, None) \in SafePoints
    BY <1>2, <2>1, <2>2, PointSafe
  <2>4. sweep \in Seq(SafePoints) /\ Len(sweep) >= 1
    <3>1. /\ AllRevalidated(changed) \in [GrantIds -> Grant]
          /\ \A g \in GrantIds : Own(AllRevalidated(changed)[g])
      BY <2>1, AllRevalidatedType
    <3>2. Live(mem.grants) \in SUBSET GrantIds
      BY DEF Live
    <3>3. sink = "journal" =>
            \A g \in Live(mem.grants) : HoldsCapacity(changed.grants[g].state)
      BY <2>1, <2>2, LiveHolds DEF Agree
    <3>. QED BY <1>2, <2>1, <2>2, <3>1, <3>2, <3>3, SweepSafe
  <2>5. rest \in Seq(SafePoints) /\ Len(rest) >= 1
    <3>. HIDE DEF sweep
    <3>. QED BY <1>6, <2>3, <2>4, OnePoint
  <2>. HIDE DEF first, rest
  <2>6. first \o rest \in Seq(SafePoints) /\ Len(first \o rest) >= 1
    BY <1>4, <2>5, JoinPoints
  <2>. QED BY <2>6 DEF CommandPoints, first, rest, written, changed
<1>. QED BY <1>5, <1>6

-------------------------------------------------------------------------------
(* Starting *)

\* The points of a start; only at the last one does the engine rule.
StartPoints == {p \in PointType : ImageOK(p.disk) /\ Keeps(p.disk)}

LEMMA StartsSafe ==
  ASSUME Inv, NEW points \in Seq(StartPoints), Len(points) >= 1, NEW records \in BOOLEAN,
         LET last == points[Reached(points, records)] IN Covers(last.disk, last.mem),
         Starts(points, records)
  PROVE  Inv' /\ KeepsEnded
<1>. DEFINE n == Reached(points, records)
<1>1. /\ n \in 1..Len(points)
      /\ records => \A k \in 1..n : Recorded(k) \in 0..JournalBound
  BY ReachedType DEF Inv, CoreInv
<1>2. starts' \in 0..MaxStarts
  <2>1. starts \in 0..MaxStarts /\ starts < MaxStarts /\ starts' = starts + 1
    BY DEF Starts, Inv, CoreInv
  <2>2. MaxStarts \in Nat
    BY CoreAssumption
  <2>. QED BY <2>1, <2>2
<1>3. ASSUME NEW k \in 1..n, Persists(points, k, records)
      PROVE  /\ disk' \in Image /\ ImageOK(disk') /\ KeepsEnded
             /\ used' \in 0..JournalBound
             /\ disk' = IF records THEN points[k].disk ELSE disk
  <2>. HIDE DEF n
  <2>1. CASE records
    <3>1. k \in 1..Len(points)
      BY <1>1
    <3>2. points[k] \in StartPoints
      BY <3>1
    <3>3. disk' = points[k].disk /\ used' = Recorded(k)
      BY <1>3, <2>1 DEF Persists
    <3>. QED BY <1>1, <2>1, <3>2, <3>3 DEF StartPoints, PointType, Keeps, KeepsEnded
  <2>2. CASE ~records
    <3>1. disk' = disk /\ used' = used
      BY <1>3, <2>2 DEF Persists
    <3>. QED BY <2>2, <3>1 DEF Inv, CoreInv, ImageOK, KeepsEnded
  <2>. QED BY <2>1, <2>2
<1>4. CASE /\ up' = TRUE
           /\ sink' = IF records THEN "journal" ELSE "memory"
           /\ mem' = points[n].mem
           /\ Persists(points, n, records)
           /\ UNCHANGED <<answered, acks>>
  <2>. HIDE DEF n
  <2>1. n \in 1..n /\ points[n] \in StartPoints
    BY <1>1
  <2>2. /\ disk' \in Image /\ ImageOK(disk') /\ KeepsEnded
        /\ used' \in 0..JournalBound
        /\ disk' = IF records THEN points[n].disk ELSE disk
    BY <1>3, <1>4, <2>1
  <2>3. mem' \in Engine
    BY <1>4, <2>1 DEF StartPoints, PointType
  <2>4. sink' = "journal" => Covers(disk', mem')
    <3>1. Covers(points[n].disk, points[n].mem)
      BY DEF n
    <3>2. ASSUME sink' = "journal" PROVE disk' = points[n].disk
      BY <1>4, <2>2, <3>2
    <3>. QED BY <1>4, <3>1, <3>2 DEF Covers
  <2>. QED BY <1>2, <1>4, <2>2, <2>3, <2>4 DEF Inv, CoreInv, HistoryOK, ImageOK, Covers
<1>5. CASE /\ \E k \in 1..n : Persists(points, k, records)
           /\ Falls
           /\ UNCHANGED acks
  <2>. HIDE DEF n
  <2>1. /\ disk' \in Image /\ ImageOK(disk') /\ KeepsEnded
        /\ used' \in 0..JournalBound
    BY <1>3, <1>5
  <2>2. up' = FALSE /\ sink' = "none" /\ mem' \in Engine /\ UNCHANGED answered
    BY <1>5, NoEngineType DEF Falls
  <2>. QED BY <1>2, <1>5, <2>1, <2>2 DEF Inv, CoreInv, HistoryOK, ImageOK
<1>. QED BY <1>4, <1>5 DEF Starts

LEMMA InitializeSafe ==
  ASSUME Inv, Initialize
  PROVE  Inv' /\ KeepsEnded
<1>. DEFINE spec  == [UnboundSpec EXCEPT !.bound = TRUE, !.policy = 1]
            tick  == Greatest(disk.tick, 1)
            bound == [disk EXCEPT !.spec = spec, !.tick = tick]
            last  == WriteEpoch(bound, 1)
            p1 == Point(NoEngine, disk, None)
            p2 == Point(NoEngine, bound, None)
            p3 == Point(Fresh, last, None)
<1>1. disk \in Image /\ ImageOK(disk) /\ ~disk.spec.bound /\ disk.grants = NoGrants
  BY DEF Inv, CoreInv, Initialize, ImageOK
<1>2. NoEngine \in Engine /\ UnboundSpec \in ClusterSpecs
  BY NoEngineType, EngineFields DEF NoEngine
<1>3. spec \in ClusterSpecs /\ spec.bound
  <2>1. spec \in ClusterSpecs
    BY <1>2 DEF ClusterSpecs
  <2>2. spec.bound
    BY <1>2 DEF ClusterSpecs
  <2>. QED BY <2>1, <2>2
<1>4. tick \in Nat
  BY <1>1, ImageFields DEF Greatest
<1>. HIDE DEF spec, tick
<1>5. bound \in Image /\ bound.grants = disk.grants /\ bound.spec = spec
  BY <1>1, <1>3, <1>4 DEF Image
<1>6. InitializePoints = << p1, p2, p3 >>
  BY DEF InitializePoints, spec, tick, Image
<1>. HIDE DEF bound
<1>7. last \in Image /\ last.grants = bound.grants /\ last.spec.bound = bound.spec.bound
  BY <1>5, WriteEpochType
<1>. HIDE DEF last
<1>8. /\ Fresh \in Engine /\ Fresh.grants = NoGrants /\ Fresh.spec.bound
      /\ Fresh.serial = 0
  <2>. DEFINE ruled == [UnboundSpec EXCEPT !.bound = TRUE, !.policy = 1,
                                          !.generation = 1, !.epoch = 1]
              incarnation == starts + 1
  <2>1. ruled \in ClusterSpecs
    BY <1>2 DEF ClusterSpecs
  <2>2. ruled.bound
    BY <1>2 DEF ClusterSpecs
  <2>3. incarnation \in Nat
    BY CoreAssumption DEF Inv, CoreInv
  <2>4. Fresh = [NoEngine EXCEPT !.spec = ruled, !.tick = 1, !.incarnation = incarnation]
    BY DEF Fresh
  <2>. HIDE DEF ruled, incarnation
  <2>5. Fresh \in Engine
    BY <1>2, <2>1, <2>3, <2>4 DEF Engine
  <2>6. Fresh.grants = NoEngine.grants /\ Fresh.spec = ruled /\ Fresh.serial = NoEngine.serial
    BY <1>2, <2>4 DEF Engine
  <2>. QED BY <2>2, <2>5, <2>6 DEF NoEngine
<1>9. \A image : image.grants = disk.grants /\ image.spec.bound => ImageOK(image) /\ Keeps(image)
  BY <1>1 DEF ImageOK, Keeps
<1>10. p1 \in StartPoints /\ p2 \in StartPoints /\ p3 \in StartPoints
  <2>1. p1 \in PointType /\ p1.disk = disk
    BY <1>1, <1>2, PointFields
  <2>2. p2 \in PointType /\ p2.disk = bound
    BY <1>2, <1>5, PointFields
  <2>3. p3 \in PointType /\ p3.disk = last
    BY <1>7, <1>8, PointFields
  <2>. QED BY <1>1, <1>3, <1>5, <1>7, <1>9, <2>1, <2>2, <2>3 DEF StartPoints, Keeps
<1>11. Covers(p3.disk, p3.mem)
  <2>1. p3.disk = last /\ p3.mem = Fresh
    BY <1>7, <1>8, PointFields
  <2>2. last.grants = NoGrants /\ last.spec.bound
    BY <1>1, <1>3, <1>5, <1>7
  <2>3. \A g \in GrantIds : NoGrants[g].state = "Absent" /\ NoGrants[g].commit = "None"
    BY DEF NoGrants, NoGrant
  <2>4. Covers(last, Fresh)
    BY <1>8, <2>2, <2>3 DEF Covers, Covered, HoldsCapacity, IsQuarantined, IsTerminal
  <2>. QED BY <2>1, <2>4
<1>. HIDE DEF p1, p2, p3
<1>12. InitializePoints \in Seq(StartPoints) /\ Len(InitializePoints) >= 1
  BY <1>6, <1>10
<1>13. InitializePoints[Reached(InitializePoints, TRUE)] = p3
  <2>1. Reached(InitializePoints, TRUE) = 3
    BY DEF Initialize
  <2>2. InitializePoints[3] = p3
    BY <1>6
  <2>. QED BY <2>1, <2>2
<1>14. Starts(InitializePoints, TRUE)
  BY DEF Initialize
<1>. QED BY <1>11, <1>12, <1>13, <1>14, StartsSafe

LEMMA RecoveredType ==
  ASSUME disk \in Image, disk.spec.bound, starts \in Nat
  PROVE  /\ Recovered \in Engine
         /\ Recovered.grants = disk.grants
         /\ Recovered.spec.bound
         /\ \A g \in GrantIds :
              g > Recovered.serial => Recovered.grants[g].state = "Absent"
<1>. DEFINE serials == Present(disk.grants)
            serial  == IF serials = {} THEN 0
                       ELSE CHOOSE s \in serials : \A t \in serials : t <= s
            spec    == EpochBegun(disk.spec)
            tick    == disk.tick + 1
            counter == Greatest(disk.counter, serial)
            incarnation == starts + 1
<1>1. serials \subseteq GrantIds
  BY DEF Present
<1>2. Cardinality(GrantIds) \in Nat /\ GrantIds \subseteq 0..Cardinality(GrantIds)
  BY CountType, CoreAssumption, EligibilityAssumption
<1>3. serials # {} => \E s \in serials : \A t \in serials : t <= s
  <2>1. serials \subseteq 0..Cardinality(GrantIds)
    BY <1>1, <1>2
  <2>. HIDE DEF serials
  <2>. QED BY <1>2, <2>1, GreatestExists
<1>4. serial \in Nat /\ \A g \in serials : g <= serial
  <2>. HIDE DEF serials
  <2>. QED BY <1>1, <1>3, EligibilityAssumption
<1>5. spec \in ClusterSpecs /\ spec.bound
  BY ImageFields, EpochBegunType
<1>6. tick \in Nat /\ counter \in Nat
  BY <1>4, ImageFields DEF Greatest
<1>7. /\ disk.contracts \in Table(ContractIds, Contract)
      /\ disk.grants \in [GrantIds -> Grant] /\ disk.attempts \in [Attempts -> Attempt]
  BY ImageFields
<1>8. Recovered =
        [spec |-> spec, contracts |-> disk.contracts, grants |-> disk.grants,
         attempts |-> disk.attempts, tick |-> tick, counter |-> counter,
         serial |-> serial, incarnation |-> incarnation]
  BY DEF Recovered
<1>9. \A g \in GrantIds : g > serial => disk.grants[g].state = "Absent"
  <2>. SUFFICES ASSUME NEW g \in GrantIds, g > serial PROVE g \notin serials
    BY DEF Present
  <2>. HIDE DEF serial, serials
  <2>. QED BY <1>4, EligibilityAssumption
<1>10. incarnation \in Nat
  OBVIOUS
<1>. HIDE DEF spec, tick, counter, serial, incarnation
<1>11. Recovered \in Engine
  BY <1>4, <1>5, <1>6, <1>7, <1>8, <1>10 DEF Engine
<1>12. /\ Recovered.grants = disk.grants /\ Recovered.spec = spec
       /\ Recovered.serial = serial
  BY <1>8
<1>. QED BY <1>5, <1>9, <1>11, <1>12

LEMMA GrantAnswerType ==
  ASSUME NEW grant \in Grant
  PROVE  GrantAnswer(grant) \in Outcomes
  BY DEF GrantAnswer, GrantOutcome, Outcomes

LEMMA SettledAttemptsType ==
  ASSUME NEW engine \in Engine
  PROVE  SettledAttempts(engine) \in [Attempts -> Attempt]
<1>. DEFINE ids == Settles(engine)
            rebound == Rebound(engine, ids)
            answer(a) == GrantAnswer(Settled(engine.grants[rebound[a].grant]))
<1>1. ids \in SUBSET GrantIds
  BY DEF Settles, Live
<1>2. /\ rebound \in [Attempts -> Attempt]
      /\ \A a \in Attempts : a \in AttemptsOf(engine.grants, ids) =>
           rebound[a].grant \in GrantIds
  BY <1>1, ReboundType
<1>3. engine.grants \in [GrantIds -> Grant]
  BY EngineFields
<1>. HIDE DEF ids, rebound
<1>4. ASSUME NEW a \in Attempts, a \in AttemptsOf(engine.grants, ids)
      PROVE  answer(a) \in Outcomes
  <2>1. engine.grants[rebound[a].grant] \in Grant
    BY <1>2, <1>3, <1>4
  <2>. QED BY <2>1, SettledType, GrantAnswerType
<1>. HIDE DEF answer
<1>5. \A a \in Attempts : a \in AttemptsOf(engine.grants, ids) =>
        [rebound[a] EXCEPT !.outcome = answer(a)] \in Attempt
  BY <1>2, <1>4 DEF Attempt
<1>6. SettledAttempts(engine) =
        [a \in Attempts |-> IF a \in AttemptsOf(engine.grants, ids)
                            THEN [rebound[a] EXCEPT !.outcome = answer(a)] ELSE rebound[a]]
  BY DEF SettledAttempts, rebound, ids, answer
<1>. QED BY <1>2, <1>5, <1>6

LEMMA RepairedType ==
  ASSUME NEW grants \in [GrantIds -> Grant], NEW id \in GrantIds
  PROVE  Repaired(grants, id) \in Attempt
<1>. DEFINE answer == GrantAnswer(grants[id])
            released == grants[id].state \in {"Released", "Prepared"}
<1>1. answer \in Outcomes
  BY GrantAnswerType
<1>2. released \in BOOLEAN
  OBVIOUS
<1>3. Repaired(grants, id) =
        [NoAttempt EXCEPT !.known = TRUE, !.grant = id, !.outcome = answer,
                          !.released = released]
  BY DEF Repaired
<1>. HIDE DEF answer, released
<1>. QED BY <1>1, <1>2, <1>3 DEF NoAttempt, Attempt, Digest

\* However many of its records fit, recovery leaves an engine its log covers.
LEMMA RecoverPointSafe ==
  ASSUME disk \in Image, ImageOK(disk), disk.spec.bound,
         NEW engine \in Engine, engine.grants = disk.grants, engine.spec.bound,
         \A g \in GrantIds : g > engine.serial => engine.grants[g].state = "Absent",
         NEW records
  PROVE  LET point == RecoverPoint(engine, records)
         IN  point \in StartPoints /\ Covers(point.disk, point.mem)
<1>. DEFINE live     == Live(engine.grants)
            settles  == Settles(engine)
            recorded == {g \in live : AppendOf(engine, g) <= records}
            rows     == [g \in GrantIds |->
                           IF g \in Settles(engine) THEN Settled(engine.grants[g])
                           ELSE Revalidated(engine, engine.grants[g])]
            grants   == Rewritten(engine.grants, recorded \cup Settles(engine), rows)
            settled  == SettledAttempts(engine)
            orphans  == Orphans(engine)
            attempts == [a \in Attempts |->
                           IF a \in AttemptsOf(engine.grants, orphans)
                           THEN Repaired(grants, GrantOf(engine.grants, orphans, a))
                           ELSE settled[a]]
            noted    == {g \in Settles(engine) : AppendOf(engine, g) < records}
                          \cup {g \in orphans : RepairOf(engine, g) <= records}
            next     == [engine EXCEPT !.grants = grants, !.attempts = attempts]
            begun    == WriteEpoch(disk, engine.tick)
            middle   == WriteGrants(begun, recorded, rows, engine.tick)
            written  == WriteAttempts(middle, AttemptsOf(engine.grants, noted), attempts,
                                      engine.tick)
<1>1. /\ engine.grants \in [GrantIds -> Grant] /\ engine.tick \in Nat
      /\ engine.serial \in Nat
  BY EngineFields
<1>2. /\ live \in SUBSET GrantIds /\ settles \in SUBSET live /\ recorded \in SUBSET live
      /\ recorded \in SUBSET GrantIds /\ orphans \in SUBSET GrantIds
      /\ \A g \in live : IsLive(engine.grants[g].state)
  BY DEF Live, Settles, Orphans, Present
<1>3. RecoverPoint(engine, records) = Point(next, written, None)
  BY DEF RecoverPoint
<1>4. /\ rows \in [GrantIds -> Grant]
      /\ \A g \in GrantIds : rows[g] = IF g \in settles THEN Settled(engine.grants[g])
                                        ELSE Revalidated(engine, engine.grants[g])
  BY <1>1, SettledType, RevalidatedType
<1>5. /\ grants \in [GrantIds -> Grant]
      /\ \A g \in GrantIds :
           grants[g] = IF g \in recorded \cup settles THEN rows[g] ELSE engine.grants[g]
  <2>. HIDE DEF rows, recorded
  <2>. QED BY <1>1, <1>4 DEF Rewritten
<1>. HIDE DEF rows, grants, orphans, noted, recorded, live, settles
<1>6. attempts \in [Attempts -> Attempt]
  <2>1. settled \in [Attempts -> Attempt]
    BY SettledAttemptsType
  <2>2. ASSUME NEW a \in Attempts, a \in AttemptsOf(engine.grants, orphans)
        PROVE  Repaired(grants, GrantOf(engine.grants, orphans, a)) \in Attempt
    <3>1. \E g \in orphans : engine.grants[g].attempt = a
      BY <2>2 DEF AttemptsOf
    <3>2. GrantOf(engine.grants, orphans, a) \in GrantIds
      BY <1>2, <3>1 DEF GrantOf
    <3>. QED BY <1>5, <3>2, RepairedType
  <2>. QED BY <2>1, <2>2
<1>. HIDE DEF attempts
<1>7. /\ next \in Engine /\ next.grants = grants
      /\ next.serial = engine.serial /\ next.spec = engine.spec
  BY <1>5, <1>6 DEF Engine
<1>8. begun \in Image /\ begun.grants = disk.grants /\ begun.spec.bound = disk.spec.bound
  BY <1>1, WriteEpochType
<1>. HIDE DEF begun
<1>9. /\ middle \in Image
      /\ \A g \in GrantIds :
           middle.grants[g] = IF g \in recorded THEN rows[g] ELSE begun.grants[g]
      /\ middle.spec = begun.spec
  <2>1. /\ begun \in Image /\ recorded \in SUBSET GrantIds
        /\ rows \in [GrantIds -> Grant] /\ engine.tick \in Nat
    BY <1>1, <1>2, <1>4, <1>8
  <2>. QED BY <2>1, WriteGrantsType
<1>. HIDE DEF middle, next
<1>10. /\ written \in Image /\ written.grants = middle.grants
       /\ written.spec = middle.spec
  BY <1>1, <1>6, <1>9, WriteAttemptsType
<1>. HIDE DEF written
<1>11. \A g \in GrantIds : Own(Revalidated(engine, engine.grants[g]))
  BY <1>1, RevalidatedOwn
<1>12. ASSUME NEW g \in GrantIds
       PROVE  /\ Covered(next.grants[g], written.grants[g])
              /\ Logged(written.grants[g])
              /\ IsTerminal(disk.grants[g].state) =>
                   written.grants[g].state = disk.grants[g].state
  <2>. DEFINE grant == engine.grants[g]
  <2>1. /\ grant \in Grant /\ grant = disk.grants[g] /\ Logged(grant)
        /\ g \in live => IsLive(grant.state)
    BY <1>1, <1>2 DEF ImageOK
  <2>2. /\ next.grants[g] = IF g \in recorded \cup settles THEN rows[g] ELSE grant
        /\ written.grants[g] = IF g \in recorded THEN rows[g] ELSE grant
    BY <1>5, <1>7, <1>8, <1>9, <1>10
  <2>3. /\ Settled(grant) \in Grant
        /\ grant.commit = "Prepared" => Settled(grant).state = "Released"
        /\ grant.commit # "Prepared" => /\ Settled(grant).state = "Ambiguous"
                                         /\ Settled(grant).commit = "Ambiguous"
        /\ SameReservation(Settled(grant), grant)
    BY <2>1, SettledType
  <2>4. rows[g] = IF g \in settles THEN Settled(grant) ELSE Revalidated(engine, grant)
    BY <1>4
  <2>5. Own(Revalidated(engine, grant))
    BY <1>11
  <2>6. SameReservation(Settled(grant), Settled(grant)) /\ SameReservation(grant, grant)
    BY DEF SameReservation
  <2>. HIDE DEF grant
  <2>7. IsLive(grant.state) => /\ Own(Settled(grant)) /\ Covered(Settled(grant), grant)
                               /\ ~IsTerminal(grant.state)
    BY <2>1, <2>3, <2>6
       DEF Own, Covered, Logged, IsLive, HoldsCapacity, IsQuarantined, IsTerminal
  <2>8. CASE g \in recorded
    <3>1. IsLive(grant.state) /\ next.grants[g] = rows[g] /\ written.grants[g] = rows[g]
      BY <1>2, <2>1, <2>2, <2>8
    <3>. QED BY <2>1, <2>4, <2>5, <2>7, <3>1 DEF Own
  <2>9. CASE g \in settles /\ g \notin recorded
    <3>1. /\ IsLive(grant.state) /\ next.grants[g] = Settled(grant)
          /\ written.grants[g] = grant
      BY <1>2, <2>1, <2>2, <2>4, <2>9
    <3>. QED BY <2>1, <2>7, <3>1
  <2>10. CASE g \notin settles /\ g \notin recorded
    <3>1. next.grants[g] = grant /\ written.grants[g] = grant
      BY <2>2, <2>10
    <3>2. grant.state # "Prepared"
      <4>1. grant.state = "Prepared" => grant.commit = "Prepared"
        BY <2>1 DEF Logged
      <4>2. IsLive(grant.state) => grant.commit # "Prepared"
        BY <2>10 DEF settles, Settles, Reissues, Live, grant
      <4>. QED BY <4>1, <4>2 DEF IsLive
    <3>. QED BY <2>1, <2>6, <3>1, <3>2
         DEF Covered, Logged, HoldsCapacity, IsQuarantined, IsTerminal
  <2>. QED BY <2>8, <2>9, <2>10
<1>13. ASSUME NEW g \in GrantIds, g > next.serial
       PROVE  next.grants[g].state = "Absent" /\ written.grants[g].state = "Absent"
  <2>1. engine.grants[g].state = "Absent"
    BY <1>7, <1>13
  <2>2. g \notin live
    BY <1>2, <2>1 DEF IsLive
  <2>3. g \notin recorded /\ g \notin settles
    BY <1>2, <2>2
  <2>. QED BY <1>5, <1>7, <1>8, <1>9, <1>10, <2>1, <2>3
<1>14. next.spec.bound /\ written.spec.bound
  BY <1>7, <1>8, <1>9, <1>10
<1>15. Covers(written, next) /\ ImageOK(written) /\ Keeps(written)
  BY <1>12, <1>13, <1>14 DEF Covers, ImageOK, Keeps
<1>16. /\ Point(next, written, None) \in PointType
       /\ Point(next, written, None).mem = next /\ Point(next, written, None).disk = written
  BY <1>7, <1>10, PointFields
<1>. QED BY <1>3, <1>15, <1>16 DEF StartPoints

LEMMA RecoverSafe ==
  ASSUME Inv, Recover
  PROVE  Inv' /\ KeepsEnded
<1>. DEFINE engine  == Recovered
            records == RepairOf(engine, Cardinality(GrantIds))
            points  == RecoverPoints(engine)
            n       == Reached(points, Options.attaches)
<1>1. disk \in Image /\ ImageOK(disk) /\ disk.spec.bound /\ starts \in Nat
  BY CoreAssumption DEF Inv, CoreInv, Recover
<1>2. /\ engine \in Engine /\ engine.grants = disk.grants /\ engine.spec.bound
      /\ \A g \in GrantIds : g > engine.serial => engine.grants[g].state = "Absent"
  BY <1>1, RecoveredType
<1>. HIDE DEF engine
<1>3. records \in Nat
  <2>. DEFINE known == {h \in Orphans(engine) : h <= Cardinality(GrantIds)}
              c1 == Cardinality(Live(engine.grants))
              c2 == Cardinality(Settles(engine))
              c3 == Cardinality(known)
  <2>1. /\ Live(engine.grants) \in SUBSET GrantIds
        /\ Settles(engine) \in SUBSET GrantIds
        /\ known \in SUBSET GrantIds
    BY DEF Live, Settles, Orphans, Present
  <2>2. c1 \in Nat /\ c2 \in Nat /\ c3 \in Nat
    BY <2>1, CountType
  <2>3. records = 1 + c1 + c2 + c3
    BY DEF RepairOf
  <2>. HIDE DEF c1, c2, c3, records
  <2>. QED BY <2>2, <2>3
<1>. DEFINE first == Point(NoEngine, disk, None)
            point(k) == IF k = 1 THEN first ELSE RecoverPoint(engine, k - 1)
<1>4. points = [k \in 1..records + 1 |-> point(k)]
  BY DEF RecoverPoints
<1>. HIDE DEF records
<1>5. first \in StartPoints
  <2>1. first \in PointType /\ first.disk = disk
    BY <1>1, NoEngineType, PointFields
  <2>. QED BY <1>1, <2>1 DEF StartPoints, Keeps
<1>6. \A k : /\ RecoverPoint(engine, k) \in StartPoints
            /\ Covers(RecoverPoint(engine, k).disk, RecoverPoint(engine, k).mem)
  BY <1>1, <1>2, RecoverPointSafe
<1>. HIDE DEF first
<1>7. [k \in 1..records + 1 |-> point(k)] \in [1..records + 1 -> StartPoints]
  BY <1>5, <1>6
<1>8. /\ points \in Seq(StartPoints) /\ Len(points) = records + 1
      /\ records + 1 \in Nat /\ records + 1 >= 1
  BY <1>3, <1>4, <1>7, PointSequence
<1>9. n \in 1..records + 1
  BY <1>1, <1>8, ReachedType DEF Inv, CoreInv
<1>10. n > 1 /\ Starts(points, Options.attaches) /\ Options.attaches \in BOOLEAN
  BY EligibilityAssumption DEF Recover, engine
<1>11. points[n] = RecoverPoint(engine, n - 1)
  <2>. HIDE DEF points, n
  <2>1. points[n] = point(n) /\ n # 1
    BY <1>4, <1>9, <1>10
  <2>. QED BY <2>1
<1>12. Covers(points[n].disk, points[n].mem)
  BY <1>6, <1>11
<1>. HIDE DEF points
<1>. QED BY <1>8, <1>10, <1>12, StartsSafe DEF n

-------------------------------------------------------------------------------
(* Compaction and housekeeping *)

\* A snapshot replays to the engine it was made of.
LEMMA SnapshotSafe ==
  ASSUME NEW engine \in Engine, NEW image, Agree(engine, image)
  PROVE  /\ Snapshot(engine) \in Image
         /\ Agree(engine, Snapshot(engine))
<1>1. Snapshot(engine) \in Image
  BY EngineFields DEF Snapshot, Image
<1>2. Snapshot(engine).grants = engine.grants /\ Snapshot(engine).spec = engine.spec
  BY DEF Snapshot
<1>3. ASSUME NEW g \in GrantIds
      PROVE  /\ Logged(engine.grants[g]) /\ Covered(engine.grants[g], engine.grants[g])
             /\ IsTerminal(disk.grants[g].state) =>
                  engine.grants[g].state = disk.grants[g].state
  BY DEF Agree, Covers, Covered, Keeps, Logged, SameReservation, HoldsCapacity,
         IsQuarantined, IsTerminal
<1>4. Covers(Snapshot(engine), engine)
  BY <1>2, <1>3 DEF Agree, Covers
<1>. QED BY <1>1, <1>2, <1>3, <1>4 DEF Agree, Covers, ImageOK, Keeps

LEMMA CompactsSafe ==
  ASSUME Inv, up, NEW engine \in Engine, NEW image, Agree(engine, image),
         JournalBound # 0, Compacts(engine)
  PROVE  Inv' /\ KeepsEnded
<1>1. /\ disk' = Snapshot(engine) /\ disk' \in Image
      /\ ImageOK(disk') /\ Covers(disk', engine) /\ KeepsEnded
  <2>1. Snapshot(engine) \in Image /\ Agree(engine, Snapshot(engine))
    BY SnapshotSafe
  <2>2. disk' = Snapshot(engine)
    BY DEF Compacts
  <2>. QED BY <2>1, <2>2 DEF Agree, ImageOK, Covers, Keeps, KeepsEnded
<1>2. JournalBound \in Nat /\ 1 \in 0..JournalBound
      /\ Least(2, JournalBound) \in 0..JournalBound
  BY CoreAssumption DEF Least
<1>3. CASE /\ mem' = engine
           /\ used' = Least(2, JournalBound)
           /\ UNCHANGED <<up, sink, starts, answered, acks>>
  BY <1>1, <1>2, <1>3 DEF Inv, CoreInv, HistoryOK, ImageOK, Covers
<1>4. CASE /\ used' \in {1, Least(2, JournalBound)}
           /\ Falls
           /\ UNCHANGED <<starts, acks>>
  <2>1. UNCHANGED answered /\ used' \in 0..JournalBound
    BY <1>2, <1>4 DEF Falls
  <2>2. CoreInv'
    BY <1>1, <1>4, <2>1, FallsSafe DEF Inv
  <2>. QED BY <1>1, <1>4, <2>1, <2>2 DEF Inv, HistoryOK
<1>. QED BY <1>3, <1>4 DEF Compacts

-------------------------------------------------------------------------------
(* Every step *)

LEMMA InitSafe == ASSUME Init PROVE Inv
<1>1. /\ disk \in Image /\ disk.grants = NoGrants
      /\ JournalBound \in Nat /\ MaxStarts \in Nat
  BY CoreAssumption DEF Init
<1>2. \A g \in GrantIds : Logged(disk.grants[g])
  BY <1>1 DEF NoGrants, NoGrant, Logged, HoldsCapacity, IsQuarantined
<1>3. ImageOK(disk) /\ mem \in Engine
  BY <1>1, <1>2, NoEngineType DEF Init, ImageOK
<1>4. used \in 0..JournalBound /\ starts \in 0..MaxStarts
  BY <1>1 DEF Init
<1>5. HistoryOK
  BY DEF Init, HistoryOK
<1>. QED BY <1>1, <1>3, <1>4, <1>5 DEF Init, Inv, CoreInv

\* A reply changes nothing but what its caller knows.
LEMMA TellsSafe ==
  ASSUME Inv, NEW attempt, NEW outcome \in Outcomes, Tells(attempt, outcome)
  PROVE  Inv' /\ KeepsEnded
<1>1. /\ answered' \in [Attempts -> Outcomes \cup {None}]
      /\ UNCHANGED <<up, sink, mem, disk, used, starts, acks>>
  BY DEF Tells, Inv, HistoryOK
<1>. QED BY <1>1 DEF Inv, CoreInv, HistoryOK, ImageOK, Covers, KeepsEnded

LEMMA ResolveOutcomeType ==
  ASSUME mem \in Engine, NEW attempt \in Attempts
  PROVE  ResolveOutcome(attempt) \in Outcomes
<1>1. mem.attempts[attempt] \in Attempt
  BY EngineFields
<1>2. /\ mem.attempts[attempt].grant \in GrantIds \cup {0}
      /\ mem.attempts[attempt].outcome \in Outcomes
  BY <1>1 DEF Attempt
<1>3. \A g \in GrantIds : GrantAnswer(mem.grants[g]) \in Outcomes
  BY EngineFields, GrantAnswerType
<1>4. {"Unknown", "Cancelled", "Refused"} \subseteq Outcomes
  BY DEF Outcomes
<1>. QED BY <1>2, <1>3, <1>4 DEF ResolveOutcome

LEMMA ReplayOutcomeType ==
  ASSUME mem \in Engine, NEW request \in Requests, NEW view
  PROVE  ReplayOutcome(request, view) \in Outcomes
<1>. DEFINE attempt == mem.attempts[request.attempt]
            granted == attempt.grant # 0 /\ mem.grants[attempt.grant].state # "Absent"
            held    == granted /\ IsQuarantined(mem.grants[attempt.grant].state)
            mine    == [request |-> request, view |-> view]
            told    == IF attempt.cancelled THEN "Cancelled"
                       ELSE IF attempt.released THEN "Refused"
                       ELSE IF granted THEN GrantAnswer(mem.grants[attempt.grant])
                       ELSE attempt.outcome
<1>1. request.attempt \in Attempts
  BY CoreAssumption DEF Request
<1>2. attempt \in Attempt
  BY <1>1, EngineFields
<1>3. attempt.grant \in GrantIds \cup {0} /\ attempt.outcome \in Outcomes
  BY <1>2 DEF Attempt
<1>4. \A g \in GrantIds : GrantAnswer(mem.grants[g]) \in Outcomes
  BY EngineFields, GrantAnswerType
<1>5. {"Indeterminate", "Conflicting", "Cancelled", "Refused"} \subseteq Outcomes
  BY DEF Outcomes
<1>. HIDE DEF attempt
<1>6. told \in Outcomes
  BY <1>3, <1>4, <1>5
<1>7. \/ ReplayOutcome(request, view) \in {"Indeterminate", "Conflicting"}
      \/ ReplayOutcome(request, view) = told
  <2>1. CASE attempt.digest = None /\ held
    <3>1. ReplayOutcome(request, view) = "Indeterminate"
      BY <2>1 DEF ReplayOutcome, attempt
    <3>. QED BY <3>1
  <2>2. CASE attempt.digest = None /\ ~held
    <3>1. ReplayOutcome(request, view) = "Conflicting"
      BY <2>2 DEF ReplayOutcome, attempt
    <3>. QED BY <3>1
  <2>3. CASE attempt.digest \notin {None, mine}
    <3>1. ReplayOutcome(request, view) = "Conflicting"
      BY <2>3 DEF ReplayOutcome, attempt
    <3>. QED BY <3>1
  <2>4. CASE attempt.digest # None /\ attempt.digest = mine
    <3>1. ReplayOutcome(request, view) = told
      BY <2>4 DEF ReplayOutcome, attempt
    <3>. QED BY <3>1
  <2>. QED BY <2>1, <2>2, <2>3, <2>4
<1>. QED BY <1>5, <1>6, <1>7

\* The engine with its clock moved on.
LEMMA TickedSafe ==
  ASSUME CoreInv, NEW tick \in Nat
  PROVE  LET points == Expiry([mem EXCEPT !.tick = tick], disk)
         IN  points \in Seq(SafePoints) /\ Len(points) >= 1
<1>. DEFINE next == [mem EXCEPT !.tick = tick]
<1>1. /\ next \in Engine
      /\ next.grants = mem.grants /\ next.serial = mem.serial /\ next.spec = mem.spec
  BY DEF CoreInv, Engine
<1>. HIDE DEF next
<1>2. sink = "journal" => Agree(next, disk)
  BY <1>1, StartSafe, SameSafe
<1>3. disk \in Image
  BY DEF CoreInv
<1>4. Expiry(next, disk) \in Seq(SafePoints) /\ Len(Expiry(next, disk)) >= 1
  BY <1>1, <1>2, <1>3, ExpirySafe
<1>. QED BY <1>4 DEF next

LEMMA RoundPointsSafe ==
  ASSUME CoreInv
  PROVE  RoundPoints \in Seq(SafePoints) /\ Len(RoundPoints) >= 1
<1>1. mem.tick + 1 \in Nat
  BY EngineFields DEF CoreInv
<1>2. RoundPoints = Expiry([mem EXCEPT !.tick = mem.tick + 1], disk)
  BY DEF RoundPoints
<1>. QED BY <1>1, <1>2, TickedSafe

\* What each caller's request comes to.
LEMMA SubmitSafe ==
  ASSUME Inv, NEW request \in Requests, NEW view \in Views,
         \/ Replay(request, view) \/ Refuse(request, view)
         \/ Issue(request, view) \/ Renew(request, view)
  PROVE  Inv' /\ KeepsEnded
<1>1. mem \in Engine /\ CoreInv /\ view \in View /\ request \in Request
  BY ViewsType, CoreAssumption DEF Inv, CoreInv
<1>2. CASE Replay(request, view)
  BY <1>1, <1>2, ReplayOutcomeType, TellsSafe DEF Replay
<1>3. CASE Refuse(request, view)
  <2>1. Decision(request).outcome \in Outcomes
    BY <1>1, DecisionType
  <2>. QED BY <1>3, <2>1, TellsSafe DEF Refuse
<1>4. CASE Issue(request, view)
  <2>. DEFINE points == GrantPoints(request, view, Decision(request))
  <2>1. up /\ Answers(points, request.attempt)
    BY <1>4 DEF Issue
  <2>2. points \in Seq(SafePoints) /\ Len(points) >= 1
    BY <1>1, <1>4, GrantPointsSafe DEF Issue
  <2>. HIDE DEF points
  <2>. QED BY <2>1, <2>2, AnswersSafe
<1>5. CASE Renew(request, view)
  <2>. DEFINE points == RenewPoints(request, Decision(request))
  <2>1. up /\ Performs(points)
    BY <1>5 DEF Renew
  <2>2. points \in Seq(SafePoints) /\ Len(points) >= 1
    BY <1>1, <1>5, RenewPointsSafe DEF Renew
  <2>. HIDE DEF points
  <2>. QED BY <2>1, <2>2, PerformsSafe
<1>. QED BY <1>2, <1>3, <1>4, <1>5

LEMMA ReleaseSafe ==
  ASSUME Inv, NEW id \in GrantIds \cup {0}, NEW attempt \in Attempts \cup {None},
         NEW lease, Release(id, attempt, lease)
  PROVE  Inv' /\ KeepsEnded
<1>. DEFINE target == Reaches(id, attempt)
<1>1. target \in GrantIds \cup {0}
  BY ReachesType DEF Inv, CoreInv
<1>2. /\ up /\ target # 0 /\ mem.grants[target].state # "Absent"
      /\ ~IsTerminal(mem.grants[target].state)
      /\ Performs(ReleasePoints(target))
  BY DEF Release
<1>. HIDE DEF target
<1>3. ReleasePoints(target) \in Seq(SafePoints) /\ Len(ReleasePoints(target)) >= 1
  BY <1>1, <1>2, ReleasePointsSafe DEF Inv
<1>. QED BY <1>2, <1>3, PerformsSafe

LEMMA AcknowledgeSafe ==
  ASSUME Inv, NEW id \in GrantIds, NEW lease, Acknowledge(id, lease)
  PROVE  Inv' /\ KeepsEnded
<1>. DEFINE points == AcknowledgePoints(id)
<1>1. up /\ points \in Seq(SafePoints) /\ Len(points) >= 1 /\ CoreInv
  BY AcknowledgePointsSafe DEF Acknowledge, Inv
<1>2. /\ acks' \in [GrantIds -> {"none", "sent", "accepted"}]
      /\ \/ Completes(points) /\ UNCHANGED answered
         \/ CrashesIn(points)
  BY DEF Acknowledge, Inv, HistoryOK
<1>. HIDE DEF points
<1>3. CASE Completes(points) /\ UNCHANGED answered
  BY <1>1, <1>2, <1>3, CompletesSafe DEF Inv, HistoryOK
<1>4. CASE CrashesIn(points)
  <2>1. UNCHANGED answered
    BY <1>4 DEF CrashesIn, Falls
  <2>. QED BY <1>1, <1>2, <1>4, <2>1, CrashesSafe DEF Inv, HistoryOK
<1>. QED BY <1>2, <1>3, <1>4

LEMMA CancelSafe ==
  ASSUME Inv, NEW id \in GrantIds \cup {0}, NEW named \in Attempts \cup {None},
         Cancel(id, named)
  PROVE  Inv' /\ KeepsEnded
<1>1. CancelPoints(id, named) \in Seq(SafePoints) /\ Len(CancelPoints(id, named)) >= 1
  BY CancelPointsSafe DEF Inv
<1>2. up /\ \E attempt : Answers(CancelPoints(id, named), attempt)
  BY DEF Cancel
<1>. QED BY <1>1, <1>2, AnswersSafe

LEMMA FenceAllSafe == ASSUME Inv, FenceAll PROVE Inv' /\ KeepsEnded
<1>. DEFINE targets == Holders(mem.grants)
            rows == AllTerminated(mem, "Fenced")
<1>1. mem \in Engine /\ disk \in Image /\ mem.grants \in [GrantIds -> Grant]
  BY EngineFields DEF Inv, CoreInv
<1>2. "Fenced" \in GrantStates /\ IsTerminal("Fenced")
  BY DEF GrantStates, IsTerminal
<1>3. rows \in [GrantIds -> Grant] /\ \A g \in GrantIds : Own(rows[g])
  BY <1>1, <1>2, TerminatedType, TerminatedOwn DEF AllTerminated
<1>4. /\ targets \in SUBSET GrantIds
      /\ \A g \in targets : HoldsCapacity(mem.grants[g].state)
  BY DEF Holders
<1>5. sink = "journal" => Agree(mem, disk)
  BY StartSafe DEF Inv
<1>6. up /\ Performs(Sweep(mem, disk, targets, rows))
  BY DEF FenceAll
<1>. HIDE DEF targets, rows
<1>7. /\ Sweep(mem, disk, targets, rows) \in Seq(SafePoints)
      /\ Len(Sweep(mem, disk, targets, rows)) >= 1
  BY <1>1, <1>3, <1>4, <1>5, SweepSafe
<1>. QED BY <1>6, <1>7, PerformsSafe

LEMMA RevalidateSafe == ASSUME Inv, Revalidate PROVE Inv' /\ KeepsEnded
<1>. DEFINE targets == Live(mem.grants)
            rows == AllRevalidated(mem)
<1>1. mem \in Engine /\ disk \in Image
  BY DEF Inv, CoreInv
<1>2. rows \in [GrantIds -> Grant] /\ \A g \in GrantIds : Own(rows[g])
  BY <1>1, AllRevalidatedType
<1>3. targets \in SUBSET GrantIds
  BY DEF Live
<1>4. sink = "journal" => Agree(mem, disk)
  BY StartSafe DEF Inv
<1>5. sink = "journal" => \A g \in targets : HoldsCapacity(mem.grants[g].state)
  BY <1>1, <1>4, LiveHolds DEF Agree
<1>6. up /\ Performs(Sweep(mem, disk, targets, rows))
  BY DEF Revalidate
<1>. HIDE DEF targets, rows
<1>7. /\ Sweep(mem, disk, targets, rows) \in Seq(SafePoints)
      /\ Len(Sweep(mem, disk, targets, rows)) >= 1
  BY <1>1, <1>2, <1>3, <1>4, <1>5, SweepSafe
<1>. QED BY <1>6, <1>7, PerformsSafe

LEMMA CompactSafe == ASSUME Inv, Compact PROVE Inv' /\ KeepsEnded
<1>1. up /\ sink = "journal" /\ JournalBound # 0 /\ Compacts(mem)
  BY DEF Compact, Full
<1>2. mem \in Engine /\ Agree(mem, disk)
  BY <1>1, StartSafe DEF Inv, CoreInv
<1>. QED BY <1>1, <1>2, CompactsSafe

LEMMA RoundSafe ==
  ASSUME Inv, HousekeepingRound \/ CompactingRound \/ CrashingRound
  PROVE  Inv' /\ KeepsEnded
<1>1. CoreInv /\ RoundPoints \in Seq(SafePoints) /\ Len(RoundPoints) >= 1
  BY RoundPointsSafe DEF Inv
<1>2. CASE HousekeepingRound
  <2>1. up /\ Completes(RoundPoints) /\ UNCHANGED <<answered, acks>>
    BY <1>2 DEF HousekeepingRound
  <2>. QED BY <1>1, <2>1, CompletesSafe DEF Inv, HistoryOK
<1>3. CASE CompactingRound
  <2>. DEFINE n == Reached(RoundPoints, sink = "journal")
              point == RoundPoints[n]
  <2>1. up /\ FullAfterRound /\ Compacts(point.mem)
    BY <1>3 DEF CompactingRound
  <2>2. sink = "journal" /\ JournalBound # 0
    BY <2>1 DEF FullAfterRound, Full
  <2>3. n \in 1..Len(RoundPoints)
    BY <1>1, ReachedType DEF CoreInv
  <2>. HIDE DEF n
  <2>4. point \in SafePoints
    BY <1>1, <2>3
  <2>5. point.mem \in Engine /\ Agree(point.mem, point.disk)
    BY <2>2, <2>4 DEF SafePoints, PointType, Safe
  <2>. HIDE DEF point
  <2>. QED BY <2>1, <2>2, <2>5, CompactsSafe
<1>4. CASE CrashingRound
  <2>1. up /\ CrashesIn(RoundPoints) /\ UNCHANGED acks
    BY <1>4 DEF CrashingRound
  <2>2. UNCHANGED answered
    BY <2>1 DEF CrashesIn, Falls
  <2>. QED BY <1>1, <2>1, <2>2, CrashesSafe DEF Inv, HistoryOK
<1>. QED BY <1>2, <1>3, <1>4

\* One step per operation of the daemon.
LEMMA NextSafe == ASSUME Inv, Next PROVE Inv' /\ KeepsEnded
<1>1. CASE Initialize
  BY <1>1, InitializeSafe
<1>2. CASE Recover
  BY <1>2, RecoverSafe
<1>3. CASE Stop
  <2>1. CoreInv /\ Falls /\ UNCHANGED <<disk, used, starts, acks, answered>>
    BY <1>3 DEF Stop, Falls, Inv
  <2>2. disk' \in Image /\ ImageOK(disk') /\ used' \in 0..JournalBound
    BY <2>1 DEF CoreInv, ImageOK
  <2>3. CoreInv'
    BY <2>1, <2>2, FallsSafe
  <2>. QED BY <2>1, <2>3 DEF Inv, HistoryOK, KeepsEnded
<1>4. CASE \E request \in Requests, view \in Views :
             \/ Replay(request, view) \/ Refuse(request, view)
             \/ Issue(request, view) \/ Renew(request, view)
  BY <1>4, SubmitSafe
<1>5. CASE \E id \in GrantIds \cup {0}, attempt \in Attempts \cup {None},
             lease \in GrantIds \cup {0} : Release(id, attempt, lease)
  BY <1>5, ReleaseSafe
<1>6. CASE \E attempt \in Attempts : Resolve(attempt)
  <2>1. PICK attempt \in Attempts : Tells(attempt, ResolveOutcome(attempt))
    BY <1>6 DEF Resolve
  <2>2. ResolveOutcome(attempt) \in Outcomes
    BY ResolveOutcomeType DEF Inv, CoreInv
  <2>. QED BY <2>1, <2>2, TellsSafe
<1>7. CASE \E id \in GrantIds, lease \in GrantIds : Acknowledge(id, lease)
  BY <1>7, AcknowledgeSafe
<1>8. CASE \E id \in GrantIds \cup {0}, attempt \in Attempts \cup {None} :
             CancelForm(id, attempt) \in CancelForms /\ Cancel(id, attempt)
  BY <1>8, CancelSafe
<1>9. CASE \E command \in Commands : Administer(command)
  <2>1. PICK command \in Commands : up /\ Performs(CommandPoints(command))
    BY <1>9 DEF Administer
  <2>2. CommandPoints(command) \in Seq(SafePoints) /\ Len(CommandPoints(command)) >= 1
    BY CommandPointsSafe DEF Inv
  <2>. QED BY <2>1, <2>2, PerformsSafe
<1>10. CASE FenceAll
  BY <1>10, FenceAllSafe
<1>11. CASE Revalidate
  BY <1>11, RevalidateSafe
<1>12. CASE \E tick \in 0..MaxTick : AdvanceTick(tick)
  <2>1. PICK tick \in 0..MaxTick : up /\ Performs(Expiry([mem EXCEPT !.tick = tick], disk))
    BY <1>12 DEF AdvanceTick
  <2>. DEFINE points == Expiry([mem EXCEPT !.tick = tick], disk)
  <2>2. tick \in Nat
    BY <2>1, CoreAssumption
  <2>3. points \in Seq(SafePoints) /\ Len(points) >= 1
    BY <2>2, TickedSafe DEF Inv
  <2>4. up /\ Performs(points)
    BY <2>1
  <2>. HIDE DEF points
  <2>. QED BY <2>3, <2>4, PerformsSafe
<1>13. CASE Compact
  BY <1>13, CompactSafe
<1>14. CASE HousekeepingRound \/ CompactingRound \/ CrashingRound
  BY <1>14, RoundSafe
<1>. QED BY <1>1, <1>2, <1>3, <1>4, <1>5, <1>6, <1>7, <1>8, <1>9, <1>10, <1>11, <1>12,
            <1>13, <1>14 DEF Next

LEMMA StepSafe == ASSUME Inv, [Next]_vars PROVE Inv' /\ KeepsEnded
<1>1. CASE Next
  BY <1>1, NextSafe
<1>2. CASE UNCHANGED vars
  BY <1>2 DEF vars, Inv, CoreInv, HistoryOK, ImageOK, Covers, KeepsEnded
<1>. QED BY <1>1, <1>2

-------------------------------------------------------------------------------
(* The theorems *)

\* The engine and its log stay paired, grant by grant, through every handler,
\* crash, restart and compaction.
THEOREM Pairing == Spec => []Inv
<1>1. Init => Inv
  BY InitSafe
<1>2. Inv /\ [Next]_vars => Inv'
  BY StepSafe
<1>. QED BY <1>1, <1>2, PTL DEF Spec

\* Every reachable state of the daemon is well typed: tables hold well-formed rows
\* under the ids they index, and the log stays within its bound.
THEOREM TypeCorrect == Spec => []TypeOK
<1>1. Inv => TypeOK
  BY DEF Inv, CoreInv, HistoryOK, TypeOK, EngineOK
<1>. QED BY <1>1, Pairing, PTL

\* The engine is never ahead of its log: capacity it holds is held there by the
\* same reservation, and what it has ended is ended there (commit_grant,
\* terminate_grant, revalidate_grant and the recovery policy write first).
THEOREM WritesAhead == Spec => []WriteAhead
<1>1. Inv => WriteAhead
  BY DEF Inv, CoreInv, WriteAhead, Covers, Covered
<1>. QED BY <1>1, Pairing, PTL

\* The log is never ahead of the engine in what has ended, whichever append of a
\* handler was refused.
THEOREM EndsTogether == Spec => []EndedInLogMeansEnded
<1>1. Inv => EndedInLogMeansEnded
  BY DEF Inv, CoreInv, EndedInLogMeansEnded, Covers, Covered
<1>. QED BY <1>1, Pairing, PTL

\* No crash, restart, compaction or later record brings back a grant the log has
\* ended (is_terminal).
THEOREM EndedForGood == Spec => TerminalIsFinal
<1>1. Inv /\ [Next]_vars =>
        [\A g \in GrantIds :
           IsTerminal(disk.grants[g].state) =>
             disk'.grants[g].state = disk.grants[g].state]_vars
  BY StepSafe DEF KeepsEnded
<1>. QED BY <1>1, Pairing, PTL DEF Spec, TerminalIsFinal

===============================================================================
