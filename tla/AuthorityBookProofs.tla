-------------------------- MODULE AuthorityBookProofs --------------------------
(***************************************************************************)
(* What AuthorityCore promises of attempts and grants, for every instance  *)
(* of it: one grant for an attempt, answers that agree with the grants,    *)
(* told grants that outlive crashes, and a log that, seen from outside, is *)
(* a ledger.  The invariant behind them, Books, says what the grants and   *)
(* the attempt records of the engine and of the log owe each other.  Engine*)
(* and log may drift apart only once an append was refused, and from then  *)
(* on the log is full: a handler that finds it full comes to its first     *)
(* point, where nothing has happened, and any other starts in step.        *)
(***************************************************************************)
EXTENDS AuthorityCoreProofs

-------------------------------------------------------------------------------
(* The books *)

Standing(state) == state # "Absent" /\ ~IsTerminal(state)

Issued(state) == state \notin {"Absent", "Prepared"}

\* A cancel that names a grant and an attempt may name two that do not belong
\* together: it ends the one and marks the other.
Mixed == "both" \in CancelForms

\* What an attempt record says of a grant that stands.
Speaks(record, g) ==
  record.known => record.grant = g /\ ~record.released /\ (record.cancelled => Mixed)

Filled(grants) ==
  \A g \in GrantIds :
    IF grants[g].state = "Absent" THEN grants[g] = NoGrant ELSE grants[g].attempt # None

\* The record of an attempt is empty, or names its grant, or was cancelled before
\* it had one.
Faithful(grants, record, a) ==
  /\ ~record.known => record = NoAttempt
  /\ record.grant # 0 =>
       grants[record.grant].state # "Absent" /\ grants[record.grant].attempt = a
  /\ record.known /\ record.grant = 0 => record.cancelled

Booked(grants, attempts) ==
  /\ Filled(grants)
  /\ Single(grants)
  /\ \A a \in Attempts : Faithful(grants, attempts[a], a)
  /\ \A g \in GrantIds :
       Standing(grants[g].state) => Speaks(attempts[grants[g].attempt], g)

Complete(grants, attempts) ==
  \A g \in GrantIds : grants[g].state # "Absent" => attempts[grants[g].attempt].known

\* The engine has only what was committed, under ids it has minted.
Minted(engine) ==
  \A g \in GrantIds :
    /\ engine.grants[g].state # "Prepared"
    /\ g > engine.serial => engine.grants[g].state = "Absent"

\* Whom a grant is for and what it joins.
SameIdentity(grant, other) ==
  /\ grant.attempt = other.attempt
  /\ grant.contract = other.contract
  /\ grant.source = other.source
  /\ grant.target = other.target
  /\ grant.path = other.path
  /\ grant.resource = other.resource
  /\ grant.sourceGen = other.sourceGen
  /\ grant.targetGen = other.targetGen
  /\ grant.pathGen = other.pathGen

\* The engine and its log tell of the same grants.
Linked(engine, image) ==
  /\ \A g \in GrantIds : engine.grants[g].state # "Absent" =>
       /\ image.grants[g].state # "Absent"
       /\ SameIdentity(engine.grants[g], image.grants[g])
  /\ Intact(image) => \A g \in GrantIds :
       Issued(image.grants[g].state) => engine.grants[g].state # "Absent"
  /\ \A g \in GrantIds :
       IsQuarantined(image.grants[g].state) => IsQuarantined(engine.grants[g].state)

\* And no record was refused since they were last equal.
Matched(engine, image) ==
  /\ image.attempts = engine.attempts
  /\ \A g \in GrantIds :
       /\ image.grants[g].state # "Absent" => engine.grants[g].state # "Absent"
       /\ IsTerminal(engine.grants[g].state) => IsTerminal(image.grants[g].state)

InStep(engine, image) == sink = "journal" /\ Intact(image) => Matched(engine, image)

\* Told is the set of the grants whose callers acknowledged them.
Told == {g \in GrantIds : acks[g] # "none"}

Heard(grants, told) == \A g \in GrantIds : Acknowledged(grants[g]) => g \in told

DigestOf(engine, g) == engine.attempts[engine.grants[g].attempt].digest

Recent(engine, told) ==
  \A g \in GrantIds : IsLive(engine.grants[g].state) =>
    \/ g \in told
    \/ /\ DigestOf(engine, g) # None
       /\ DigestOf(engine, g).view.epoch >= engine.spec.epoch

\* A renewal is given the lease it asks for, whatever the longest lease is.
RenewalsInReach ==
  \A request \in Requests : request.renews # 0 => request.lease <= Options.maxLease

InReach(grants, tick) ==
  RenewalsInReach => \A g \in GrantIds : grants[g].expiry <= tick + Options.maxLease

EngineGood(engine, told) ==
  /\ Booked(engine.grants, engine.attempts)
  /\ Complete(engine.grants, engine.attempts)
  /\ Minted(engine)
  /\ Heard(engine.grants, told)
  /\ Recent(engine, told)
  /\ InReach(engine.grants, engine.tick)

ImageGood(image, told) ==
  /\ Intact(image) => Booked(image.grants, image.attempts)
  /\ Heard(image.grants, told)
  /\ InReach(image.grants, image.tick)

Good(engine, image, told) ==
  /\ EngineGood(engine, told)
  /\ sink = "journal" =>
       /\ ImageGood(image, told)
       /\ Linked(engine, image)
       /\ image.spec = engine.spec /\ image.contracts = engine.contracts

-------------------------------------------------------------------------------
(* Rows *)

\* A grant that stands goes on as the same grant, or ends.
Kept(old, new) ==
  /\ Standing(old.state)
  /\ Issued(new.state)
  /\ SameIdentity(old, new)

LEMMA BookedRows ==
  ASSUME NEW old, NEW new, NEW attempts, Booked(old, attempts),
         \A a \in Attempts : attempts[a].grant \in GrantIds \cup {0},
         \A g \in GrantIds : new[g] = old[g] \/ Kept(old[g], new[g])
  PROVE  Booked(new, attempts)
<1>1. \A g \in GrantIds :
        /\ new[g].state # "Absent" <=> old[g].state # "Absent"
        /\ new[g].attempt = old[g].attempt
        /\ Standing(new[g].state) => Standing(old[g].state)
        /\ old[g].state = "Absent" => new[g] = old[g]
  BY DEF Kept, Issued, SameIdentity, Standing
<1>2. Filled(new)
  BY <1>1 DEF Booked, Filled
<1>3. Single(new)
  BY <1>1 DEF Booked, Single
<1>4. \A a \in Attempts : Faithful(new, attempts[a], a)
  <2>1. TAKE a \in Attempts
  <2>2. Faithful(old, attempts[a], a) /\ attempts[a].grant \in GrantIds \cup {0}
    BY DEF Booked
  <2>. QED BY <1>1, <2>2 DEF Faithful
<1>5. \A g \in GrantIds :
        Standing(new[g].state) => Speaks(attempts[new[g].attempt], g)
  BY <1>1 DEF Booked
<1>. QED BY <1>2, <1>3, <1>4, <1>5 DEF Booked

LEMMA CompleteRows ==
  ASSUME NEW old, NEW new, NEW attempts, Complete(old, attempts),
         \A g \in GrantIds : new[g] = old[g] \/ Kept(old[g], new[g])
  PROVE  Complete(new, attempts)
<1>1. \A g \in GrantIds :
        /\ new[g].state # "Absent" => old[g].state # "Absent"
        /\ new[g].attempt = old[g].attempt
  BY DEF Kept, SameIdentity, Standing
<1>. QED BY <1>1 DEF Complete

\* A row of the log goes along with the row of the engine.
Paired(new, row) ==
  /\ IsQuarantined(row.state) => IsQuarantined(new.state)
  /\ IsTerminal(new.state) => IsTerminal(row.state)

LEMMA LinkedRows ==
  ASSUME NEW engine, NEW next, NEW image, NEW written, Linked(engine, image),
         Intact(written) => Intact(image),
         \A g \in GrantIds :
           \/ next.grants[g] = engine.grants[g] /\ written.grants[g] = image.grants[g]
           \/ /\ Kept(engine.grants[g], next.grants[g])
              /\ Kept(image.grants[g], written.grants[g])
              /\ Paired(next.grants[g], written.grants[g])
  PROVE  Linked(next, written)
<1>1. \A g \in GrantIds : next.grants[g].state # "Absent" =>
        /\ written.grants[g].state # "Absent"
        /\ SameIdentity(next.grants[g], written.grants[g])
  <2>1. TAKE g \in GrantIds
  <2>2. CASE next.grants[g] = engine.grants[g] /\ written.grants[g] = image.grants[g]
    BY <2>2 DEF Linked
  <2>3. CASE /\ Kept(engine.grants[g], next.grants[g])
             /\ Kept(image.grants[g], written.grants[g])
    <3>1. SameIdentity(engine.grants[g], image.grants[g])
      BY <2>3 DEF Linked, Kept, Standing
    <3>. QED BY <2>3, <3>1 DEF Kept, SameIdentity, Issued
  <2>. QED BY <2>2, <2>3
<1>2. ASSUME Intact(written), NEW g \in GrantIds, Issued(written.grants[g].state)
      PROVE  next.grants[g].state # "Absent"
  BY <1>2 DEF Linked, Kept, Issued
<1>3. \A g \in GrantIds :
        IsQuarantined(written.grants[g].state) => IsQuarantined(next.grants[g].state)
  BY DEF Linked, Paired
<1>. QED BY <1>1, <1>2, <1>3 DEF Linked

LEMMA MatchedRows ==
  ASSUME NEW engine, NEW next, NEW image, NEW written, Matched(engine, image),
         next.attempts = written.attempts,
         \A g \in GrantIds :
           \/ next.grants[g] = engine.grants[g] /\ written.grants[g] = image.grants[g]
           \/ /\ Kept(engine.grants[g], next.grants[g])
              /\ Paired(next.grants[g], written.grants[g])
  PROVE  Matched(next, written)
  BY DEF Matched, Kept, Paired, Issued

\* Only the caller's word makes a grant acknowledged, or live again.
Heeds(g, old, new, told) ==
  /\ Acknowledged(new) => Acknowledged(old) \/ g \in told
  /\ IsLive(new.state) => IsLive(old.state) \/ g \in told

LEMMA ReachRows ==
  ASSUME NEW old \in [GrantIds -> Grant], NEW new, NEW tick \in Nat, NEW now \in Nat,
         now >= tick, InReach(old, tick),
         \A g \in GrantIds :
           \/ new[g] = old[g]
           \/ new[g].expiry = old[g].expiry
           \/ RenewalsInReach => new[g].expiry <= now + Options.maxLease
  PROVE  InReach(new, now)
<1>1. SUFFICES ASSUME RenewalsInReach, NEW g \in GrantIds
               PROVE  new[g].expiry <= now + Options.maxLease
  BY DEF InReach
<1>2. old[g].expiry \in Nat /\ old[g].expiry <= tick + Options.maxLease
  BY <1>1 DEF InReach, Grant
<1>3. Options.maxLease \in Nat
  BY EligibilityAssumption
<1>4. \A a, b, c, m \in Nat : a <= b + m /\ c >= b => a <= c + m
  OBVIOUS
<1>5. old[g].expiry <= now + Options.maxLease
  BY <1>2, <1>3, <1>4
<1>. QED BY <1>1, <1>5

LEMMA EngineGoodRows ==
  ASSUME NEW engine \in Engine, NEW next \in Engine, NEW told, EngineGood(engine, told),
         next.attempts = engine.attempts, next.serial >= engine.serial,
         next.spec.epoch = engine.spec.epoch,
         InReach(next.grants, next.tick),
         \A g \in GrantIds :
           \/ next.grants[g] = engine.grants[g]
           \/ /\ Kept(engine.grants[g], next.grants[g])
              /\ Heeds(g, engine.grants[g], next.grants[g], told)
  PROVE  EngineGood(next, told)
<1>1. /\ engine.attempts \in [Attempts -> Attempt]
      /\ engine.serial \in Nat /\ next.serial \in Nat
  BY EngineFields
<1>2. \A a \in Attempts : engine.attempts[a].grant \in GrantIds \cup {0}
  BY <1>1 DEF Attempt
<1>3. \A g \in GrantIds :
        next.grants[g] = engine.grants[g] \/ Kept(engine.grants[g], next.grants[g])
  OBVIOUS
<1>4. Booked(next.grants, next.attempts)
  BY <1>2, <1>3, BookedRows DEF EngineGood
<1>5. Complete(next.grants, next.attempts)
  BY <1>3, CompleteRows DEF EngineGood
<1>6. Minted(next)
  <2>1. ASSUME NEW g \in GrantIds, g > next.serial
        PROVE  next.grants[g].state = "Absent"
    <3>1. g \in Nat /\ g > engine.serial
      BY <1>1, <2>1, EligibilityAssumption
    <3>2. engine.grants[g].state = "Absent"
      BY <3>1 DEF EngineGood, Minted
    <3>. QED BY <1>3, <3>2 DEF Kept, Standing
  <2>2. \A g \in GrantIds : next.grants[g].state # "Prepared"
    BY <1>3 DEF EngineGood, Minted, Kept, Issued
  <2>. QED BY <2>1, <2>2 DEF Minted
<1>7. Heard(next.grants, told)
  BY DEF EngineGood, Heard, Heeds
<1>8. Recent(next, told)
  <2>1. SUFFICES ASSUME NEW g \in GrantIds, IsLive(next.grants[g].state), g \notin told
                 PROVE  /\ DigestOf(next, g) # None
                        /\ DigestOf(next, g).view.epoch >= next.spec.epoch
    BY DEF Recent
  <2>2. IsLive(engine.grants[g].state)
    BY <2>1 DEF Heeds
  <2>3. next.grants[g].attempt = engine.grants[g].attempt
    BY <1>3 DEF Kept, SameIdentity
  <2>. QED BY <2>1, <2>2, <2>3 DEF EngineGood, Recent, DigestOf
<1>. QED BY <1>4, <1>5, <1>6, <1>7, <1>8 DEF EngineGood

LEMMA ImageGoodRows ==
  ASSUME NEW image \in Image, NEW written \in Image, NEW told, ImageGood(image, told),
         written.attempts = image.attempts,
         Intact(written) => Intact(image),
         InReach(written.grants, written.tick),
         \A g \in GrantIds :
           \/ written.grants[g] = image.grants[g]
           \/ /\ Kept(image.grants[g], written.grants[g])
              /\ Acknowledged(written.grants[g]) =>
                   Acknowledged(image.grants[g]) \/ g \in told
  PROVE  ImageGood(written, told)
<1>1. image.attempts \in [Attempts -> Attempt]
  BY ImageFields
<1>2. \A a \in Attempts : image.attempts[a].grant \in GrantIds \cup {0}
  BY <1>1 DEF Attempt
<1>3. \A g \in GrantIds :
        written.grants[g] = image.grants[g] \/ Kept(image.grants[g], written.grants[g])
  OBVIOUS
<1>4. Intact(written) => Booked(written.grants, written.attempts)
  BY <1>2, <1>3, BookedRows DEF ImageGood
<1>5. Heard(written.grants, told)
  BY DEF ImageGood, Heard
<1>. QED BY <1>4, <1>5 DEF ImageGood

-------------------------------------------------------------------------------
(* Records *)

\* What a run of grant records makes of the log.
Wrote(image, written, ids, rows, now) ==
  /\ written \in Image
  /\ \A g \in GrantIds :
       written.grants[g] = IF g \in ids THEN rows[g] ELSE image.grants[g]
  /\ written.attempts = image.attempts
  /\ written.spec = image.spec /\ written.contracts = image.contracts
  /\ written.tick >= image.tick /\ (ids # {} => written.tick >= now)
  /\ written.replays => image.replays

\* And a run of attempt records.
Noted(image, written, ids, rows) ==
  /\ written \in Image
  /\ \A a \in Attempts :
       written.attempts[a] = IF a \in ids THEN rows[a] ELSE image.attempts[a]
  /\ written.grants = image.grants
  /\ written.spec = image.spec /\ written.contracts = image.contracts
  /\ written.tick >= image.tick
  /\ written.replays => image.replays

LEMMA GrantsWritten ==
  ASSUME NEW image \in Image, NEW ids \in SUBSET GrantIds,
         NEW rows \in [GrantIds -> Grant], NEW now \in Nat
  PROVE  /\ Wrote(image, WriteGrants(image, ids, rows, now), ids, rows, now)
         /\ ids # {} /\ WriteGrants(image, ids, rows, now).replays =>
              Cardinality(Present(image.grants) \cup ids) <= TableLimit
<1>1. CASE ids = {}
  <2>1. WriteGrants(image, ids, rows, now) = image
    BY <1>1 DEF WriteGrants
  <2>2. image.tick \in Nat
    BY ImageFields
  <2>. QED BY <1>1, <2>1, <2>2 DEF Wrote
<1>2. CASE ids # {}
  <2>. DEFINE grants  == Rewritten(image.grants, ids, rows)
              tick    == Greatest(image.tick, now)
              replays == image.replays /\
                         Cardinality(Present(image.grants) \cup ids) <= TableLimit
              new     == [image EXCEPT !.grants = grants, !.tick = tick,
                                       !.replays = replays]
  <2>1. /\ grants \in [GrantIds -> Grant]
        /\ \A g \in GrantIds : grants[g] = IF g \in ids THEN rows[g]
                                           ELSE image.grants[g]
    <3>1. image.grants \in [GrantIds -> Grant]
      BY ImageFields
    <3>. QED BY <3>1 DEF Rewritten
  <2>2. tick \in Nat /\ tick >= image.tick /\ tick >= now
    BY ImageFields DEF Greatest
  <2>3. replays \in BOOLEAN
    BY ImageFields
  <2>4. WriteGrants(image, ids, rows, now) = new
    BY <1>2 DEF WriteGrants, Image
  <2>5. replays => /\ image.replays
                   /\ Cardinality(Present(image.grants) \cup ids) <= TableLimit
    OBVIOUS
  <2>. HIDE DEF grants, tick, replays
  <2>6. new \in Image
    BY <2>1, <2>2, <2>3 DEF Image
  <2>7. /\ new.grants = grants /\ new.spec = image.spec /\ new.attempts = image.attempts
        /\ new.contracts = image.contracts /\ new.tick = tick /\ new.replays = replays
    BY DEF Image
  <2>. HIDE DEF new
  <2>. QED BY <2>1, <2>2, <2>4, <2>5, <2>6, <2>7 DEF Wrote
<1>. QED BY <1>1, <1>2

LEMMA AttemptsWritten ==
  ASSUME NEW image \in Image, NEW ids, NEW rows, NEW now \in Nat,
         \A a \in Attempts : a \in ids => rows[a] \in Attempt
  PROVE  Noted(image, WriteAttempts(image, ids, rows, now), ids, rows)
<1>1. CASE ids = {}
  <2>1. WriteAttempts(image, ids, rows, now) = image
    BY <1>1 DEF WriteAttempts
  <2>2. image.tick \in Nat
    BY ImageFields
  <2>. QED BY <1>1, <2>1, <2>2 DEF Noted
<1>2. CASE ids # {}
  <2>. DEFINE attempts == Rewritten(image.attempts, ids, rows)
              tick     == Greatest(image.tick, now)
              replays  == image.replays /\
                          Cardinality(Known(image.attempts) \cup ids) <= TableLimit
              new      == [image EXCEPT !.attempts = attempts, !.tick = tick,
                                        !.replays = replays]
  <2>1. /\ attempts \in [Attempts -> Attempt]
        /\ \A a \in Attempts : attempts[a] = IF a \in ids THEN rows[a]
                                             ELSE image.attempts[a]
    BY ImageFields DEF Rewritten
  <2>2. tick \in Nat /\ tick >= image.tick
    BY ImageFields DEF Greatest
  <2>3. replays \in BOOLEAN /\ (replays => image.replays)
    BY ImageFields
  <2>4. WriteAttempts(image, ids, rows, now) = new
    BY <1>2 DEF WriteAttempts, Image
  <2>. HIDE DEF attempts, tick, replays
  <2>5. new \in Image
    BY <2>1, <2>2, <2>3 DEF Image
  <2>6. /\ new.grants = image.grants /\ new.spec = image.spec /\ new.attempts = attempts
        /\ new.contracts = image.contracts /\ new.tick = tick /\ new.replays = replays
    BY DEF Image
  <2>. HIDE DEF new
  <2>. QED BY <2>1, <2>2, <2>3, <2>4, <2>5, <2>6 DEF Noted
<1>. QED BY <1>1, <1>2

LEMMA GrantWritten ==
  ASSUME NEW image \in Image, NEW id \in GrantIds, NEW grant \in Grant, NEW now \in Nat
  PROVE  /\ Wrote(image, WriteGrant(image, id, grant, now), {id},
                  [g \in GrantIds |-> grant], now)
         /\ WriteGrant(image, id, grant, now).replays =>
              Cardinality(Present(image.grants) \cup {id}) <= TableLimit
<1>. DEFINE rows == [g \in GrantIds |-> grant]
<1>1. rows \in [GrantIds -> Grant] /\ {id} \in SUBSET GrantIds /\ {id} # {}
  OBVIOUS
<1>2. WriteGrant(image, id, grant, now) = WriteGrants(image, {id}, rows, now)
  BY DEF WriteGrant
<1>. HIDE DEF rows
<1>3. /\ Wrote(image, WriteGrants(image, {id}, rows, now), {id}, rows, now)
      /\ {id} # {} /\ WriteGrants(image, {id}, rows, now).replays =>
           Cardinality(Present(image.grants) \cup {id}) <= TableLimit
  BY <1>1, GrantsWritten
<1>. QED BY <1>1, <1>2, <1>3 DEF rows

LEMMA AttemptWritten ==
  ASSUME NEW image \in Image, NEW id, NEW attempt, NEW now \in Nat,
         id \in Attempts => attempt \in Attempt
  PROVE  Noted(image, WriteAttempt(image, id, attempt, now), {id},
               [a \in Attempts |-> attempt])
<1>. DEFINE rows == [a \in Attempts |-> attempt]
<1>1. \A a \in Attempts : a \in {id} => rows[a] \in Attempt
  OBVIOUS
<1>2. WriteAttempt(image, id, attempt, now) = WriteAttempts(image, {id}, rows, now)
  BY DEF WriteAttempt
<1>. HIDE DEF rows
<1>3. Noted(image, WriteAttempts(image, {id}, rows, now), {id}, rows)
  BY <1>1, AttemptsWritten
<1>. QED BY <1>2, <1>3 DEF rows

-------------------------------------------------------------------------------
(* Rows in the engine and in the log *)

\* The grant old of the engine goes on to new, and its record says row.
RowGoes(g, old, new, row, told, tick) ==
  /\ Kept(old, new) /\ Kept(old, row)
  /\ Paired(new, row)
  /\ Heeds(g, old, new, told)
  /\ Acknowledged(row) => Acknowledged(old) \/ g \in told
  /\ \/ new.expiry = old.expiry /\ row.expiry = old.expiry
     \/ RenewalsInReach => /\ new.expiry <= tick + Options.maxLease
                           /\ row.expiry <= tick + Options.maxLease

\* What stands in the engine stands in the log that covers it.
LEMMA StandingRow ==
  ASSUME NEW grant \in Grant, NEW row, Covered(grant, row), Standing(grant.state)
  PROVE  HoldsCapacity(grant.state) /\ HoldsCapacity(row.state) /\ Standing(row.state)
<1>1. grant.state \in GrantStates
  BY DEF Grant
<1>. QED BY <1>1 DEF Covered, Standing, HoldsCapacity, IsQuarantined, IsTerminal,
                     GrantStates

LEMMA KeptAcross ==
  ASSUME NEW old, NEW new, NEW was, Kept(old, new), SameIdentity(old, was),
         Standing(was.state)
  PROVE  Kept(was, new)
  BY DEF Kept, SameIdentity

\* The engine comes to next: the grants in ids to rows, nothing else changes.
Turned(engine, next, ids, rows) ==
  /\ \A g \in GrantIds :
       next.grants[g] = IF g \in ids THEN rows[g] ELSE engine.grants[g]
  /\ next.attempts = engine.attempts /\ next.serial = engine.serial
  /\ next.spec = engine.spec /\ next.contracts = engine.contracts
  /\ next.tick = engine.tick

RowsGo(engine, ids, rows, logged, told) ==
  \A g \in ids : RowGoes(g, engine.grants[g], rows[g], logged[g], told, engine.tick)

LEMMA RowsGood ==
  ASSUME NEW engine \in Engine, NEW next \in Engine, NEW image \in Image, NEW written,
         NEW told, NEW ids \in SUBSET GrantIds, NEW rows, NEW logged,
         Good(engine, image, told),
         sink = "journal" => Covers(image, engine) /\
                             Wrote(image, written, ids, logged, engine.tick),
         Turned(engine, next, ids, rows),
         RowsGo(engine, ids, rows, logged, told)
  PROVE  /\ Good(next, written, told)
         /\ sink = "journal" /\ Matched(engine, image) => Matched(next, written)
<1>. USE DEF Turned, RowsGo
<1>1. /\ engine.grants \in [GrantIds -> Grant] /\ image.grants \in [GrantIds -> Grant]
      /\ engine.tick \in Nat /\ image.tick \in Nat /\ engine.serial \in Nat
  BY EngineFields, ImageFields
<1>2. EngineGood(next, told)
  <2>1. InReach(next.grants, next.tick)
    <3>1. InReach(engine.grants, engine.tick)
      BY DEF Good, EngineGood
    <3>2. \A g \in GrantIds :
           \/ next.grants[g] = engine.grants[g]
           \/ next.grants[g].expiry = engine.grants[g].expiry
           \/ RenewalsInReach => next.grants[g].expiry <= next.tick + Options.maxLease
      BY DEF RowGoes
    <3>3. next.tick \in Nat /\ next.tick >= engine.tick
      BY <1>1
    <3>. QED BY <1>1, <3>1, <3>2, <3>3, ReachRows
  <2>2. \A g \in GrantIds :
           \/ next.grants[g] = engine.grants[g]
           \/ /\ Kept(engine.grants[g], next.grants[g])
              /\ Heeds(g, engine.grants[g], next.grants[g], told)
    BY DEF RowGoes
  <2>3. next.serial >= engine.serial /\ next.spec.epoch = engine.spec.epoch
    BY <1>1
  <2>. QED BY <2>1, <2>2, <2>3, EngineGoodRows DEF Good
<1>3. ASSUME sink = "journal"
      PROVE  /\ ImageGood(written, told) /\ Linked(next, written)
             /\ written.spec = next.spec /\ written.contracts = next.contracts
             /\ Matched(engine, image) => Matched(next, written)
  <2>1. /\ Wrote(image, written, ids, logged, engine.tick) /\ Covers(image, engine)
        /\ ImageGood(image, told) /\ Linked(engine, image)
        /\ image.spec = engine.spec /\ image.contracts = engine.contracts
    BY <1>3 DEF Good
  <2>2. /\ written \in Image /\ written.attempts = image.attempts
        /\ written.spec = next.spec /\ written.contracts = next.contracts
        /\ Intact(written) => Intact(image)
    BY <2>1 DEF Wrote, Intact
  <2>3. ASSUME NEW g \in ids
        PROVE  Kept(image.grants[g], logged[g])
    <3>1. /\ RowGoes(g, engine.grants[g], rows[g], logged[g], told, engine.tick)
          /\ engine.grants[g] \in Grant /\ g \in GrantIds
      BY <1>1
    <3>2. Kept(engine.grants[g], logged[g])
      BY <3>1 DEF RowGoes
    <3>3. Standing(engine.grants[g].state)
      BY <3>2 DEF Kept
    <3>4. Covered(engine.grants[g], image.grants[g])
      BY <2>1, <3>1 DEF Covers
    <3>5. Standing(image.grants[g].state)
      BY <3>1, <3>3, <3>4, StandingRow
    <3>6. SameIdentity(engine.grants[g], image.grants[g])
      BY <2>1, <3>1, <3>3 DEF Linked, Standing
    <3>. QED BY <3>2, <3>5, <3>6, KeptAcross
  <2>4. \A g \in GrantIds : written.grants[g] = IF g \in ids THEN logged[g] ELSE image.grants[g]
    BY <2>1 DEF Wrote
  <2>5. InReach(written.grants, written.tick)
    <3>1. SUFFICES ASSUME RenewalsInReach, NEW g \in GrantIds
                   PROVE  written.grants[g].expiry <= written.tick + Options.maxLease
      BY DEF InReach
    <3>2. written.tick \in Nat /\ written.tick >= image.tick
      BY <2>1, ImageFields DEF Wrote
    <3>3. Options.maxLease \in Nat
      BY EligibilityAssumption
    <3>4. written.grants[g] \in Grant
      BY <2>2, ImageFields
    <3>5. written.grants[g].expiry \in Nat
      BY <3>4 DEF Grant
    <3>6. \A a, b, c, m \in Nat : a <= b + m /\ c >= b => a <= c + m
      OBVIOUS
    <3>7. CASE g \in ids
      <4>1. written.tick >= engine.tick
        BY <2>1, <3>7 DEF Wrote
      <4>2. engine.grants[g].expiry <= engine.tick + Options.maxLease
        BY <3>1 DEF Good, EngineGood, InReach
      <4>3. written.grants[g].expiry <= engine.tick + Options.maxLease
        BY <2>4, <3>1, <3>7, <4>2 DEF RowGoes
      <4>. QED BY <1>1, <3>2, <3>3, <3>5, <3>6, <4>1, <4>3
    <3>8. CASE g \notin ids
      <4>1. written.grants[g].expiry <= image.tick + Options.maxLease
        BY <2>1, <2>4, <3>1, <3>8 DEF ImageGood, InReach
      <4>. QED BY <1>1, <3>2, <3>3, <3>5, <3>6, <4>1
    <3>. QED BY <3>7, <3>8
  <2>6. ImageGood(written, told)
    <3>1. Heard(engine.grants, told)
      BY DEF Good, EngineGood
    <3>2. \A g \in ids : Acknowledged(logged[g]) => g \in told
      BY <3>1 DEF RowGoes, Heard
    <3>3. \A g \in GrantIds :
           \/ written.grants[g] = image.grants[g]
           \/ /\ Kept(image.grants[g], written.grants[g])
              /\ Acknowledged(written.grants[g]) =>
                   Acknowledged(image.grants[g]) \/ g \in told
      BY <2>3, <2>4, <3>2
    <3>. QED BY <2>1, <2>2, <2>5, <3>3, ImageGoodRows
  <2>7. \A g \in GrantIds :
           \/ next.grants[g] = engine.grants[g] /\ written.grants[g] = image.grants[g]
           \/ /\ Kept(engine.grants[g], next.grants[g])
              /\ Kept(image.grants[g], written.grants[g])
              /\ Paired(next.grants[g], written.grants[g])
    BY <2>3, <2>4 DEF RowGoes
  <2>8. Linked(next, written)
    BY <2>1, <2>2, <2>7, LinkedRows
  <2>9. Matched(engine, image) => Matched(next, written)
    <3>1. ASSUME Matched(engine, image) PROVE Matched(next, written)
      <4>1. next.attempts = written.attempts
        BY <2>2, <3>1 DEF Matched
      <4>. QED BY <2>7, <3>1, <4>1, MatchedRows
    <3>. QED BY <3>1
  <2>. QED BY <2>2, <2>6, <2>8, <2>9
<1>. QED BY <1>2, <1>3 DEF Good

-------------------------------------------------------------------------------
(* Ways a grant goes on *)

LEMMA TerminatedGoes ==
  ASSUME NEW g, NEW grant \in Grant, NEW state \in GrantStates, IsTerminal(state),
         Standing(grant.state), NEW told, NEW tick
  PROVE  RowGoes(g, grant, Terminated(grant, state), Terminated(grant, state), told, tick)
<1>. DEFINE new == [grant EXCEPT !.state = state]
<1>1. Terminated(grant, state) = new
  BY DEF Terminated
<1>2. /\ new.state = state /\ new.acked = grant.acked /\ new.expiry = grant.expiry
      /\ SameIdentity(grant, new)
  BY DEF Grant, SameIdentity
<1>. HIDE DEF new
<1>3. Kept(grant, new)
  BY <1>2 DEF Kept, Issued, IsTerminal
<1>4. Paired(new, new)
  BY DEF Paired
<1>5. Acknowledged(new) => Acknowledged(grant)
  BY <1>2 DEF Acknowledged, IsTerminal
<1>6. ~IsLive(new.state)
  BY <1>2 DEF IsLive, IsTerminal
<1>. QED BY <1>1, <1>2, <1>3, <1>4, <1>5, <1>6 DEF RowGoes, Heeds

\* What revalidation leaves of a grant, whichever way it decides.
LEMMA RevalidatedFields ==
  ASSUME NEW engine, NEW grant \in Grant
  PROVE  LET new == Revalidated(engine, grant)
         IN  /\ SameIdentity(grant, new) /\ new.acked = grant.acked
             /\ new.expiry = grant.expiry
             /\ new.state \in {"Committed", "Revoked"}
<1>1. CASE Sound(engine, grant)
  <2>. DEFINE degraded == grant.degraded \/ "degrades" \in GrantEffects(engine, grant)
              epoch == engine.spec.epoch
              new == [grant EXCEPT !.state = "Committed", !.commit = "Committed",
                                   !.epoch = epoch, !.degraded = degraded]
  <2>1. Revalidated(engine, grant) = new
    BY <1>1 DEF Revalidated, Grant
  <2>. HIDE DEF degraded, epoch
  <2>2. /\ SameIdentity(grant, new) /\ new.acked = grant.acked
        /\ new.expiry = grant.expiry /\ new.state = "Committed"
    BY DEF Grant, SameIdentity
  <2>. QED BY <2>1, <2>2
<1>2. CASE ~Sound(engine, grant)
  <2>. DEFINE state == "Revoked"
              new == [grant EXCEPT !.state = state]
  <2>1. Revalidated(engine, grant) = new
    BY <1>2 DEF Revalidated, Terminated
  <2>2. /\ SameIdentity(grant, new) /\ new.acked = grant.acked
        /\ new.expiry = grant.expiry /\ new.state = state
    BY DEF Grant, SameIdentity
  <2>. QED BY <2>1, <2>2
<1>. QED BY <1>1, <1>2

LEMMA RevalidatedGoes ==
  ASSUME NEW engine, NEW g, NEW grant \in Grant, Standing(grant.state), NEW told,
         NEW tick, IsLive(grant.state) \/ g \in told
  PROVE  LET new == Revalidated(engine, grant)
         IN  RowGoes(g, grant, new, new, told, tick)
<1>. DEFINE new == Revalidated(engine, grant)
<1>1. /\ SameIdentity(grant, new) /\ new.acked = grant.acked
      /\ new.expiry = grant.expiry
      /\ new.state \in {"Committed", "Revoked"}
  BY RevalidatedFields
<1>. HIDE DEF new
<1>2. Kept(grant, new)
  BY <1>1 DEF Kept, Issued
<1>3. Paired(new, new)
  BY DEF Paired
<1>4. Acknowledged(new) => Acknowledged(grant)
  BY <1>1 DEF Acknowledged
<1>5. RowGoes(g, grant, new, new, told, tick)
  BY <1>1, <1>2, <1>3, <1>4 DEF RowGoes, Heeds
<1>. QED BY <1>5 DEF new

-------------------------------------------------------------------------------
(* Attempt records *)

\* The attempt a, for which nothing stands, is marked in its record; a cancel may
\* mark another.
Marks(grants, attempts, new, a) ==
  /\ a \in Attempts /\ attempts[a].known
  /\ \A b \in Attempts : b # a => new[b] = attempts[b]
  /\ new[a].known
  /\ new[a].grant = attempts[a].grant /\ new[a].digest = attempts[a].digest
  /\ attempts[a].cancelled => new[a].cancelled
  /\ \/ Mixed /\ new[a].released = attempts[a].released
     \/ \A g \in GrantIds : Standing(grants[g].state) => grants[g].attempt # a

LEMMA BookedMarks ==
  ASSUME NEW grants \in [GrantIds -> Grant], NEW attempts, NEW new, NEW a,
         Booked(grants, attempts), Marks(grants, attempts, new, a)
  PROVE  Booked(grants, new)
<1>1. \A b \in Attempts : Faithful(grants, new[b], b)
  <2>1. TAKE b \in Attempts
  <2>2. Faithful(grants, attempts[b], b)
    BY DEF Booked
  <2>3. CASE b = a
    BY <2>2, <2>3 DEF Marks, Faithful
  <2>4. CASE b # a
    BY <2>2, <2>4 DEF Marks
  <2>. QED BY <2>3, <2>4
<1>2. ASSUME NEW g \in GrantIds, Standing(grants[g].state)
      PROVE  Speaks(new[grants[g].attempt], g)
  <2>1. grants[g].attempt \in Attempts
    <3>1. grants[g].attempt \in Attempts \cup {None}
      BY DEF Grant
    <3>2. grants[g].attempt # None
      BY <1>2 DEF Booked, Filled, Standing
    <3>. QED BY <3>1, <3>2
  <2>2. Speaks(attempts[grants[g].attempt], g)
    BY <1>2 DEF Booked
  <2>3. CASE grants[g].attempt # a
    BY <2>1, <2>2, <2>3 DEF Marks
  <2>4. CASE grants[g].attempt = a
    BY <1>2, <2>2, <2>4 DEF Marks, Speaks
  <2>. QED BY <2>3, <2>4
<1>. QED BY <1>1, <1>2 DEF Booked

LEMMA EngineMarks ==
  ASSUME NEW engine \in Engine, NEW next \in Engine, NEW told, NEW a,
         EngineGood(engine, told),
         next.grants = engine.grants, next.serial = engine.serial,
         next.spec = engine.spec, next.tick = engine.tick,
         Marks(engine.grants, engine.attempts, next.attempts, a)
  PROVE  EngineGood(next, told)
<1>1. engine.grants \in [GrantIds -> Grant]
  BY EngineFields
<1>2. Booked(next.grants, next.attempts)
  BY <1>1, BookedMarks DEF EngineGood
<1>3. \A g \in GrantIds : engine.grants[g].state # "Absent" =>
        engine.grants[g].attempt \in Attempts
  BY <1>1 DEF EngineGood, Booked, Filled, Grant
<1>4. Complete(next.grants, next.attempts)
  <2>1. SUFFICES ASSUME NEW g \in GrantIds, next.grants[g].state # "Absent"
                 PROVE  next.attempts[next.grants[g].attempt].known
    BY DEF Complete
  <2>3. engine.attempts[engine.grants[g].attempt].known
    BY <2>1 DEF EngineGood, Complete
  <2>. QED BY <1>3, <2>1, <2>3 DEF Marks
<1>5. Recent(next, told)
  <2>1. SUFFICES ASSUME NEW g \in GrantIds, IsLive(next.grants[g].state), g \notin told
                 PROVE  /\ DigestOf(next, g) # None
                        /\ DigestOf(next, g).view.epoch >= next.spec.epoch
    BY DEF Recent
  <2>2. Standing(engine.grants[g].state) /\ engine.grants[g].state # "Absent"
    BY <2>1 DEF IsLive, Standing, IsTerminal
  <2>3. next.attempts[engine.grants[g].attempt].digest =
          engine.attempts[engine.grants[g].attempt].digest
    BY <1>3, <2>2 DEF Marks
  <2>4. DigestOf(next, g) = DigestOf(engine, g)
    BY <2>3 DEF DigestOf
  <2>. QED BY <2>1, <2>4 DEF EngineGood, Recent
<1>. QED BY <1>2, <1>4, <1>5 DEF EngineGood, Minted

LEMMA MarkGood ==
  ASSUME NEW engine \in Engine, NEW next \in Engine, NEW image, NEW told, NEW a,
         Good(engine, image, told),
         next.grants = engine.grants, next.serial = engine.serial,
         next.spec = engine.spec, next.tick = engine.tick,
         next.contracts = engine.contracts,
         Marks(engine.grants, engine.attempts, next.attempts, a)
  PROVE  Good(next, image, told)
<1>1. EngineGood(next, told)
  BY EngineMarks DEF Good
<1>2. sink = "journal" => Linked(next, image)
  BY DEF Good, Linked
<1>. QED BY <1>1, <1>2 DEF Good

\* The mark is recorded.
LEMMA RecordGood ==
  ASSUME NEW engine \in Engine, NEW image \in Image, NEW written, NEW told, NEW a,
         NEW rows, NEW attempts,
         Good(engine, image, told),
         sink = "journal" => Noted(image, written, {a}, rows),
         sink = "journal" /\ Intact(image) =>
           /\ rows[a] = engine.attempts[a]
           /\ image.attempts = attempts
           /\ Marks(image.grants, attempts, engine.attempts, a)
  PROVE  /\ Good(engine, written, told)
         /\ sink = "journal" /\ Intact(image) => written.attempts = engine.attempts
<1>1. ASSUME sink = "journal"
      PROVE  /\ ImageGood(written, told) /\ Linked(engine, written)
             /\ written.spec = engine.spec /\ written.contracts = engine.contracts
             /\ Intact(image) => written.attempts = engine.attempts
  <2>1. /\ Noted(image, written, {a}, rows)
        /\ ImageGood(image, told) /\ Linked(engine, image)
        /\ image.spec = engine.spec /\ image.contracts = engine.contracts
    BY <1>1 DEF Good
  <2>2. Intact(written) => Intact(image)
    BY <2>1 DEF Intact, Noted
  <2>3. /\ written \in Image /\ written.grants = image.grants
        /\ \A b \in Attempts :
             written.attempts[b] = IF b \in {a} THEN rows[b] ELSE image.attempts[b]
        /\ written.tick >= image.tick
    BY <2>1 DEF Noted
  <2>4. ASSUME Intact(image)
        PROVE  /\ Marks(image.grants, image.attempts, written.attempts, a)
               /\ \A b \in Attempts : written.attempts[b] = engine.attempts[b]
    BY <1>1, <2>3, <2>4 DEF Marks
  <2>5. image.grants \in [GrantIds -> Grant] /\ image.tick \in Nat /\ written.tick \in Nat
    BY <2>3, ImageFields
  <2>6. Intact(image) => Booked(written.grants, written.attempts)
    BY <2>1, <2>3, <2>4, <2>5, BookedMarks DEF ImageGood
  <2>7. InReach(written.grants, written.tick)
    <3>1. InReach(image.grants, image.tick)
      BY <2>1 DEF ImageGood
    <3>2. \A g \in GrantIds : written.grants[g] = image.grants[g]
      BY <2>3
    <3>. QED BY <2>3, <2>5, <3>1, <3>2, ReachRows
  <2>8. ImageGood(written, told)
    BY <2>1, <2>2, <2>3, <2>6, <2>7 DEF ImageGood
  <2>9. Linked(engine, written)
    BY <2>1, <2>2, <2>3 DEF Linked
  <2>10. ASSUME Intact(image) PROVE written.attempts = engine.attempts
    <3>1. /\ written.attempts \in [Attempts -> Attempt]
          /\ engine.attempts \in [Attempts -> Attempt]
      BY <2>3, ImageFields, EngineFields
    <3>. QED BY <2>4, <2>10, <3>1
  <2>. QED BY <2>1, <2>8, <2>9, <2>10 DEF Noted
<1>. QED BY <1>1 DEF Good

-------------------------------------------------------------------------------
(* What a command changes *)

LEMMA CommandWritten ==
  ASSUME NEW image \in Image, NEW command \in Command, NEW now \in Nat
  PROVE  LET new == WriteCommand(image, command, now)
         IN  /\ new.grants = image.grants /\ new.attempts = image.attempts
             /\ new.tick \in Nat /\ new.tick >= image.tick
             /\ new.replays => image.replays
             /\ Accepts(image.spec, image.contracts, command) =>
                  /\ new.spec = SpecAfter(image.spec, command)
                  /\ new.contracts = ContractsAfter(image.contracts, command)
             /\ ~Accepts(image.spec, image.contracts, command) =>
                  new.spec = image.spec /\ new.contracts = image.contracts
<1>. DEFINE tick == Greatest(image.tick, now)
<1>1. tick \in Nat /\ tick >= image.tick
  BY ImageFields DEF Greatest
<1>2. CASE Accepts(image.spec, image.contracts, command)
  <2>. DEFINE spec == SpecAfter(image.spec, command)
              contracts == ContractsAfter(image.contracts, command)
              new == [image EXCEPT !.spec = spec, !.contracts = contracts, !.tick = tick]
  <2>1. WriteCommand(image, command, now) = new
    BY <1>2 DEF WriteCommand, Image
  <2>2. spec = SpecAfter(image.spec, command) /\
        contracts = ContractsAfter(image.contracts, command)
    OBVIOUS
  <2>. HIDE DEF spec, contracts, tick
  <2>3. /\ new.grants = image.grants /\ new.attempts = image.attempts
        /\ new.tick = tick /\ new.replays = image.replays
        /\ new.spec = spec /\ new.contracts = contracts
    BY DEF Image
  <2>. HIDE DEF new
  <2>. QED BY <1>1, <1>2, <2>1, <2>2, <2>3
<1>3. CASE ~Accepts(image.spec, image.contracts, command)
  <2>. DEFINE new == [image EXCEPT !.tick = tick, !.replays = FALSE]
  <2>1. WriteCommand(image, command, now) = new
    BY <1>3 DEF WriteCommand, Image
  <2>. HIDE DEF tick
  <2>2. /\ new.grants = image.grants /\ new.attempts = image.attempts
        /\ new.tick = tick /\ ~new.replays
        /\ new.spec = image.spec /\ new.contracts = image.contracts
    BY DEF Image
  <2>. HIDE DEF new
  <2>. QED BY <1>1, <1>3, <2>1, <2>2
<1>. QED BY <1>2, <1>3

LEMMA Commanded ==
  ASSUME NEW engine \in Engine, NEW command \in Command
  PROVE  LET new == [engine EXCEPT !.spec = SpecAfter(@, command),
                                   !.contracts = ContractsAfter(@, command)]
         IN  /\ new.spec = SpecAfter(engine.spec, command)
             /\ new.contracts = ContractsAfter(engine.contracts, command)
             /\ new.spec.epoch = engine.spec.epoch
<1>. DEFINE spec == SpecAfter(engine.spec, command)
            contracts == ContractsAfter(engine.contracts, command)
            new == [engine EXCEPT !.spec = spec, !.contracts = contracts]
<1>1. engine.spec \in ClusterSpecs
  BY EngineFields
<1>2. spec.epoch = engine.spec.epoch
  BY <1>1 DEF SpecAfter, ClusterSpecs
<1>3. [engine EXCEPT !.spec = SpecAfter(@, command),
                     !.contracts = ContractsAfter(@, command)] = new
  BY DEF Engine
<1>4. new.spec = spec /\ new.contracts = contracts
  <2>. HIDE DEF spec, contracts
  <2>. QED BY DEF Engine
<1>. HIDE DEF new
<1>. QED BY <1>2, <1>3, <1>4

\* The record of a grant that stands names it already.
LEMMA ReboundSame ==
  ASSUME NEW engine \in Engine, NEW told, EngineGood(engine, told),
         NEW ids \in SUBSET GrantIds,
         \A g \in ids : Standing(engine.grants[g].state)
  PROVE  Rebound(engine, ids) = engine.attempts
<1>1. engine.attempts \in [Attempts -> Attempt]
  BY EngineFields
<1>2. ASSUME NEW a \in Attempts, a \in AttemptsOf(engine.grants, ids)
      PROVE  [engine.attempts[a] EXCEPT
                !.known = TRUE, !.grant = GrantOf(engine.grants, ids, a)]
               = engine.attempts[a]
  <2>. DEFINE g == GrantOf(engine.grants, ids, a)
              record == engine.attempts[a]
  <2>1. g \in ids /\ engine.grants[g].attempt = a
    BY <1>2 DEF AttemptsOf, GrantOf
  <2>. HIDE DEF g
  <2>2. record.known /\ Speaks(record, g)
    BY <2>1 DEF EngineGood, Booked, Complete, Standing
  <2>3. record \in Attempt
    BY <1>1
  <2>. HIDE DEF record
  <2>4. record.known = TRUE /\ record.grant = g
    BY <2>2, <2>3 DEF Speaks, Attempt
  <2>5. [record EXCEPT !.known = TRUE, !.grant = g] = record
    BY <2>3, <2>4 DEF Attempt
  <2>. QED BY <2>5 DEF record, g
<1>. QED BY <1>1, <1>2 DEF Rebound

-------------------------------------------------------------------------------
(* New grants *)

\* No grant is for the attempt a yet.
Open(grants, a) == \A g \in GrantIds : grants[g].attempt # a

\* The grant id is new, for the attempt a.
Entered(grants, new, id, row, a) ==
  /\ grants[id].state = "Absent" /\ Open(grants, a)
  /\ row.attempt = a /\ row.state # "Absent"
  /\ \A g \in GrantIds : new[g] = IF g = id THEN row ELSE grants[g]

\* Its attempt is not on record yet, or recorded with it.
Recorder(attempts, records, id, a) ==
  /\ a \in Attempts /\ ~attempts[a].known
  /\ \A b \in Attempts : b # a => records[b] = attempts[b]
  /\ \/ records[a] = attempts[a]
     \/ /\ records[a].known /\ records[a].grant = id
        /\ ~records[a].released /\ ~records[a].cancelled

LEMMA BookedEntry ==
  ASSUME NEW grants \in [GrantIds -> Grant], NEW attempts \in [Attempts -> Attempt],
         NEW new, NEW records, NEW id \in GrantIds, NEW row, NEW a,
         Booked(grants, attempts), Entered(grants, new, id, row, a),
         Recorder(attempts, records, id, a)
  PROVE  Booked(new, records)
<1>1. 0 \notin GrantIds /\ None \notin Attempts /\ a \in Attempts
  BY EligibilityAssumption DEF Recorder
<1>2. Filled(new)
  BY <1>1 DEF Booked, Filled, Entered
<1>3. Single(new)
  BY DEF Booked, Single, Entered, Open
<1>4. \A b \in Attempts : Faithful(new, records[b], b)
  <2>1. TAKE b \in Attempts
  <2>2. Faithful(grants, attempts[b], b) /\ attempts[b].grant \in GrantIds \cup {0}
    BY DEF Booked, Attempt
  <2>3. Faithful(new, attempts[b], b)
    BY <2>2 DEF Faithful, Entered
  <2>4. CASE records[b] = attempts[b]
    BY <2>3, <2>4
  <2>5. CASE records[b] # attempts[b]
    <3>1. b = a /\ records[b].known /\ records[b].grant = id
      BY <2>5 DEF Recorder
    <3>. QED BY <1>1, <3>1 DEF Faithful, Entered
  <2>. QED BY <2>4, <2>5
<1>5. ASSUME NEW g \in GrantIds, Standing(new[g].state)
      PROVE  Speaks(records[new[g].attempt], g)
  <2>1. CASE g = id
    <3>1. new[g].attempt = a
      BY <2>1 DEF Entered
    <3>. QED BY <2>1, <3>1 DEF Recorder, Speaks
  <2>2. CASE g # id
    <3>1. new[g] = grants[g] /\ grants[g].attempt # a
      BY <2>2 DEF Entered, Open
    <3>2. Standing(grants[g].state) /\ grants[g].state # "Absent"
      BY <1>5, <3>1 DEF Standing
    <3>3. grants[g].attempt \in Attempts
      BY <3>2 DEF Booked, Filled, Grant
    <3>4. records[grants[g].attempt] = attempts[grants[g].attempt]
      BY <3>1, <3>3 DEF Recorder
    <3>. QED BY <3>1, <3>2, <3>4 DEF Booked
  <2>. QED BY <2>1, <2>2
<1>. QED BY <1>2, <1>3, <1>4, <1>5 DEF Booked

LEMMA EngineEntry ==
  ASSUME NEW engine \in Engine, NEW next \in Engine, NEW told, EngineGood(engine, told),
         NEW id \in GrantIds, NEW row \in Grant, NEW a,
         Entered(engine.grants, next.grants, id, row, a),
         Recorder(engine.attempts, next.attempts, id, a), next.attempts[a].known,
         next.attempts[a].digest # None,
         next.attempts[a].digest.view.epoch >= engine.spec.epoch,
         row.state = "Committed", ~row.acked,
         RenewalsInReach => row.expiry <= engine.tick + Options.maxLease,
         next.serial = id, id > engine.serial,
         next.spec = engine.spec, next.tick = engine.tick
  PROVE  EngineGood(next, told)
<1>1. /\ engine.grants \in [GrantIds -> Grant] /\ engine.attempts \in [Attempts -> Attempt]
      /\ next.grants \in [GrantIds -> Grant]
      /\ engine.serial \in Nat /\ id \in Nat /\ a \in Attempts
  BY EngineFields, EligibilityAssumption DEF Recorder
<1>2. Booked(next.grants, next.attempts)
  BY <1>1, BookedEntry DEF EngineGood
<1>3. \A g \in GrantIds : g # id /\ next.grants[g].state # "Absent" =>
        /\ next.grants[g] = engine.grants[g]
        /\ engine.grants[g].attempt \in Attempts /\ engine.grants[g].attempt # a
        /\ next.attempts[engine.grants[g].attempt] = engine.attempts[engine.grants[g].attempt]
  <2>1. TAKE g \in GrantIds
  <2>2. SUFFICES ASSUME g # id, next.grants[g].state # "Absent"
                 PROVE  /\ next.grants[g] = engine.grants[g]
                        /\ engine.grants[g].attempt \in Attempts
                        /\ engine.grants[g].attempt # a
                        /\ next.attempts[engine.grants[g].attempt] =
                             engine.attempts[engine.grants[g].attempt]
    OBVIOUS
  <2>3. next.grants[g] = engine.grants[g] /\ engine.grants[g].attempt # a
    BY <2>2 DEF Entered, Open
  <2>4. engine.grants[g].attempt \in Attempts
    BY <1>1, <2>2, <2>3 DEF EngineGood, Booked, Filled, Grant
  <2>. QED BY <2>3, <2>4 DEF Recorder
<1>4. next.grants[id] = row /\ row.attempt = a
  BY DEF Entered
<1>5. Complete(next.grants, next.attempts)
  BY <1>3, <1>4 DEF EngineGood, Complete
<1>6. Minted(next)
  <2>1. ASSUME NEW g \in GrantIds, g > next.serial
        PROVE  next.grants[g].state = "Absent"
    <3>1. g \in Nat
      BY EligibilityAssumption
    <3>2. g > engine.serial /\ g # id
      BY <1>1, <2>1, <3>1
    <3>3. engine.grants[g].state = "Absent"
      BY <3>2 DEF EngineGood, Minted
    <3>. QED BY <3>2, <3>3 DEF Entered
  <2>2. \A g \in GrantIds : next.grants[g].state # "Prepared"
    BY <1>4 DEF EngineGood, Minted, Entered
  <2>. QED BY <2>1, <2>2 DEF Minted
<1>7. Heard(next.grants, told)
  BY <1>4 DEF EngineGood, Heard, Acknowledged, Entered
<1>8. Recent(next, told)
  <2>1. SUFFICES ASSUME NEW g \in GrantIds, IsLive(next.grants[g].state), g \notin told
                 PROVE  /\ DigestOf(next, g) # None
                        /\ DigestOf(next, g).view.epoch >= next.spec.epoch
    BY DEF Recent
  <2>2. CASE g = id
    BY <1>4, <2>2 DEF DigestOf
  <2>3. CASE g # id
    <3>1. next.grants[g].state # "Absent"
      BY <2>1 DEF IsLive
    <3>2. DigestOf(next, g) = DigestOf(engine, g) /\ IsLive(engine.grants[g].state)
      BY <1>3, <2>1, <2>3, <3>1 DEF DigestOf
    <3>. QED BY <2>1, <3>2 DEF EngineGood, Recent
  <2>. QED BY <2>2, <2>3
<1>9. InReach(next.grants, next.tick)
  BY <1>4 DEF EngineGood, InReach, Entered
<1>. QED BY <1>2, <1>5, <1>6, <1>7, <1>8, <1>9 DEF EngineGood

-------------------------------------------------------------------------------
(* The invariant and what a step keeps *)

\* The log shows that the attempt was granted g.
Shows(image, a, g) == image.grants[g].attempt = a /\ Issued(image.grants[g].state)

Durable(answers, image) ==
  \A a \in Attempts :
    answers[a] \in Authorising => \E g \in GrantIds : Shows(image, a, g)

\* And the engine has that grant.
Backs(engine, image, a) ==
  \E g \in GrantIds : /\ Shows(image, a, g)
                      /\ engine.grants[g].state # "Absent"
                      /\ engine.grants[g].attempt = a

Backed(answers, engine, image) ==
  \A a \in Attempts : answers[a] \in Authorising => Backs(engine, image, a)

\* The tables of the engine and of the log.
Tables ==
  /\ Good(mem, disk, Told)
  /\ ImageGood(disk, Told)
  /\ InStep(mem, disk) \/ Full(used)
  /\ ~disk.spec.bound => disk = EmptyImage

\* What callers were told, while the daemon attaches its journal.
Words ==
  Options.attaches =>
    /\ sink # "memory"
    /\ Durable(answered, disk)
    /\ sink = "journal" => Backed(answered, mem, disk)

Books == Tables /\ Words

\* How the ledger takes the change from the rows old to the rows new.
Status(row) == LedgerStatus(row.state)

SameEntry(old, new) == Status(new) = Status(old) /\ new.attempt = old.attempt

Ends(old, new) ==
  \A g \in GrantIds :
    \/ SameEntry(old[g], new[g])
    \/ /\ Status(old[g]) \in {"held", "quarantined"} /\ Status(new[g]) = "ended"
       /\ new[g].attempt = old[g].attempt

Lifts(old, new) ==
  \E id \in GrantIds :
    /\ Status(old[id]) = "quarantined" /\ Status(new[id]) = "held"
    /\ new[id].attempt = old[id].attempt
    /\ \A g \in GrantIds : g # id => SameEntry(old[g], new[g])

Enters(old, new) ==
  \E id \in GrantIds :
    /\ Status(old[id]) = "free" /\ Status(new[id]) \in {"offered", "held"}
    /\ new[id].attempt \in Attempts
    /\ \A g \in GrantIds : old[g].attempt # new[id].attempt
    /\ \A g \in GrantIds : g # id => SameEntry(old[g], new[g])

Settlement(old, new) ==
  \/ SameEntry(old, new)
  \/ Status(old) = "offered" /\ Status(new) = "free" /\ new.attempt = None
  \/ /\ Status(old) = "offered" /\ Status(new) = "ended"
     /\ new.attempt = old.attempt
  \/ /\ Status(old) = "held" /\ Status(new) \in {"quarantined", "ended"}
     /\ new.attempt = old.attempt

Settlements(old, new) == \A g \in GrantIds : Settlement(old[g], new[g])

Ledgered(old, new) ==
  Ends(old, new) \/ Lifts(old, new) \/ Enters(old, new) \/ Settlements(old, new)

KeepsIdentity(image) ==
  \A g \in GrantIds :
    Issued(disk.grants[g].state) =>
      /\ Issued(image.grants[g].state)
      /\ SameIdentity(disk.grants[g], image.grants[g])

KeepsQuarantine(image) ==
  \A g \in GrantIds :
    /\ IsQuarantined(disk.grants[g].state)
    /\ ~IsQuarantined(image.grants[g].state)
    => image.spec = disk.spec /\ image.grants[g].state # "Expired"

\* What every point of a handler makes of the log and the engine it started from.
Onward(engine, image) ==
  /\ KeepsIdentity(image)
  /\ KeepsQuarantine(image)
  /\ TableSuffices => Ledgered(disk.grants, image.grants)
  /\ \A g \in GrantIds : mem.grants[g].state # "Absent" =>
       engine.grants[g].state # "Absent" /\ engine.grants[g].attempt = mem.grants[g].attempt

\* What a step makes of the log.
StepKeeps ==
  /\ Intact(disk) => KeepsIdentity(disk')
  /\ KeepsQuarantine(disk')
  /\ TableSuffices => Ledgered(disk.grants, disk'.grants)

\* A handler's first point: nothing has happened but ticks and minted ids.
Still(point) ==
  /\ point.mem.grants = mem.grants /\ point.mem.attempts = mem.attempts
  /\ point.mem.spec = mem.spec /\ point.mem.contracts = mem.contracts
  /\ point.mem.serial >= mem.serial /\ point.mem.tick >= mem.tick
  /\ point.disk = disk
  /\ point.reply \notin Authorising

Fits(point, told) ==
  /\ Good(point.mem, point.disk, told)
  /\ sink = "journal" => Onward(point.mem, point.disk)

\* What the points of a handler owe, whose callers acknowledged the grants told.
Walks(points, told) ==
  /\ Still(points[1])
  /\ InStep(mem, disk) =>
       /\ \A n \in 1..Len(points) : Fits(points[n], told)
       /\ InStep(points[Len(points)].mem, points[Len(points)].disk)

\* A reply that an attempt was granted is given where engine and log have the grant.
Honest(points, a) ==
  InStep(mem, disk) /\ sink = "journal" =>
    \A n \in 1..Len(points) :
      points[n].reply \in Authorising => Backs(points[n].mem, points[n].disk, a)

-------------------------------------------------------------------------------
(* Running the points of a handler *)

LEMMA SameLedger ==
  ASSUME NEW old, NEW new, \A g \in GrantIds : new[g] = old[g]
  PROVE  Ledgered(old, new)
  BY DEF Ledgered, Ends, SameEntry

LEMMA OnwardSame ==
  ASSUME NEW engine, NEW image, engine.grants = mem.grants, image.grants = disk.grants
  PROVE  Onward(engine, image)
  BY SameLedger DEF Onward, KeepsIdentity, KeepsQuarantine, SameIdentity

LEMMA HeardMore ==
  ASSUME NEW grants, NEW told, NEW more, told \subseteq more, Heard(grants, told)
  PROVE  Heard(grants, more)
  BY DEF Heard

LEMMA GoodMore ==
  ASSUME NEW engine, NEW image, NEW told, NEW more, told \subseteq more
  PROVE  /\ Good(engine, image, told) => Good(engine, image, more)
         /\ ImageGood(image, told) => ImageGood(image, more)
  BY HeardMore DEF Good, EngineGood, ImageGood, Recent

\* Ticks and minted ids change nothing the books say.
LEMMA StillGood ==
  ASSUME CoreInv, NEW point \in PointType, Still(point), NEW told, Told \subseteq told,
         Good(mem, disk, Told)
  PROVE  /\ Good(point.mem, point.disk, told)
         /\ Onward(point.mem, point.disk)
         /\ InStep(mem, disk) => InStep(point.mem, point.disk)
<1>1. /\ mem \in Engine /\ point.mem \in Engine
  BY DEF CoreInv, PointType
<1>2. /\ mem.grants \in [GrantIds -> Grant] /\ mem.tick \in Nat /\ mem.serial \in Nat
      /\ point.mem.tick \in Nat
  BY <1>1, EngineFields
<1>3. Good(mem, disk, told)
  BY GoodMore
<1>4. EngineGood(mem, told)
  BY <1>3 DEF Good
<1>5. InReach(point.mem.grants, point.mem.tick)
  <2>1. InReach(mem.grants, mem.tick)
    BY <1>4 DEF EngineGood
  <2>2. \A g \in GrantIds : point.mem.grants[g] = mem.grants[g]
    BY DEF Still
  <2>3. point.mem.tick >= mem.tick
    BY DEF Still
  <2>. QED BY <1>2, <2>1, <2>2, <2>3, ReachRows
<1>6. EngineGood(point.mem, told)
  BY <1>1, <1>4, <1>5, EngineGoodRows DEF Still
<1>7. Good(point.mem, point.disk, told)
  BY <1>3, <1>6 DEF Good, Still, Linked
<1>8. Onward(point.mem, point.disk)
  BY OnwardSame DEF Still
<1>. QED BY <1>7, <1>8 DEF Still, InStep, Matched

\* A handler comes to its last point or fills the log.
LEMMA ReachedEnd ==
  ASSUME CoreInv, sink = "journal", NEW S, NEW points \in Seq(S), Len(points) >= 1
  PROVE  /\ Full(used) => Reached(points, TRUE) = 1 /\ Recorded(1) = used
         /\ Reached(points, TRUE) # Len(points) =>
              Full(Recorded(Reached(points, TRUE)))
<1>1. JournalBound \in Nat /\ used \in 0..JournalBound /\ Len(points) \in Nat
  BY CoreAssumption DEF CoreInv
<1>2. CASE JournalBound = 0
  BY <1>1, <1>2 DEF Full, Reached
<1>3. CASE JournalBound # 0
  <2>1. Reached(points, TRUE) = Least(Len(points), 1 + JournalBound - used)
    BY <1>1, <1>3 DEF Reached, Least
  <2>2. \A n \in Nat : Recorded(n) = used + n - 1
    BY <1>1, <1>3 DEF Recorded
  <2>. DEFINE k == Len(points)
  <2>3. k \in Nat /\ k >= 1
    BY <1>1
  <2>4. \A u \in 0..JournalBound : \A len \in Nat :
          len >= 1 =>
          /\ u >= JournalBound =>
               Least(len, 1 + JournalBound - u) = 1 /\ u + 1 - 1 = u
          /\ Least(len, 1 + JournalBound - u) # len =>
               u + Least(len, 1 + JournalBound - u) - 1 >= JournalBound
          /\ Least(len, 1 + JournalBound - u) \in Nat
    BY <1>1 DEF Least
  <2>. HIDE DEF k
  <2>5. /\ used >= JournalBound =>
             Least(k, 1 + JournalBound - used) = 1 /\ used + 1 - 1 = used
        /\ Least(k, 1 + JournalBound - used) # k =>
             used + Least(k, 1 + JournalBound - used) - 1 >= JournalBound
        /\ Least(k, 1 + JournalBound - used) \in Nat
    BY <1>1, <2>3, <2>4
  <2>. QED BY <1>3, <2>1, <2>2, <2>5 DEF Full, k
<1>. QED BY <1>2, <1>3

LEMMA NoEngineGood == ASSUME NEW told PROVE EngineGood(NoEngine, told)
<1>1. /\ NoEngine.grants = NoGrants /\ NoEngine.attempts = NoAttempts
      /\ NoEngine.tick = 0 /\ NoEngine.serial = 0
  BY DEF NoEngine
<1>2. \A g \in GrantIds : NoGrants[g] = NoGrant
  BY DEF NoGrants
<1>3. \A a \in Attempts : NoAttempts[a] = NoAttempt
  BY DEF NoAttempts
<1>4. /\ NoGrant.state = "Absent" /\ NoGrant.expiry = 0 /\ ~NoGrant.acked
      /\ ~NoAttempt.known /\ NoAttempt.grant = 0
  BY DEF NoGrant, NoAttempt
<1>5. Booked(NoGrants, NoAttempts)
  BY <1>2, <1>3, <1>4 DEF Booked, Filled, Single, Faithful, Standing
<1>6. Complete(NoGrants, NoAttempts)
  BY <1>2, <1>4 DEF Complete
<1>7. Minted(NoEngine)
  BY <1>1, <1>2, <1>4 DEF Minted
<1>8. Heard(NoGrants, told)
  BY <1>2, <1>4 DEF Heard, Acknowledged
<1>9. Recent(NoEngine, told)
  BY <1>1, <1>2, <1>4 DEF Recent, IsLive
<1>10. InReach(NoGrants, 0)
  <2>1. Options.maxLease \in Nat
    BY EligibilityAssumption
  <2>2. 0 <= 0 + Options.maxLease
    BY <2>1
  <2>. QED BY <1>2, <1>4, <2>2 DEF InReach
<1>. QED BY <1>1, <1>5, <1>6, <1>7, <1>8, <1>9, <1>10 DEF EngineGood

\* The points a run of a handler comes past.
LEMMA Passed ==
  ASSUME Inv, Books, up, NEW points \in Seq(SafePoints), Len(points) >= 1,
         NEW told, Told \subseteq told, Walks(points, told),
         NEW n \in 1..Reached(points, sink = "journal")
  PROVE  /\ n \in 1..Len(points) /\ points[n] \in SafePoints
         /\ Good(points[n].mem, points[n].disk, told)
         /\ sink = "journal" =>
              Onward(points[n].mem, points[n].disk) /\ points[n].disk.spec.bound
         /\ n = Reached(points, sink = "journal") =>
              InStep(points[n].mem, points[n].disk) \/ Full(Recorded(n))
         /\ points[n].reply \in Authorising => InStep(mem, disk)
<1>1. n \in 1..Len(points) /\ points[n] \in SafePoints /\ points[n] \in PointType
  <2>1. Reached(points, sink = "journal") \in 1..Len(points)
    BY ReachedType DEF Inv, CoreInv
  <2>2. n \in 1..Len(points)
    BY <2>1
  <2>. QED BY <2>2 DEF SafePoints
<1>2. sink = "journal" => points[n].disk.spec.bound
  BY <1>1 DEF SafePoints, Safe, Agree, Covers
<1>3. CASE InStep(mem, disk)
  <2>1. /\ Good(points[n].mem, points[n].disk, told)
        /\ sink = "journal" => Onward(points[n].mem, points[n].disk)
    BY <1>1, <1>3 DEF Walks, Fits
  <2>2. ASSUME n = Reached(points, sink = "journal")
        PROVE  InStep(points[n].mem, points[n].disk) \/ Full(Recorded(n))
    <3>1. CASE n = Len(points)
      BY <1>3, <3>1 DEF Walks
    <3>2. CASE n # Len(points) /\ sink = "journal"
      <4>1. Reached(points, TRUE) # Len(points)
        BY <2>2, <3>2
      <4>2. Full(Recorded(Reached(points, TRUE)))
        BY <3>2, <4>1, ReachedEnd DEF Inv
      <4>. QED BY <2>2, <3>2, <4>2
    <3>3. CASE sink # "journal"
      BY <3>3 DEF InStep
    <3>. QED BY <3>1, <3>2, <3>3
  <2>. QED BY <1>1, <1>2, <1>3, <2>1, <2>2
<1>4. CASE ~InStep(mem, disk)
  <2>1. Full(used) /\ sink = "journal"
    BY <1>4 DEF Books, Tables, InStep
  <2>2. Reached(points, sink = "journal") = 1 /\ Recorded(1) = used
    BY <2>1, ReachedEnd DEF Inv
  <2>3. n = 1
    BY <2>2
  <2>4. Still(points[n])
    BY <2>3 DEF Walks
  <2>5. /\ Good(points[n].mem, points[n].disk, told)
        /\ Onward(points[n].mem, points[n].disk)
    BY <1>1, <2>4, StillGood DEF Inv, Books, Tables
  <2>. QED BY <1>1, <1>2, <2>1, <2>2, <2>3, <2>4, <2>5 DEF Still
<1>. QED BY <1>3, <1>4

LEMMA StepOnward ==
  ASSUME NEW engine, NEW image, Onward(engine, image), disk' = image
  PROVE  StepKeeps
  BY DEF Onward, StepKeeps, KeepsIdentity, KeepsQuarantine

LEMMA StepSame == ASSUME disk' = disk PROVE StepKeeps
  BY SameLedger DEF StepKeeps, KeepsIdentity, KeepsQuarantine, SameIdentity

LEMMA CompletesBooks ==
  ASSUME Inv, Books, up, NEW points \in Seq(SafePoints), Len(points) >= 1,
         NEW told, Told \subseteq told, told = Told', Walks(points, told),
         Completes(points)
  PROVE  /\ Tables' /\ StepKeeps
         /\ sink = "journal" => Onward(mem', disk')
<1>. DEFINE n == Reached(points, sink = "journal")
<1>1. n \in 1..n
  <2>1. n \in 1..Len(points)
    BY ReachedType DEF Inv, CoreInv
  <2>. QED BY <2>1
<1>2. /\ Good(points[n].mem, points[n].disk, told)
      /\ sink = "journal" =>
           Onward(points[n].mem, points[n].disk) /\ points[n].disk.spec.bound
      /\ InStep(points[n].mem, points[n].disk) \/ Full(Recorded(n))
  BY <1>1, Passed
<1>3. mem' = points[n].mem /\ sink' = sink
  BY DEF Completes
<1>4. sink = "journal" => disk' = points[n].disk /\ used' = Recorded(n)
  BY DEF Completes, Persists
<1>5. sink # "journal" => disk' = disk /\ used' = used
  BY DEF Completes, Persists
<1>. HIDE DEF n
<1>6. CASE sink = "journal"
  <2>1. Good(mem, disk, Told)' /\ ImageGood(disk, Told)'
    BY <1>2, <1>3, <1>4, <1>6 DEF Good, ImageGood
  <2>2. InStep(mem, disk)' \/ Full(used)'
    BY <1>2, <1>3, <1>4, <1>6 DEF InStep, Full
  <2>3. Onward(mem', disk') /\ disk'.spec.bound
    BY <1>2, <1>3, <1>4, <1>6
  <2>4. StepKeeps
    BY <1>2, <1>4, <1>6, StepOnward
  <2>. QED BY <2>1, <2>2, <2>3, <2>4 DEF Tables
<1>7. CASE sink # "journal"
  <2>1. ImageGood(disk, told)
    BY GoodMore DEF Books, Tables
  <2>2. Good(mem, disk, Told)' /\ ImageGood(disk, Told)'
    BY <1>2, <1>3, <1>5, <1>7, <2>1 DEF Good, ImageGood
  <2>3. InStep(mem, disk)'
    BY <1>3, <1>7 DEF InStep
  <2>4. ~disk'.spec.bound => disk' = EmptyImage
    BY <1>5, <1>7 DEF Books, Tables
  <2>5. StepKeeps
    BY <1>5, <1>7, StepSame
  <2>. QED BY <1>7, <2>2, <2>3, <2>4, <2>5 DEF Tables
<1>. QED BY <1>6, <1>7

LEMMA DurableOn ==
  ASSUME NEW image, KeepsIdentity(image), Durable(answered, disk)
  PROVE  Durable(answered, image)
<1>1. SUFFICES ASSUME NEW a \in Attempts, answered[a] \in Authorising
               PROVE  \E g \in GrantIds : Shows(image, a, g)
  BY DEF Durable
<1>2. PICK g \in GrantIds : Shows(disk, a, g)
  BY <1>1 DEF Durable
<1>3. Shows(image, a, g)
  BY <1>2 DEF Shows, KeepsIdentity, SameIdentity
<1>. QED BY <1>3

LEMMA BackedOn ==
  ASSUME NEW engine, NEW image, Onward(engine, image), Backed(answered, mem, disk)
  PROVE  Backed(answered, engine, image) /\ Durable(answered, image)
<1>1. ASSUME NEW a \in Attempts, answered[a] \in Authorising
      PROVE  Backs(engine, image, a)
  <2>1. PICK g \in GrantIds : /\ Shows(disk, a, g)
                              /\ mem.grants[g].state # "Absent"
                              /\ mem.grants[g].attempt = a
    BY <1>1 DEF Backed, Backs
  <2>2. Shows(image, a, g)
    BY <2>1 DEF Shows, Onward, KeepsIdentity, SameIdentity
  <2>3. engine.grants[g].state # "Absent" /\ engine.grants[g].attempt = a
    BY <2>1 DEF Onward
  <2>. QED BY <2>2, <2>3 DEF Backs
<1>. QED BY <1>1 DEF Backed, Durable, Backs

LEMMA FallsBooks ==
  ASSUME Falls, NEW told, told = Told', ImageGood(disk', told),
         ~disk'.spec.bound => disk' = EmptyImage,
         Options.attaches => Durable(answered, disk')
  PROVE  Books'
<1>1. sink' = "none" /\ mem' = NoEngine /\ answered' = answered
  BY DEF Falls
<1>2. EngineGood(mem', told)
  BY <1>1, NoEngineGood
<1>3. Good(mem, disk, Told)' /\ ImageGood(disk, Told)'
  BY <1>1, <1>2 DEF Good, ImageGood
<1>4. InStep(mem, disk)'
  BY <1>1 DEF InStep
<1>5. Words'
  BY <1>1 DEF Words, Durable
<1>. QED BY <1>3, <1>4, <1>5 DEF Books, Tables

LEMMA CrashesBooks ==
  ASSUME Inv, Books, up, NEW points \in Seq(SafePoints), Len(points) >= 1,
         NEW told, Told \subseteq told, told = Told', Walks(points, told),
         CrashesIn(points)
  PROVE  Books' /\ StepKeeps
<1>1. PICK n \in 1..Reached(points, sink = "journal") :
        Persists(points, n, sink = "journal")
  BY DEF CrashesIn
<1>2. /\ Good(points[n].mem, points[n].disk, told)
      /\ sink = "journal" =>
           Onward(points[n].mem, points[n].disk) /\ points[n].disk.spec.bound
  BY Passed
<1>3. Falls
  BY DEF CrashesIn
<1>4. CASE sink = "journal"
  <2>1. disk' = points[n].disk
    BY <1>1, <1>4 DEF Persists
  <2>2. ImageGood(disk', told)
    BY <1>2, <1>4, <2>1 DEF Good
  <2>3. Options.attaches => Durable(answered, disk')
    BY <1>2, <1>4, <2>1, DurableOn DEF Onward, Books, Words
  <2>4. StepKeeps
    BY <1>2, <1>4, <2>1, StepOnward
  <2>. QED BY <1>2, <1>3, <1>4, <2>1, <2>2, <2>3, <2>4, FallsBooks
<1>5. CASE sink # "journal"
  <2>1. disk' = disk
    BY <1>1, <1>5 DEF Persists
  <2>2. ImageGood(disk', told)
    BY <2>1, GoodMore DEF Books, Tables
  <2>3. ~disk'.spec.bound => disk' = EmptyImage
    BY <2>1 DEF Books, Tables
  <2>4. Options.attaches => Durable(answered, disk')
    BY <2>1 DEF Books, Words
  <2>5. StepKeeps
    BY <2>1, StepSame
  <2>. QED BY <1>3, <2>2, <2>3, <2>4, <2>5, FallsBooks
<1>. QED BY <1>4, <1>5

LEMMA ToldSame == ASSUME UNCHANGED acks PROVE Told = Told'
  BY DEF Told

LEMMA WordsOn ==
  ASSUME Inv, Books, up, Inv', UNCHANGED <<up, sink>>, UNCHANGED answered,
         sink = "journal" => Onward(mem', disk')
  PROVE  Words'
<1>1. SUFFICES ASSUME Options.attaches
               PROVE  /\ sink' # "memory" /\ Durable(answered', disk')
                      /\ Backed(answered', mem', disk')
  BY DEF Words
<1>2. sink = "journal" /\ Backed(answered, mem, disk)
  BY <1>1 DEF Books, Words, Inv, CoreInv
<1>3. Backed(answered, mem', disk') /\ Durable(answered, disk')
  BY <1>2, BackedOn
<1>. QED BY <1>2, <1>3 DEF Backed, Durable

LEMMA PerformsBooks ==
  ASSUME Inv, Books, up, NEW points \in Seq(SafePoints), Len(points) >= 1,
         Walks(points, Told), Performs(points)
  PROVE  Books' /\ StepKeeps
<1>1. PICK told : told = Told
  OBVIOUS
<1>2. told = Told' /\ Told \subseteq told /\ Walks(points, told)
  BY <1>1, ToldSame DEF Performs
<1>3. Inv'
  BY PerformsSafe
<1>4. CASE Completes(points) /\ UNCHANGED <<answered, acks>>
  <2>1. Tables' /\ StepKeeps /\ (sink = "journal" => Onward(mem', disk'))
    BY <1>2, <1>4, CompletesBooks
  <2>2. Words'
    BY <1>3, <1>4, <2>1, WordsOn DEF Completes
  <2>. QED BY <2>1, <2>2 DEF Books
<1>5. CASE CrashesIn(points)
  BY <1>2, <1>5, CrashesBooks
<1>. QED BY <1>4, <1>5 DEF Performs

LEMMA AnswersBooks ==
  ASSUME Inv, Books, up, NEW points \in Seq(SafePoints), Len(points) >= 1,
         Walks(points, Told), NEW attempt, Honest(points, attempt),
         Answers(points, attempt)
  PROVE  Books' /\ StepKeeps
<1>1. PICK told : told = Told
  OBVIOUS
<1>2. told = Told' /\ Told \subseteq told /\ Walks(points, told)
  BY <1>1, ToldSame DEF Answers
<1>3. Inv'
  BY AnswersSafe
<1>4. CASE /\ Completes(points)
           /\ answered' = [answered EXCEPT
                             ![attempt] = points[Reached(points, sink = "journal")].reply]
  <2>. DEFINE n == Reached(points, sink = "journal")
  <2>1. Tables' /\ StepKeeps /\ (sink = "journal" => Onward(mem', disk'))
    BY <1>2, <1>4, CompletesBooks
  <2>2. n \in 1..n /\ n \in 1..Len(points)
    <3>1. n \in 1..Len(points)
      BY ReachedType DEF Inv, CoreInv
    <3>. QED BY <3>1
  <2>3. points[n].reply \in Authorising => InStep(mem, disk)
    BY <1>2, <2>2, Passed
  <2>4. /\ mem' = points[n].mem /\ sink' = sink
        /\ sink = "journal" => disk' = points[n].disk
        /\ answered' = [answered EXCEPT ![attempt] = points[n].reply]
    BY <1>4 DEF Completes, Persists
  <2>5. sink = "journal" /\ points[n].reply \in Authorising =>
          Backs(points[n].mem, points[n].disk, attempt)
    BY <2>2, <2>3 DEF Honest
  <2>. HIDE DEF n
  <2>6. Words'
    <3>1. SUFFICES ASSUME Options.attaches
                   PROVE  /\ sink' # "memory" /\ Durable(answered', disk')
                          /\ Backed(answered', mem', disk')
      BY DEF Words
    <3>2. sink = "journal" /\ Backed(answered, mem, disk)
      BY <3>1 DEF Books, Words, Inv, CoreInv
    <3>3. Backed(answered, mem', disk')
      BY <2>1, <3>2, BackedOn
    <3>4. points[n].reply \in Authorising => Backs(mem', disk', attempt)
      BY <2>4, <2>5, <3>2
    <3>5. ASSUME NEW a \in Attempts, answered'[a] \in Authorising
          PROVE  Backs(mem', disk', a)
      <4>1. answered \in [Attempts -> Outcomes \cup {None}]
        BY DEF Inv, HistoryOK
      <4>2. CASE a = attempt
        BY <2>4, <3>4, <3>5, <4>1, <4>2
      <4>3. CASE a # attempt
        BY <2>4, <3>3, <3>5, <4>1, <4>3 DEF Backed
      <4>. QED BY <4>2, <4>3
    <3>6. Durable(answered', disk')
      BY <3>5 DEF Durable, Backs
    <3>. QED BY <2>4, <3>2, <3>5, <3>6 DEF Backed
  <2>. QED BY <2>1, <2>6 DEF Books
<1>5. CASE CrashesIn(points)
  BY <1>2, <1>5, CrashesBooks
<1>. QED BY <1>4, <1>5 DEF Answers

-------------------------------------------------------------------------------
(* Rows and the ledger *)

\* What the log may say next of a grant that stands in the engine.
Passes(g, ids, written) ==
  LET row == written.grants[g]
  IN  /\ Kept(mem.grants[g], row)
      /\ \/ IsTerminal(row.state)
         \/ /\ row.state \in {"Committed", "Acknowledged"}
            /\ IsLive(mem.grants[g].state) \/ ids = {g}
      /\ IsQuarantined(mem.grants[g].state) =>
           written.spec = disk.spec /\ row.state # "Expired"

LEMMA StatusOf ==
  ASSUME NEW row
  PROVE  /\ row.state = "Absent" => Status(row) = "free"
         /\ row.state = "Prepared" => Status(row) = "offered"
         /\ row.state \in {"Committed", "Acknowledged"} => Status(row) = "held"
         /\ IsQuarantined(row.state) => Status(row) = "quarantined"
         /\ IsTerminal(row.state) => Status(row) = "ended"
  BY DEF Status, LedgerStatus, IsQuarantined, IsTerminal

LEMMA RowsOnward ==
  ASSUME CoreInv, Tables, sink = "journal", NEW next, NEW written,
         NEW ids \in SUBSET GrantIds, NEW rows,
         \A g \in GrantIds :
           next.grants[g] = IF g \in ids THEN rows[g] ELSE mem.grants[g],
         \A g \in GrantIds \ ids : written.grants[g] = disk.grants[g],
         \A g \in ids : Kept(mem.grants[g], rows[g]) /\ Passes(g, ids, written)
  PROVE  Onward(next, written)
<1>1. /\ mem.grants \in [GrantIds -> Grant] /\ Covers(disk, mem)
      /\ Linked(mem, disk)
  BY EngineFields DEF CoreInv, Tables, Good
<1>2. ASSUME NEW g \in ids
      PROVE  /\ HoldsCapacity(disk.grants[g].state)
             /\ SameIdentity(disk.grants[g], written.grants[g])
             /\ Issued(written.grants[g].state)
  <2>1. Kept(mem.grants[g], written.grants[g]) /\ Standing(mem.grants[g].state)
    BY DEF Passes, Kept
  <2>2. HoldsCapacity(disk.grants[g].state)
    BY <1>1, <2>1, StandingRow DEF Covers
  <2>3. SameIdentity(mem.grants[g], disk.grants[g])
    BY <1>1, <2>1 DEF Linked, Standing
  <2>. QED BY <2>1, <2>2, <2>3 DEF Kept, SameIdentity
<1>3. KeepsIdentity(written)
  BY <1>2 DEF KeepsIdentity, SameIdentity
<1>4. KeepsQuarantine(written)
  BY <1>1 DEF KeepsQuarantine, Passes, Linked
<1>5. \A g \in ids :
        \/ /\ Status(disk.grants[g]) \in {"held", "quarantined"}
           /\ Status(written.grants[g]) = "ended"
        \/ Status(disk.grants[g]) = "held" /\ Status(written.grants[g]) = "held"
        \/ /\ Status(disk.grants[g]) = "quarantined"
           /\ Status(written.grants[g]) = "held" /\ ids = {g}
  <2>1. TAKE g \in ids
  <2>2. HoldsCapacity(disk.grants[g].state) /\ Passes(g, ids, written)
    BY <1>2
  <2>3. \/ Status(disk.grants[g]) = "held"
        \/ Status(disk.grants[g]) = "quarantined" /\ IsQuarantined(mem.grants[g].state)
    BY <1>1, <2>2, StatusOf DEF HoldsCapacity, Linked
  <2>4. CASE IsTerminal(written.grants[g].state)
    BY <2>3, <2>4, StatusOf
  <2>5. CASE /\ written.grants[g].state \in {"Committed", "Acknowledged"}
             /\ IsLive(mem.grants[g].state) \/ ids = {g}
    <3>1. IsLive(mem.grants[g].state) => ~IsQuarantined(mem.grants[g].state)
      BY DEF IsLive, IsQuarantined
    <3>. QED BY <2>3, <2>5, <3>1, StatusOf
  <2>. QED BY <2>2, <2>4, <2>5 DEF Passes
<1>6. \A g \in GrantIds : written.grants[g].attempt = disk.grants[g].attempt
  BY <1>2 DEF SameIdentity
<1>7. Ledgered(disk.grants, written.grants)
  <2>1. CASE \E g \in ids : Status(disk.grants[g]) = "quarantined" /\
                            Status(written.grants[g]) = "held" /\ ids = {g}
    <3>1. Lifts(disk.grants, written.grants)
      BY <1>6, <2>1 DEF Lifts, SameEntry, Status
    <3>. QED BY <3>1 DEF Ledgered
  <2>2. CASE \A g \in ids :
               \/ /\ Status(disk.grants[g]) \in {"held", "quarantined"}
                  /\ Status(written.grants[g]) = "ended"
               \/ Status(disk.grants[g]) = "held" /\ Status(written.grants[g]) = "held"
    <3>1. Ends(disk.grants, written.grants)
      BY <1>6, <2>2 DEF Ends, SameEntry
    <3>. QED BY <3>1 DEF Ledgered
  <2>. QED BY <1>5, <2>1, <2>2
<1>8. \A g \in GrantIds : mem.grants[g].state # "Absent" =>
        next.grants[g].state # "Absent" /\ next.grants[g].attempt = mem.grants[g].attempt
  BY DEF Kept, Issued, SameIdentity
<1>. QED BY <1>3, <1>4, <1>7, <1>8 DEF Onward

\* A handler that came to engine and image goes on to next and written.
Leads(engine, image, next, written, told) ==
  /\ Good(next, written, told)
  /\ sink = "journal" => Onward(next, written)
  /\ InStep(engine, image) => InStep(next, written)

\* What a loop may make of the grants it is for.
Sweeps(engine, image, targets, rows) ==
  \A g \in targets :
    /\ RowGoes(g, engine.grants[g], rows[g], rows[g], Told, engine.tick)
    /\ \/ IsTerminal(rows[g].state)
       \/ rows[g].state \in {"Committed", "Acknowledged"} /\ IsLive(engine.grants[g].state)
    /\ IsQuarantined(engine.grants[g].state) =>
         image.spec = disk.spec /\ rows[g].state # "Expired"

LEMMA RowsLead ==
  ASSUME CoreInv, Tables,
         NEW engine \in Engine, NEW image \in Image, NEW next \in Engine, NEW written,
         NEW done \in SUBSET GrantIds, NEW rows,
         engine.grants = mem.grants, image.grants = disk.grants,
         Good(engine, image, Told),
         sink = "journal" => /\ Covers(image, engine)
                             /\ Wrote(image, written, done, rows, engine.tick),
         Turned(engine, next, done, rows),
         Sweeps(engine, image, done, rows)
  PROVE  Leads(engine, image, next, written, Told)
<1>1. RowsGo(engine, done, rows, rows, Told)
  BY DEF Sweeps, RowsGo
<1>2. /\ Good(next, written, Told)
      /\ sink = "journal" /\ Matched(engine, image) => Matched(next, written)
  BY <1>1, RowsGood
<1>3. ASSUME sink = "journal" PROVE Onward(next, written)
  <2>1. \A g \in GrantIds :
          next.grants[g] = IF g \in done THEN rows[g] ELSE mem.grants[g]
    BY DEF Turned
  <2>2. \A g \in GrantIds :
          written.grants[g] = IF g \in done THEN rows[g] ELSE disk.grants[g]
    BY <1>3 DEF Wrote
  <2>3. written.spec = image.spec
    BY <1>3 DEF Wrote
  <2>4. ASSUME NEW g \in done
        PROVE  Kept(mem.grants[g], rows[g]) /\ Passes(g, done, written)
    BY <2>2, <2>3 DEF Sweeps, RowGoes, Passes
  <2>5. \A g \in GrantIds \ done : written.grants[g] = disk.grants[g]
    BY <2>2
  <2>. QED BY <1>3, <2>1, <2>4, <2>5, RowsOnward
<1>4. InStep(engine, image) => InStep(next, written)
  BY <1>2 DEF InStep, Wrote, Intact
<1>. QED BY <1>2, <1>3, <1>4 DEF Leads

LEMMA SweepLeads ==
  ASSUME CoreInv, Tables, NEW engine \in Engine, NEW image \in Image,
         NEW targets \in SUBSET GrantIds, NEW rows \in [GrantIds -> Grant],
         engine.grants = mem.grants, image.grants = disk.grants,
         Good(engine, image, Told),
         sink = "journal" => Covers(image, engine),
         Sweeps(engine, image, targets, rows)
  PROVE  LET points == Sweep(engine, image, targets, rows)
         IN  /\ Len(points) \in Nat /\ Len(points) >= 1
             /\ \A n \in 1..Len(points) :
                  Leads(engine, image, points[n].mem, points[n].disk, Told)
             /\ points[1] = Point(engine, image, None)
<1>. DEFINE next(done) == [engine EXCEPT !.grants = Rewritten(@, done, rows)]
            written(done) == WriteGrants(image, done, rows, engine.tick)
            k == Cardinality(targets) + 1
            points == [n \in 1..k |-> Point(next(Earliest(targets, n - 1)),
                                            written(Earliest(targets, n - 1)), None)]
<1>1. Sweep(engine, image, targets, rows) = points
  BY DEF Sweep
<1>2. k \in Nat /\ k >= 1
  BY CountType
<1>3. /\ engine.grants \in [GrantIds -> Grant] /\ engine.tick \in Nat
  BY EngineFields
<1>4. ASSUME NEW done \in SUBSET targets
      PROVE  Leads(engine, image, next(done), written(done), Told)
  <2>. DEFINE grants == Rewritten(engine.grants, done, rows)
              new == [engine EXCEPT !.grants = grants]
  <2>1. /\ grants \in [GrantIds -> Grant]
        /\ \A g \in GrantIds : grants[g] = IF g \in done THEN rows[g] ELSE engine.grants[g]
    BY <1>3 DEF Rewritten
  <2>2. next(done) = new
    BY DEF Engine
  <2>. HIDE DEF grants
  <2>3. /\ new \in Engine /\ new.grants = grants /\ new.serial = engine.serial
        /\ new.spec = engine.spec /\ new.attempts = engine.attempts
        /\ new.tick = engine.tick
    BY <2>1, EngineGrants
  <2>4. new.contracts = engine.contracts
    BY DEF Engine
  <2>. HIDE DEF new
  <2>5. Wrote(image, written(done), done, rows, engine.tick)
    <3>1. done \in SUBSET GrantIds
      OBVIOUS
    <3>. QED BY <1>3, <3>1, GrantsWritten
  <2>. HIDE DEF next, written
  <2>6. Sweeps(engine, image, done, rows)
    BY DEF Sweeps
  <2>7. done \in SUBSET GrantIds
    OBVIOUS
  <2>8. Turned(engine, new, done, rows)
    BY <2>1, <2>3, <2>4 DEF Turned
  <2>9. Leads(engine, image, new, written(done), Told)
    BY <2>3, <2>5, <2>6, <2>7, <2>8, RowsLead
  <2>. QED BY <2>2, <2>9
<1>5. \A n \in 1..k : Earliest(targets, n - 1) \in SUBSET targets
  BY DEF Earliest
<1>6. Earliest(targets, 1 - 1) = {}
  <2>1. \A h \in targets : Cardinality({x \in targets : x < h}) \in Nat
    BY CountType
  <2>. QED BY <2>1 DEF Earliest
<1>7. next({}) = engine /\ written({}) = image
  <2>1. Rewritten(engine.grants, {}, rows) = engine.grants
    BY <1>3 DEF Rewritten
  <2>2. written({}) = image
    BY DEF WriteGrants
  <2>3. next({}) = [engine EXCEPT !.grants = engine.grants]
    BY <2>1 DEF Engine
  <2>4. [engine EXCEPT !.grants = engine.grants] = engine
    BY DEF Engine
  <2>. QED BY <2>2, <2>3, <2>4
<1>. HIDE DEF next, written, k
<1>8. points[1] = Point(engine, image, None)
  BY <1>2, <1>6, <1>7, SMTT(20)
<1>9. \A n \in 1..k : Leads(engine, image, points[n].mem, points[n].disk, Told)
  <2>1. TAKE n \in 1..k
  <2>. DEFINE done == Earliest(targets, n - 1)
  <2>2. points[n] = Point(next(done), written(done), None)
    OBVIOUS
  <2>3. points[n].mem = next(done) /\ points[n].disk = written(done)
    BY <2>2 DEF Point
  <2>. QED BY <1>4, <1>5, <2>3
<1>10. Len(points) = k
  BY <1>2
<1>. QED BY <1>1, <1>2, <1>8, <1>9, <1>10

-------------------------------------------------------------------------------
(* Sequences of points *)

LEMMA ConsAt ==
  ASSUME NEW S, NEW p \in S, NEW s \in Seq(S), Len(s) >= 1
  PROVE  LET points == << p >> \o s
         IN  /\ points \in Seq(S) /\ Len(points) = Len(s) + 1
             /\ points[1] = p
             /\ \A n \in 2..Len(points) : n - 1 \in 1..Len(s) /\ points[n] = s[n - 1]
             /\ points[Len(points)] = s[Len(s)]
<1>1. Len(s) \in Nat /\ << p >> \in Seq(S) /\ Len(<< p >>) = 1
  OBVIOUS
<1>2. Len(<< p >> \o s) = Len(s) + 1
  BY <1>1
<1>3. \A n \in 1..Len(s) + 1 :
        (<< p >> \o s)[n] = IF n <= 1 THEN << p >>[n] ELSE s[n - 1]
  BY <1>1
<1>4. \A n \in 2..Len(s) + 1 : n - 1 \in 1..Len(s) /\ (<< p >> \o s)[n] = s[n - 1]
  BY <1>1, <1>3
<1>5. (<< p >> \o s)[1] = p
  BY <1>1, <1>3
<1>6. (<< p >> \o s)[Len(s) + 1] = s[Len(s)]
  BY <1>1, <1>4
<1>. QED BY <1>1, <1>2, <1>4, <1>5, <1>6

\* A handler whose first point is still walks if the others fit.
LEMMA WalksFrom ==
  ASSUME CoreInv, Tables, NEW told, Told \subseteq told, NEW points \in Seq(SafePoints),
         Len(points) >= 1, Still(points[1]),
         InStep(mem, disk) =>
           /\ \A n \in 2..Len(points) : Fits(points[n], told)
           /\ Len(points) > 1 => InStep(points[Len(points)].mem, points[Len(points)].disk)
  PROVE  Walks(points, told)
<1>1. Len(points) \in Nat
  OBVIOUS
<1>2. points[1] \in PointType
  <2>1. points[1] \in SafePoints
    BY <1>1
  <2>. QED BY <2>1 DEF SafePoints
<1>3. /\ Fits(points[1], told)
      /\ InStep(mem, disk) => InStep(points[1].mem, points[1].disk)
  BY <1>2, StillGood DEF Fits, Tables
<1>4. \A n \in 1..Len(points) : n = 1 \/ n \in 2..Len(points)
  BY <1>1
<1>5. Len(points) = 1 \/ Len(points) > 1
  <2>1. \A k \in Nat : k >= 1 => k = 1 \/ k > 1
    OBVIOUS
  <2>. QED BY <1>1, <2>1
<1>. QED BY <1>3, <1>4, <1>5 DEF Walks

LEMMA StillStart ==
  ASSUME mem \in Engine, NEW reply, reply \notin Authorising
  PROVE  Still(Point(mem, disk, reply))
  BY EngineFields DEF Still, Point

LEMMA NoneSaysNothing == None \notin Authorising
  BY CoreAssumption DEF Outcomes, Authorising

LEMMA SweepWalks ==
  ASSUME CoreInv, Tables, NEW targets \in SUBSET GrantIds,
         NEW rows \in [GrantIds -> Grant], Sweeps(mem, disk, targets, rows),
         Sweep(mem, disk, targets, rows) \in Seq(SafePoints)
  PROVE  Walks(Sweep(mem, disk, targets, rows), Told)
<1>. DEFINE points == Sweep(mem, disk, targets, rows)
<1>1. /\ mem \in Engine /\ disk \in Image /\ Good(mem, disk, Told)
      /\ sink = "journal" => Covers(disk, mem)
  BY DEF CoreInv, Tables
<1>2. /\ Len(points) \in Nat /\ Len(points) >= 1
      /\ \A n \in 1..Len(points) :
           Leads(mem, disk, points[n].mem, points[n].disk, Told)
      /\ points[1] = Point(mem, disk, None)
  BY <1>1, SweepLeads
<1>. HIDE DEF points
<1>3. Still(points[1])
  BY <1>1, <1>2, StillStart, NoneSaysNothing
<1>4. Len(points) \in 1..Len(points)
  BY <1>2
<1>5. Walks(points, Told)
  BY <1>2, <1>3, <1>4 DEF Walks, Leads, Fits
<1>. QED BY <1>5 DEF points

-------------------------------------------------------------------------------
(* Loops *)

LEMMA FenceAllWalks ==
  ASSUME CoreInv, Tables
  PROVE  LET points == Sweep(mem, disk, Holders(mem.grants), AllTerminated(mem, "Fenced"))
         IN  points \in Seq(SafePoints) /\ Len(points) >= 1 /\ Walks(points, Told)
<1>. DEFINE targets == Holders(mem.grants)
            rows == AllTerminated(mem, "Fenced")
            points == Sweep(mem, disk, targets, rows)
<1>1. CoreInv /\ Tables /\ mem \in Engine /\ disk \in Image
  BY DEF CoreInv
<1>2. /\ targets \in SUBSET GrantIds
      /\ \A g \in targets : HoldsCapacity(mem.grants[g].state)
  BY DEF Holders
<1>3. /\ mem.grants \in [GrantIds -> Grant]
      /\ "Fenced" \in GrantStates /\ IsTerminal("Fenced") /\ "Fenced" # "Expired"
  BY <1>1, EngineFields DEF GrantStates, IsTerminal
<1>4. /\ rows \in [GrantIds -> Grant]
      /\ \A g \in GrantIds : /\ rows[g] = Terminated(mem.grants[g], "Fenced")
                             /\ Own(rows[g])
  BY <1>3, TerminatedType, TerminatedOwn DEF AllTerminated
<1>. HIDE DEF rows
<1>5. points \in Seq(SafePoints) /\ Len(points) >= 1
  BY <1>1, <1>2, <1>4, SweepSafe, StartSafe
<1>6. Sweeps(mem, disk, targets, rows)
  <2>1. ASSUME NEW g \in targets
        PROVE  /\ RowGoes(g, mem.grants[g], rows[g], rows[g], Told, mem.tick)
               /\ rows[g].state = "Fenced"
    <3>1. g \in GrantIds /\ mem.grants[g] \in Grant
      BY <1>2, <1>3
    <3>2. Standing(mem.grants[g].state)
      BY <1>2 DEF HoldsCapacity, IsQuarantined, Standing, IsTerminal
    <3>3. rows[g] = Terminated(mem.grants[g], "Fenced")
      BY <1>4, <3>1
    <3>4. RowGoes(g, mem.grants[g], Terminated(mem.grants[g], "Fenced"),
                  Terminated(mem.grants[g], "Fenced"), Told, mem.tick)
      BY <1>3, <3>1, <3>2, TerminatedGoes
    <3>5. Terminated(mem.grants[g], "Fenced").state = "Fenced"
      BY <1>3, <3>1, TerminatedType
    <3>. QED BY <3>3, <3>4, <3>5
  <2>. QED BY <1>3, <2>1 DEF Sweeps
<1>7. Walks(points, Told)
  BY <1>1, <1>2, <1>4, <1>5, <1>6, SweepWalks
<1>. QED BY <1>5, <1>7 DEF rows

LEMMA FenceAllBooks ==
  ASSUME Inv, Books, FenceAll
  PROVE  Books' /\ StepKeeps
<1>. DEFINE points == Sweep(mem, disk, Holders(mem.grants), AllTerminated(mem, "Fenced"))
<1>1. points \in Seq(SafePoints) /\ Len(points) >= 1 /\ Walks(points, Told)
  BY FenceAllWalks DEF Inv, Books
<1>2. Performs(points) /\ up
  BY DEF FenceAll
<1>. HIDE DEF points
<1>. QED BY <1>1, <1>2, PerformsBooks

LEMMA RevalidatedSweeps ==
  ASSUME NEW engine \in Engine, NEW image,
         NEW targets, targets = Live(engine.grants),
         \A g \in targets : Standing(engine.grants[g].state)
  PROVE  Sweeps(engine, image, targets, AllRevalidated(engine))
<1>1. engine.grants \in [GrantIds -> Grant]
  BY EngineFields
<1>2. ASSUME NEW g \in targets
      PROVE  /\ g \in GrantIds /\ engine.grants[g] \in Grant
             /\ IsLive(engine.grants[g].state) /\ ~IsQuarantined(engine.grants[g].state)
             /\ AllRevalidated(engine)[g] = Revalidated(engine, engine.grants[g])
  BY <1>1 DEF Live, AllRevalidated, IsLive, IsQuarantined
<1>3. ASSUME NEW g \in targets
      PROVE  LET new == Revalidated(engine, engine.grants[g])
             IN  /\ RowGoes(g, engine.grants[g], new, new, Told, engine.tick)
                 /\ new.state \in {"Committed", "Revoked"}
  <2>1. /\ engine.grants[g] \in Grant /\ Standing(engine.grants[g].state)
        /\ IsLive(engine.grants[g].state)
    BY <1>2
  <2>. QED BY <2>1, RevalidatedGoes, RevalidatedFields
<1>4. IsTerminal("Revoked")
  BY DEF IsTerminal
<1>. QED BY <1>2, <1>3, <1>4 DEF Sweeps

LEMMA LiveStands ==
  ASSUME NEW grants, NEW g \in Live(grants)
  PROVE  Standing(grants[g].state)
  BY DEF Live, IsLive, Standing, IsTerminal

LEMMA RevalidateWalks ==
  ASSUME CoreInv, Tables
  PROVE  LET points == Sweep(mem, disk, Live(mem.grants), AllRevalidated(mem))
         IN  points \in Seq(SafePoints) /\ Len(points) >= 1 /\ Walks(points, Told)
<1>. DEFINE targets == Live(mem.grants)
            rows == AllRevalidated(mem)
            points == Sweep(mem, disk, targets, rows)
<1>1. /\ CoreInv /\ Tables /\ mem \in Engine /\ disk \in Image
      /\ sink = "journal" => Covers(disk, mem)
  BY DEF CoreInv
<1>2. targets \in SUBSET GrantIds
  BY DEF Live
<1>3. /\ rows \in [GrantIds -> Grant]
      /\ \A g \in GrantIds : Own(rows[g])
  BY <1>1, AllRevalidatedType
<1>4. Sweeps(mem, disk, targets, rows)
  BY <1>1, LiveStands, RevalidatedSweeps
<1>5. sink = "journal" => \A g \in targets : HoldsCapacity(mem.grants[g].state)
  BY <1>1, LiveHolds
<1>. HIDE DEF rows, targets
<1>6. points \in Seq(SafePoints) /\ Len(points) >= 1
  BY <1>1, <1>2, <1>3, <1>5, SweepSafe, StartSafe
<1>7. Walks(points, Told)
  BY <1>1, <1>2, <1>3, <1>4, <1>6, SweepWalks
<1>. QED BY <1>6, <1>7 DEF rows, targets

LEMMA RevalidateBooks ==
  ASSUME Inv, Books, Revalidate
  PROVE  Books' /\ StepKeeps
<1>. DEFINE points == Sweep(mem, disk, Live(mem.grants), AllRevalidated(mem))
<1>1. points \in Seq(SafePoints) /\ Len(points) >= 1 /\ Walks(points, Told)
  BY RevalidateWalks DEF Inv, Books
<1>2. Performs(points) /\ up
  BY DEF Revalidate
<1>. HIDE DEF points
<1>. QED BY <1>1, <1>2, PerformsBooks

-------------------------------------------------------------------------------
(* Commands *)

\* A change that leaves grants and attempts alone.
LEMMA SameLeads ==
  ASSUME CoreInv, Tables, NEW next \in Engine, NEW written \in Image,
         next.grants = mem.grants, next.attempts = mem.attempts,
         next.serial >= mem.serial, next.tick >= mem.tick,
         next.spec.epoch = mem.spec.epoch,
         sink = "journal" =>
           /\ written.grants = disk.grants /\ written.attempts = disk.attempts
           /\ written.tick >= disk.tick /\ (written.replays => disk.replays)
           /\ written.spec = next.spec /\ written.contracts = next.contracts
  PROVE  Leads(mem, disk, next, written, Told)
<1>1. /\ mem \in Engine /\ disk \in Image
      /\ mem.grants \in [GrantIds -> Grant] /\ disk.grants \in [GrantIds -> Grant]
      /\ mem.tick \in Nat /\ disk.tick \in Nat /\ next.tick \in Nat /\ written.tick \in Nat
  BY EngineFields, ImageFields DEF CoreInv
<1>2. EngineGood(mem, Told)
  BY DEF Tables, Good
<1>3. EngineGood(next, Told)
  <2>1. InReach(mem.grants, mem.tick)
    BY <1>2 DEF EngineGood
  <2>2. \A g \in GrantIds : next.grants[g] = mem.grants[g]
    OBVIOUS
  <2>3. InReach(next.grants, next.tick)
    BY <1>1, <2>1, <2>2, ReachRows
  <2>. QED BY <1>1, <1>2, <2>3, EngineGoodRows
<1>4. ASSUME sink = "journal"
      PROVE  /\ ImageGood(written, Told) /\ Linked(next, written)
             /\ InStep(mem, disk) => InStep(next, written)
  <2>1. /\ ImageGood(disk, Told) /\ Linked(mem, disk)
        /\ written.grants = disk.grants /\ written.attempts = disk.attempts
        /\ Intact(written) => Intact(disk)
    BY <1>4 DEF Tables, Good, Intact
  <2>2. InReach(written.grants, written.tick)
    <3>1. InReach(disk.grants, disk.tick)
      BY <2>1 DEF ImageGood
    <3>2. \A g \in GrantIds : written.grants[g] = disk.grants[g]
      BY <2>1
    <3>3. written.tick >= disk.tick
      BY <1>4
    <3>. QED BY <1>1, <3>1, <3>2, <3>3, ReachRows
  <2>3. ImageGood(written, Told)
    BY <2>1, <2>2 DEF ImageGood
  <2>4. Linked(next, written)
    BY <2>1 DEF Linked
  <2>5. InStep(mem, disk) => InStep(next, written)
    BY <2>1 DEF InStep, Matched
  <2>. QED BY <2>3, <2>4, <2>5
<1>5. Good(next, written, Told)
  BY <1>3, <1>4 DEF Good
<1>6. sink = "journal" => Onward(next, written)
  BY OnwardSame
<1>7. InStep(mem, disk) => InStep(next, written)
  BY <1>4 DEF InStep
<1>. QED BY <1>5, <1>6, <1>7 DEF Leads

\* The points after the first one.
Goes(rest, told) ==
  /\ \A n \in 1..Len(rest) : Fits(rest[n], told)
  /\ InStep(rest[Len(rest)].mem, rest[Len(rest)].disk)

LEMMA ConsWalks ==
  ASSUME CoreInv, Tables, NEW told, Told \subseteq told, NEW first \in SafePoints,
         NEW rest \in Seq(SafePoints), Len(rest) >= 1, Still(first),
         InStep(mem, disk) => Goes(rest, told)
  PROVE  Walks(<< first >> \o rest, told)
<1>. DEFINE points == << first >> \o rest
<1>1. /\ points \in Seq(SafePoints) /\ Len(points) = Len(rest) + 1
      /\ points[1] = first
      /\ \A n \in 2..Len(points) : n - 1 \in 1..Len(rest) /\ points[n] = rest[n - 1]
      /\ points[Len(points)] = rest[Len(rest)]
  BY ConsAt
<1>2. Len(points) >= 1
  BY <1>1
<1>. HIDE DEF points
<1>3. Walks(points, told)
  BY <1>1, <1>2, WalksFrom DEF Goes
<1>. QED BY <1>3 DEF points

LEMMA OneLeads ==
  ASSUME NEW next, NEW written, NEW reply, InStep(mem, disk),
         Leads(mem, disk, next, written, Told)
  PROVE  Goes(<< Point(next, written, reply) >>, Told)
<1>. DEFINE point == Point(next, written, reply)
<1>1. Fits(point, Told) /\ InStep(point.mem, point.disk)
  BY DEF Leads, Fits, Point
<1>. HIDE DEF point
<1>2. /\ Len(<< point >>) = 1
      /\ \A n \in 1..1 : << point >>[n] = point
  OBVIOUS
<1>3. Goes(<< point >>, Told)
  BY <1>1, <1>2 DEF Goes
<1>. QED BY <1>3 DEF point

LEMMA CommandPointsWalk ==
  ASSUME CoreInv, Tables, NEW command \in Commands
  PROVE  Walks(CommandPoints(command), Told)
<1>. DEFINE written == WriteCommand(disk, command, mem.tick)
            changed == [mem EXCEPT !.spec = SpecAfter(@, command),
                                   !.contracts = ContractsAfter(@, command)]
            sweep == Sweep(changed, written, Live(mem.grants), AllRevalidated(changed))
            first == Point(mem, disk, None)
            rest == IF ~Accepts(mem.spec, mem.contracts, command)
                    THEN << Point(mem, written, None) >>
                    ELSE IF ~MovesAuthority(command) THEN << Point(changed, written, None) >>
                    ELSE sweep
<1>1. /\ mem \in Engine /\ disk \in Image /\ mem.tick \in Nat /\ command \in Command
      /\ mem.serial \in Nat
      /\ sink = "journal" => /\ Covers(disk, mem) /\ disk.spec = mem.spec
                             /\ disk.contracts = mem.contracts
  BY EngineFields, CoreAssumption DEF CoreInv, Tables, Good
<1>2. /\ written \in Image
      /\ written.grants = disk.grants /\ written.attempts = disk.attempts
      /\ written.tick >= disk.tick /\ (written.replays => disk.replays)
      /\ written.spec.bound = disk.spec.bound
      /\ Accepts(disk.spec, disk.contracts, command) =>
           /\ written.spec = SpecAfter(disk.spec, command)
           /\ written.contracts = ContractsAfter(disk.contracts, command)
      /\ ~Accepts(disk.spec, disk.contracts, command) =>
           written.spec = disk.spec /\ written.contracts = disk.contracts
  BY <1>1, WriteCommandType, CommandWritten
<1>3. CommandPoints(command) = << first >> \o rest
  BY DEF CommandPoints
<1>. HIDE DEF written
<1>4. sink = "journal" => Agree(mem, disk) /\ Agree(mem, written)
  BY <1>2, StartSafe, SameSafe
<1>5. Still(first) /\ first \in SafePoints
  BY <1>1, <1>4, StillStart, NoneSaysNothing, PointSafe
<1>. HIDE DEF first
<1>6. CASE ~Accepts(mem.spec, mem.contracts, command)
  <2>1. rest = << Point(mem, written, None) >>
    BY <1>6
  <2>. HIDE DEF rest
  <2>2. Point(mem, written, None) \in SafePoints
    BY <1>1, <1>2, <1>4, PointSafe
  <2>3. Leads(mem, disk, mem, written, Told)
    BY <1>1, <1>2, <1>6, SameLeads
  <2>4. InStep(mem, disk) => Goes(rest, Told)
    BY <2>1, <2>3, OneLeads
  <2>5. rest \in Seq(SafePoints) /\ Len(rest) >= 1
    BY <2>1, <2>2, OnePoint
  <2>. QED BY <1>3, <1>5, <2>4, <2>5, ConsWalks
<1>7. CASE Accepts(mem.spec, mem.contracts, command)
  <2>1. /\ changed \in Engine /\ changed.grants = mem.grants
        /\ changed.serial = mem.serial /\ changed.spec.bound = mem.spec.bound
        /\ changed.attempts = mem.attempts /\ changed.tick = mem.tick
        /\ changed.spec = SpecAfter(mem.spec, command)
        /\ changed.contracts = ContractsAfter(mem.contracts, command)
        /\ changed.spec.epoch = mem.spec.epoch
    BY <1>1, <1>7, CommandedType, Commanded
  <2>. HIDE DEF changed
  <2>2. sink = "journal" => Agree(changed, written)
    BY <1>4, <2>1, SameSafe
  <2>3. Point(changed, written, None) \in SafePoints
    BY <1>2, <2>1, <2>2, PointSafe
  <2>4. Leads(mem, disk, changed, written, Told)
    <3>1. mem.tick >= mem.tick /\ mem.serial >= mem.serial
      BY <1>1
    <3>2. sink = "journal" =>
             written.spec = changed.spec /\ written.contracts = changed.contracts
      BY <1>1, <1>2, <1>7, <2>1
    <3>. QED BY <1>2, <2>1, <3>1, <3>2, SameLeads
  <2>5. CASE ~MovesAuthority(command)
    <3>1. rest = << Point(changed, written, None) >>
      BY <1>7, <2>5
    <3>. HIDE DEF rest
    <3>2. InStep(mem, disk) => Goes(rest, Told)
      BY <2>4, <3>1, OneLeads
    <3>3. rest \in Seq(SafePoints) /\ Len(rest) >= 1
      BY <2>3, <3>1, OnePoint
    <3>. QED BY <1>3, <1>5, <3>2, <3>3, ConsWalks
  <2>6. CASE MovesAuthority(command)
    <3>. DEFINE targets == Live(mem.grants)
                rows == AllRevalidated(changed)
    <3>1. /\ rows \in [GrantIds -> Grant]
          /\ \A g \in GrantIds : Own(rows[g])
      BY <2>1, AllRevalidatedType
    <3>2. targets \in SUBSET GrantIds /\ targets = Live(changed.grants)
      BY <2>1 DEF Live
    <3>3. \A g \in targets : Standing(changed.grants[g].state)
      BY <3>2, LiveStands
    <3>4. Sweeps(changed, written, targets, rows)
      BY <2>1, <3>2, <3>3, RevalidatedSweeps
    <3>5. sink = "journal" =>
            \A g \in targets : HoldsCapacity(changed.grants[g].state)
      BY <2>1, <2>2, <3>2, LiveHolds DEF Agree
    <3>6. rest = Sweep(changed, written, targets, rows)
      BY <1>7, <2>6
    <3>. HIDE DEF targets, rows, rest, sweep
    <3>7. rest \in Seq(SafePoints) /\ Len(rest) >= 1
      BY <1>2, <2>1, <2>2, <3>1, <3>2, <3>5, <3>6, SweepSafe
    <3>8. /\ Good(changed, written, Told)
          /\ sink = "journal" => Covers(written, changed)
      BY <2>2, <2>4 DEF Leads, Agree
    <3>9. /\ Len(rest) \in Nat
          /\ \A n \in 1..Len(rest) :
               Leads(changed, written, rest[n].mem, rest[n].disk, Told)
      BY <1>2, <2>1, <3>1, <3>2, <3>4, <3>6, <3>8, SweepLeads
    <3>10. InStep(mem, disk) => Goes(rest, Told)
      <4>1. Len(rest) \in 1..Len(rest)
        BY <3>7, <3>9
      <4>. QED BY <2>4, <3>9, <4>1 DEF Goes, Leads, Fits
    <3>. QED BY <1>3, <1>5, <3>7, <3>10, ConsWalks
  <2>. QED BY <2>5, <2>6
<1>. QED BY <1>6, <1>7

LEMMA AdministerBooks ==
  ASSUME Inv, Books, NEW command \in Commands, Administer(command)
  PROVE  Books' /\ StepKeeps
<1>1. CoreInv /\ Tables /\ up /\ Performs(CommandPoints(command))
  BY DEF Inv, Books, Administer
<1>2. CommandPoints(command) \in Seq(SafePoints) /\ Len(CommandPoints(command)) >= 1
  BY <1>1, CommandPointsSafe
<1>3. Walks(CommandPoints(command), Told)
  BY <1>1, CommandPointsWalk
<1>. QED BY <1>1, <1>2, <1>3, PerformsBooks

-------------------------------------------------------------------------------
(* Leases *)

\* Records that say again what the log has.
LEMMA NotedLead ==
  ASSUME NEW engine, NEW image, NEW next \in Engine, NEW middle \in Image, NEW written,
         NEW ids, InStep(engine, image), Leads(engine, image, next, middle, Told),
         sink = "journal" => Noted(middle, written, ids, next.attempts)
  PROVE  Leads(engine, image, next, written, Told)
<1>1. ASSUME sink = "journal"
      PROVE  /\ ImageGood(written, Told) /\ Linked(next, written)
             /\ written.spec = next.spec /\ written.contracts = next.contracts
             /\ Onward(next, written)
             /\ InStep(next, written)
  <2>1. /\ ImageGood(middle, Told) /\ Linked(next, middle)
        /\ middle.spec = next.spec /\ middle.contracts = next.contracts
        /\ Onward(next, middle) /\ InStep(next, middle)
    BY <1>1 DEF Leads, Good
  <2>2. /\ written \in Image /\ written.grants = middle.grants
        /\ written.spec = middle.spec /\ written.contracts = middle.contracts
        /\ written.tick >= middle.tick
        /\ Intact(written) => Intact(middle)
        /\ \A a \in Attempts :
             written.attempts[a] = IF a \in ids THEN next.attempts[a] ELSE middle.attempts[a]
    BY <1>1 DEF Noted, Intact
  <2>3. ASSUME Intact(written) PROVE written.attempts = middle.attempts
    <3>1. middle.attempts = next.attempts
      BY <1>1, <2>1, <2>2, <2>3 DEF InStep, Matched
    <3>2. \A a \in Attempts : written.attempts[a] = next.attempts[a]
      BY <2>2, <3>1
    <3>3. /\ written.attempts \in [Attempts -> Attempt]
          /\ next.attempts \in [Attempts -> Attempt]
      BY <2>2, ImageFields, EngineFields
    <3>. QED BY <3>1, <3>2, <3>3
  <2>4. InReach(written.grants, written.tick)
    <3>1. /\ middle.grants \in [GrantIds -> Grant]
          /\ middle.tick \in Nat /\ written.tick \in Nat
      BY <2>2, ImageFields
    <3>2. InReach(middle.grants, middle.tick)
      BY <2>1 DEF ImageGood
    <3>3. \A g \in GrantIds : written.grants[g] = middle.grants[g]
      BY <2>2
    <3>. QED BY <2>2, <3>1, <3>2, <3>3, ReachRows
  <2>5. ImageGood(written, Told)
    BY <2>1, <2>2, <2>3, <2>4 DEF ImageGood
  <2>6. Linked(next, written)
    BY <2>1, <2>2 DEF Linked
  <2>7. Onward(next, written)
    BY <2>1, <2>2 DEF Onward, KeepsIdentity, KeepsQuarantine
  <2>8. InStep(next, written)
    BY <2>1, <2>2, <2>3 DEF InStep, Matched
  <2>. QED BY <2>1, <2>2, <2>5, <2>6, <2>7, <2>8
<1>2. Good(next, written, Told)
  BY <1>1 DEF Leads, Good
<1>3. InStep(next, written)
  BY <1>1 DEF InStep
<1>. QED BY <1>1, <1>2, <1>3 DEF Leads

LEMMA ExpirySweeps ==
  ASSUME NEW engine \in Engine, NEW targets \in SUBSET Live(engine.grants)
  PROVE  Sweeps(engine, disk, targets, AllTerminated(engine, "Expired"))
<1>1. /\ engine.grants \in [GrantIds -> Grant]
      /\ "Expired" \in GrantStates /\ IsTerminal("Expired")
  BY EngineFields DEF GrantStates, IsTerminal
<1>2. ASSUME NEW g \in targets
      PROVE  /\ RowGoes(g, engine.grants[g], Terminated(engine.grants[g], "Expired"),
                        Terminated(engine.grants[g], "Expired"), Told, engine.tick)
             /\ Terminated(engine.grants[g], "Expired").state = "Expired"
             /\ AllTerminated(engine, "Expired")[g] =
                  Terminated(engine.grants[g], "Expired")
             /\ ~IsQuarantined(engine.grants[g].state)
  <2>1. engine.grants[g] \in Grant /\ IsLive(engine.grants[g].state) /\ g \in GrantIds
    BY <1>1 DEF Live
  <2>2. Standing(engine.grants[g].state) /\ ~IsQuarantined(engine.grants[g].state)
    BY <2>1 DEF IsLive, Standing, IsTerminal, IsQuarantined
  <2>. QED BY <1>1, <2>1, <2>2, TerminatedGoes, TerminatedType DEF AllTerminated
<1>. QED BY <1>1, <1>2 DEF Sweeps

LEMMA ExpiryWalks ==
  ASSUME CoreInv, Tables, NEW tick \in Nat, tick >= mem.tick
  PROVE  Walks(Expiry([mem EXCEPT !.tick = tick], disk), Told)
<1>. DEFINE engine == [mem EXCEPT !.tick = tick]
            expired == Expired(engine)
            rows == AllTerminated(engine, "Expired")
            k == 2 * Cardinality(expired) + 1
            next(ended, noted) ==
              [engine EXCEPT !.grants = Rewritten(@, ended, rows),
                             !.attempts = Rebound(engine, noted)]
            written(ended, noted) ==
              WriteAttempts(WriteGrants(disk, ended, rows, engine.tick),
                            AttemptsOf(engine.grants, noted), Rebound(engine, noted),
                            engine.tick)
            at(n) == Point(next(Earliest(expired, n \div 2), Earliest(expired, (n - 1) \div 2)),
                           written(Earliest(expired, n \div 2),
                                   Earliest(expired, (n - 1) \div 2)), None)
            points == [n \in 1..k |-> at(n)]
<1>1. mem \in Engine /\ disk \in Image /\ (sink = "journal" => Covers(disk, mem))
  BY DEF CoreInv
<1>2. /\ engine \in Engine /\ engine.grants = mem.grants
      /\ engine.attempts = mem.attempts /\ engine.spec = mem.spec
      /\ engine.contracts = mem.contracts /\ engine.serial = mem.serial
      /\ engine.tick = tick
  BY <1>1 DEF Engine
<1>3. /\ Expiry(engine, disk) = points
      /\ \A ended, noted :
           next(ended, noted) = [engine EXCEPT !.grants = Rewritten(@, ended, rows),
                                               !.attempts = Rebound(engine, noted)]
  BY DEF Expiry
<1>. HIDE DEF engine
<1>4. /\ engine.grants \in [GrantIds -> Grant] /\ engine.attempts \in [Attempts -> Attempt]
      /\ engine.tick \in Nat /\ engine.serial \in Nat /\ disk.tick \in Nat
  BY <1>1, <1>2, EngineFields, ImageFields
<1>5. Leads(mem, disk, engine, disk, Told)
  <2>1. /\ engine.serial >= mem.serial /\ engine.tick >= mem.tick
        /\ engine.spec.epoch = mem.spec.epoch
        /\ sink = "journal" => disk.spec = engine.spec /\ disk.contracts = engine.contracts
    BY <1>2, <1>4 DEF Tables, Good
  <2>2. disk.tick >= disk.tick
    BY <1>4
  <2>. QED BY <1>1, <1>2, <2>1, <2>2, SameLeads
<1>6. expired \in SUBSET Live(engine.grants) /\ expired \in SUBSET GrantIds
  BY DEF Expired, Live
<1>7. k \in Nat /\ k >= 1
  BY <1>6, CountType
<1>8. rows \in [GrantIds -> Grant]
  BY <1>4, TerminatedType DEF AllTerminated, GrantStates
<1>9. EngineGood(engine, Told) /\ Good(engine, disk, Told)
  BY <1>5 DEF Leads, Good
<1>10. ASSUME NEW ended \in SUBSET expired, NEW noted \in SUBSET expired,
              InStep(mem, disk)
       PROVE  Leads(engine, disk, next(ended, noted), written(ended, noted), Told)
  <2>. DEFINE grants == Rewritten(engine.grants, ended, rows)
              new == [engine EXCEPT !.grants = grants]
              middle == WriteGrants(disk, ended, rows, engine.tick)
  <2>1. /\ grants \in [GrantIds -> Grant]
        /\ \A g \in GrantIds : grants[g] = IF g \in ended THEN rows[g] ELSE engine.grants[g]
    BY <1>4, <1>8 DEF Rewritten
  <2>2. Rebound(engine, noted) = engine.attempts
    <3>1. noted \in SUBSET GrantIds /\ \A g \in noted : Standing(engine.grants[g].state)
      BY <1>6, LiveStands
    <3>. QED BY <1>2, <1>9, <3>1, ReboundSame
  <2>3. next(ended, noted) = new
    <3>1. next(ended, noted) = [engine EXCEPT !.grants = grants,
                                              !.attempts = engine.attempts]
      BY <2>2
    <3>. HIDE DEF grants
    <3>2. [engine EXCEPT !.grants = grants, !.attempts = engine.attempts] = new
      BY <1>2 DEF Engine
    <3>. QED BY <3>1, <3>2
  <2>. HIDE DEF grants
  <2>4. /\ new \in Engine /\ new.grants = grants /\ new.serial = engine.serial
        /\ new.spec = engine.spec /\ new.attempts = engine.attempts
        /\ new.tick = engine.tick
    BY <1>2, <2>1, EngineGrants
  <2>5. new.contracts = engine.contracts
    BY <1>2 DEF Engine
  <2>. HIDE DEF new
  <2>6. Wrote(disk, middle, ended, rows, engine.tick)
    <3>1. ended \in SUBSET GrantIds
      BY <1>6
    <3>. QED BY <1>1, <1>4, <1>8, <3>1, GrantsWritten
  <2>. HIDE DEF middle
  <2>7. Turned(engine, new, ended, rows)
    BY <2>1, <2>4, <2>5 DEF Turned
  <2>8. Sweeps(engine, disk, ended, rows)
    BY <1>2, <1>6, ExpirySweeps DEF Sweeps
  <2>9. Leads(engine, disk, new, middle, Told)
    <3>1. ended \in SUBSET GrantIds /\ (sink = "journal" => Covers(disk, engine))
      BY <1>1, <1>2, <1>6 DEF Covers
    <3>. QED BY <1>1, <1>2, <1>9, <2>4, <2>6, <2>7, <2>8, <3>1, RowsLead
  <2>10. Noted(middle, written(ended, noted), AttemptsOf(engine.grants, noted),
               new.attempts)
    <3>1. \A a \in Attempts : a \in AttemptsOf(engine.grants, noted) =>
             new.attempts[a] \in Attempt
      BY <1>4, <2>4
    <3>2. middle \in Image
      BY <2>6 DEF Wrote
    <3>3. Noted(middle, WriteAttempts(middle, AttemptsOf(engine.grants, noted),
                                      new.attempts, engine.tick),
                AttemptsOf(engine.grants, noted), new.attempts)
      BY <1>4, <3>1, <3>2, AttemptsWritten
    <3>. QED BY <2>2, <2>4, <3>3 DEF middle
  <2>11. middle \in Image /\ InStep(engine, disk)
    BY <1>5, <1>10, <2>6 DEF Wrote, Leads
  <2>. HIDE DEF written, next
  <2>12. Leads(engine, disk, new, written(ended, noted), Told)
    BY <2>4, <2>9, <2>10, <2>11, NotedLead
  <2>. QED BY <2>3, <2>12
<1>11. \A n \in 1..k : /\ Earliest(expired, n \div 2) \in SUBSET expired
                       /\ Earliest(expired, (n - 1) \div 2) \in SUBSET expired
  BY DEF Earliest
<1>12. Still(at(1)) 
  <2>1. Earliest(expired, 0) = {}
    <3>1. \A h \in expired : Cardinality({x \in expired : x < h}) \in Nat
      BY <1>6, CountType
    <3>. QED BY <3>1 DEF Earliest
  <2>2. 1 \div 2 = 0 /\ (1 - 1) \div 2 = 0
    OBVIOUS
  <2>3. at(1) = Point(next({}, {}), written({}, {}), None)
    BY <2>1, <2>2
  <2>4. Rewritten(engine.grants, {}, rows) = engine.grants
    BY <1>4 DEF Rewritten
  <2>5. Rebound(engine, {}) = engine.attempts
    BY <1>4 DEF Rebound, AttemptsOf
  <2>6. next({}, {}) = engine
    <3>1. next({}, {}) = [engine EXCEPT !.grants = engine.grants,
                                        !.attempts = engine.attempts]
      BY <2>4, <2>5
    <3>. QED BY <1>2, <3>1 DEF Engine
  <2>7. written({}, {}) = disk
    BY DEF WriteGrants, WriteAttempts, AttemptsOf
  <2>8. at(1) = Point(engine, disk, None)
    BY <2>3, <2>6, <2>7
  <2>. HIDE DEF at
  <2>. QED BY <1>2, <1>4, <2>8, NoneSaysNothing DEF Still, Point
<1>. HIDE DEF next, written, k, expired, rows
<1>13. ASSUME InStep(mem, disk), NEW n \in 1..k
       PROVE  Leads(engine, disk, at(n).mem, at(n).disk, Told)
  <2>. DEFINE ended == Earliest(expired, n \div 2)
              noted == Earliest(expired, (n - 1) \div 2)
  <2>1. at(n).mem = next(ended, noted) /\ at(n).disk = written(ended, noted)
    BY DEF Point
  <2>2. ended \in SUBSET expired /\ noted \in SUBSET expired
    BY <1>11
  <2>. HIDE DEF ended, noted, at
  <2>. QED BY <1>10, <1>13, <2>1, <2>2
<1>. HIDE DEF at
<1>14. Len(points) = k /\ k \in 1..k /\ 1 \in 1..k /\ \A n \in 1..k : points[n] = at(n)
  BY <1>7
<1>15. InStep(mem, disk) => InStep(engine, disk)
  BY <1>5 DEF Leads
<1>. HIDE DEF points
<1>16. Walks(points, Told)
  BY <1>12, <1>13, <1>14, <1>15 DEF Walks, Fits, Leads
<1>. QED BY <1>3, <1>16 DEF engine

LEMMA AdvanceTickBooks ==
  ASSUME Inv, Books, NEW tick \in 0..MaxTick, AdvanceTick(tick)
  PROVE  Books' /\ StepKeeps
<1>. DEFINE points == Expiry([mem EXCEPT !.tick = tick], disk)
<1>1. CoreInv /\ Tables /\ up /\ Performs(points) /\ tick \in Nat /\ tick >= mem.tick
  BY CoreAssumption DEF Inv, Books, AdvanceTick
<1>2. points \in Seq(SafePoints) /\ Len(points) >= 1
  BY <1>1, TickedSafe
<1>3. Walks(points, Told)
  BY <1>1, ExpiryWalks
<1>. HIDE DEF points
<1>. QED BY <1>1, <1>2, <1>3, PerformsBooks

LEMMA RoundPointsWalk ==
  ASSUME CoreInv, Tables
  PROVE  Walks(RoundPoints, Told)
<1>. DEFINE tick == mem.tick + 1
<1>1. mem \in Engine /\ mem.tick \in Nat
  BY EngineFields DEF CoreInv
<1>2. tick \in Nat /\ tick >= mem.tick
  BY <1>1
<1>3. RoundPoints = Expiry([mem EXCEPT !.tick = tick], disk)
  BY <1>1 DEF RoundPoints, Engine
<1>. HIDE DEF tick
<1>. QED BY <1>2, <1>3, ExpiryWalks

-------------------------------------------------------------------------------
(* Compaction *)

\* The engine a log is compacted from is the one there is, or has ended grants.
Wound(engine) ==
  \A g \in GrantIds :
    \/ engine.grants[g] = mem.grants[g]
    \/ /\ IsLive(mem.grants[g].state) /\ IsTerminal(engine.grants[g].state)
       /\ SameIdentity(mem.grants[g], engine.grants[g])

\* What a row of the log owes the engine's row, and that one the row it is left as.
Owes(old, grant, new) ==
  /\ grant.state # "Absent" =>
       /\ old.state # "Absent" /\ old.attempt = grant.attempt
       /\ grant.attempt = new.attempt
  /\ IsQuarantined(old.state) => IsQuarantined(grant.state)
  /\ Covered(grant, old) /\ grant \in Grant
  /\ Issued(old.state) => grant.state # "Absent"
  /\ old.state = "Absent" => old = NoGrant
  /\ grant.state = "Absent" => grant = NoGrant
  /\ new = grant \/ (IsLive(grant.state) /\ IsTerminal(new.state))

LEMMA RowSettles ==
  ASSUME NEW old, NEW grant, NEW new, Owes(old, grant, new)
  PROVE  Settlement(old, new)
<1>2. grant.state # "Absent" => new.attempt = old.attempt
  BY DEF Owes
<1>3. NoGrant.attempt = None /\ NoGrant.state = "Absent"
  BY DEF NoGrant
<1>4. CASE grant.state = "Absent"
  <2>1. new = NoGrant /\ Status(new) = "free"
    BY <1>3, <1>4, StatusOf DEF IsLive, Owes
  <2>2. CASE old.state = "Absent"
    <3>1. old = new
      BY <2>1, <2>2 DEF Owes
    <3>. QED BY <3>1 DEF Settlement, SameEntry
  <2>3. CASE old.state # "Absent"
    <3>1. Status(old) = "offered"
      BY <1>4, <2>3, StatusOf DEF Issued, Owes
    <3>. QED BY <1>3, <2>1, <3>1 DEF Settlement
  <2>. QED BY <2>2, <2>3
<1>5. CASE IsTerminal(grant.state)
  <2>1. new = grant /\ grant.state # "Absent"
    BY <1>5 DEF IsLive, IsTerminal, Owes
  <2>2. Status(new) = "ended" /\ Status(old) \in {"offered", "ended"}
    BY <1>5, <2>1, StatusOf DEF Covered, Owes
  <2>. QED BY <1>2, <2>1, <2>2 DEF Settlement, SameEntry
<1>6. CASE IsQuarantined(grant.state)
  <2>1. new = grant /\ grant.state # "Absent"
    BY <1>6 DEF IsLive, IsQuarantined, Owes
  <2>2. HoldsCapacity(grant.state)
    BY <1>6 DEF HoldsCapacity
  <2>3. Status(new) = "quarantined" /\ Status(old) \in {"held", "quarantined"}
    BY <1>6, <2>1, <2>2, StatusOf DEF Covered, HoldsCapacity, Owes
  <2>. QED BY <1>2, <2>1, <2>3 DEF Settlement, SameEntry
<1>7. CASE grant.state \in {"Committed", "Acknowledged"}
  <2>1. /\ HoldsCapacity(grant.state) /\ ~IsQuarantined(grant.state)
        /\ grant.state # "Absent"
    BY <1>7 DEF HoldsCapacity, IsQuarantined
  <2>2. Status(old) = "held"
    BY <2>1, StatusOf DEF Covered, HoldsCapacity, Owes
  <2>3. Status(new) \in {"held", "ended"}
    BY <1>7, StatusOf DEF Owes
  <2>. QED BY <1>2, <2>1, <2>2, <2>3 DEF Settlement, SameEntry
<1>8. grant.state \in GrantStates /\ grant.state # "Prepared"
  BY DEF Grant, Covered, Owes
<1>9. \/ grant.state = "Absent" \/ IsTerminal(grant.state) \/ IsQuarantined(grant.state)
      \/ grant.state \in {"Committed", "Acknowledged"}
  BY <1>8 DEF GrantStates, IsTerminal, IsQuarantined
<1>. QED BY <1>4, <1>5, <1>6, <1>7, <1>9

LEMMA SnapshotSettles ==
  ASSUME CoreInv, Tables, sink = "journal", NEW engine, Wound(engine)
  PROVE  /\ Intact(disk) => KeepsIdentity(engine)
         /\ \A g \in GrantIds : IsQuarantined(disk.grants[g].state) =>
              IsQuarantined(engine.grants[g].state)
         /\ Intact(disk) => Settlements(disk.grants, engine.grants)
<1>0. \A g \in GrantIds :
        \/ engine.grants[g] = mem.grants[g]
        \/ (IsLive(mem.grants[g].state) /\ IsTerminal(engine.grants[g].state))
  BY DEF Wound
<1>1. /\ Covers(disk, mem) /\ Linked(mem, disk) /\ ImageGood(disk, Told)
      /\ EngineGood(mem, Told)
      /\ mem.grants \in [GrantIds -> Grant]
  BY EngineFields DEF CoreInv, Tables, Good
<1>2. \A g \in GrantIds :
        /\ mem.grants[g].state # "Absent" =>
             /\ disk.grants[g].state # "Absent"
             /\ SameIdentity(disk.grants[g], mem.grants[g])
        /\ IsQuarantined(disk.grants[g].state) => IsQuarantined(mem.grants[g].state)
        /\ Covered(mem.grants[g], disk.grants[g])
        /\ mem.grants[g] \in Grant
  BY <1>1 DEF Linked, SameIdentity, Covers
<1>3. \A g \in GrantIds :
        IsQuarantined(disk.grants[g].state) => IsQuarantined(engine.grants[g].state)
  BY <1>2 DEF Wound, IsLive, IsQuarantined
<1>4. ASSUME Intact(disk)
      PROVE  /\ \A g \in GrantIds : Issued(disk.grants[g].state) =>
                  mem.grants[g].state # "Absent"
             /\ \A g \in GrantIds : disk.grants[g].state = "Absent" =>
                  disk.grants[g] = NoGrant
             /\ \A g \in GrantIds : mem.grants[g].state = "Absent" =>
                  mem.grants[g] = NoGrant
  BY <1>1, <1>4 DEF Linked, ImageGood, EngineGood, Booked, Filled
<1>5. \A g \in GrantIds :
        /\ mem.grants[g].state # "Absent" =>
             /\ Issued(engine.grants[g].state)
             /\ SameIdentity(mem.grants[g], engine.grants[g])
  BY <1>2 DEF Wound, Issued, IsTerminal, SameIdentity, Covered
<1>6. Intact(disk) => KeepsIdentity(engine)
  BY <1>2, <1>4, <1>5 DEF KeepsIdentity, SameIdentity
<1>7. ASSUME Intact(disk), NEW g \in GrantIds
      PROVE  Settlement(disk.grants[g], engine.grants[g])
  <2>1. Owes(disk.grants[g], mem.grants[g], engine.grants[g])
    <3>1. /\ mem.grants[g].state # "Absent" =>
               /\ disk.grants[g].state # "Absent"
               /\ disk.grants[g].attempt = mem.grants[g].attempt
               /\ mem.grants[g].attempt = engine.grants[g].attempt
          /\ IsQuarantined(disk.grants[g].state) => IsQuarantined(mem.grants[g].state)
          /\ Covered(mem.grants[g], disk.grants[g])
          /\ mem.grants[g] \in Grant
      BY <1>2, <1>5, <1>7 DEF SameIdentity
    <3>2. /\ Issued(disk.grants[g].state) => mem.grants[g].state # "Absent"
          /\ disk.grants[g].state = "Absent" => disk.grants[g] = NoGrant
          /\ mem.grants[g].state = "Absent" => mem.grants[g] = NoGrant
      BY <1>4, <1>7
    <3>3. \/ engine.grants[g] = mem.grants[g]
          \/ (IsLive(mem.grants[g].state) /\ IsTerminal(engine.grants[g].state))
      BY <1>0, <1>7
    <3>. QED BY <3>1, <3>2, <3>3 DEF Owes
  <2>. QED BY <2>1, RowSettles
<1>8. Intact(disk) => Settlements(disk.grants, engine.grants)
  BY <1>7 DEF Settlements
<1>. QED BY <1>3, <1>6, <1>8

LEMMA CompactsBooks ==
  ASSUME Inv, Books, sink = "journal", NEW engine \in Engine, EngineGood(engine, Told),
         engine.spec.bound, Wound(engine), Compacts(engine)
  PROVE  Books' /\ StepKeeps
<1>. DEFINE image == Snapshot(engine)
<1>1. /\ image.grants = engine.grants /\ image.attempts = engine.attempts
      /\ image.spec = engine.spec /\ image.contracts = engine.contracts
      /\ image.tick = engine.tick
      /\ disk' = image
  BY DEF Snapshot, Compacts
<1>. HIDE DEF image
<1>2. CoreInv /\ Tables /\ Words
  BY DEF Inv, Books
<1>3. /\ Intact(disk) => KeepsIdentity(engine)
      /\ \A g \in GrantIds : IsQuarantined(disk.grants[g].state) =>
           IsQuarantined(engine.grants[g].state)
      /\ Intact(disk) => Settlements(disk.grants, engine.grants)
  BY <1>2, SnapshotSettles
<1>4. StepKeeps
  <2>1. Intact(disk) => KeepsIdentity(image)
    BY <1>1, <1>3 DEF KeepsIdentity
  <2>2. KeepsQuarantine(image)
    BY <1>1, <1>3 DEF KeepsQuarantine
  <2>3. TableSuffices => Ledgered(disk.grants, image.grants)
    BY <1>1, <1>3 DEF Ledgered, Intact
  <2>. QED BY <1>1, <2>1, <2>2, <2>3 DEF StepKeeps
<1>5. PICK told : told = Told
  OBVIOUS
<1>6. told = Told'
  <2>1. UNCHANGED acks
    BY DEF Compacts
  <2>. QED BY <1>5, <2>1, ToldSame
<1>7. ImageGood(image, told) /\ EngineGood(engine, told)
  BY <1>1, <1>5 DEF EngineGood, ImageGood
<1>8. ASSUME Options.attaches
      PROVE  Backed(answered, engine, image) /\ Durable(answered, image)
  <2>1. ASSUME NEW a \in Attempts, answered[a] \in Authorising
        PROVE  Backs(engine, image, a)
    <3>1. PICK g \in GrantIds : /\ Shows(disk, a, g)
                                /\ mem.grants[g].state # "Absent"
                                /\ mem.grants[g].attempt = a
      BY <1>2, <1>8, <2>1 DEF Words, Backed, Backs
    <3>2. mem.grants[g].state # "Prepared"
      BY <1>2 DEF CoreInv, Covers, Covered
    <3>3. Issued(engine.grants[g].state) /\ engine.grants[g].attempt = a
      BY <3>1, <3>2 DEF Wound, Issued, IsTerminal, SameIdentity
    <3>. QED BY <1>1, <3>3 DEF Backs, Shows, Issued
  <2>. QED BY <2>1 DEF Backed, Durable, Backs
<1>9. CASE mem' = engine /\ UNCHANGED <<up, sink, answered>>
  <2>1. Linked(engine, image)
    BY <1>1 DEF Linked, SameIdentity, Issued
  <2>2. Good(mem, disk, Told)' /\ ImageGood(disk, Told)'
    BY <1>1, <1>6, <1>7, <1>9, <2>1 DEF Good, ImageGood
  <2>3. InStep(mem, disk)'
    BY <1>1, <1>9 DEF InStep, Matched
  <2>4. Words'
    BY <1>1, <1>2, <1>8, <1>9 DEF Words, Durable, Backed
  <2>. QED BY <1>1, <1>4, <2>2, <2>3, <2>4 DEF Books, Tables
<1>10. CASE Falls
  <2>1. ImageGood(disk', told)
    BY <1>1, <1>7
  <2>2. Options.attaches => Durable(answered, disk')
    BY <1>1, <1>8
  <2>3. disk'.spec.bound
    BY <1>1
  <2>. QED BY <1>4, <1>6, <1>10, <2>1, <2>2, <2>3, FallsBooks
<1>. QED BY <1>9, <1>10 DEF Compacts

LEMMA CompactBooks ==
  ASSUME Inv, Books, Compact
  PROVE  Books' /\ StepKeeps
<1>1. /\ sink = "journal" /\ Compacts(mem) /\ mem \in Engine
      /\ EngineGood(mem, Told) /\ mem.spec.bound
  BY DEF Compact, Full, Inv, CoreInv, Covers, Books, Tables, Good
<1>2. Wound(mem)
  BY DEF Wound
<1>. QED BY <1>1, <1>2, CompactsBooks

LEMMA RoundWound ==
  ASSUME mem \in Engine, NEW n \in 1..Len(RoundPoints)
  PROVE  Wound(RoundPoints[n].mem)
<1>. DEFINE engine == [mem EXCEPT !.tick = @ + 1]
            expired == Expired(engine)
            rows == AllTerminated(engine, "Expired")
            k == 2 * Cardinality(expired) + 1
            ended == Earliest(expired, n \div 2)
            next == [engine EXCEPT !.grants = Rewritten(@, ended, rows),
                                   !.attempts = Rebound(engine, Earliest(expired, (n - 1) \div 2))]
<1>1. engine \in Engine /\ engine.grants = mem.grants
  BY EngineFields DEF Engine
<1>2. expired \in SUBSET GrantIds /\ ended \in SUBSET expired
  BY DEF Expired, Live, Earliest
<1>3. k \in Nat
  BY <1>2, CountType
<1>4. n \in 1..k
  BY <1>3 DEF RoundPoints, Expiry
<1>5. RoundPoints[n].mem = next
  BY <1>4 DEF RoundPoints, Expiry, Point
<1>6. mem.grants \in [GrantIds -> Grant]
  BY EngineFields
<1>7. next.grants = Rewritten(mem.grants, ended, rows)
  BY <1>1 DEF Engine
<1>8. \A g \in GrantIds :
        next.grants[g] = IF g \in ended THEN Terminated(mem.grants[g], "Expired")
                         ELSE mem.grants[g]
  BY <1>1, <1>6, <1>7 DEF Rewritten, AllTerminated
<1>9. \A g \in ended : IsLive(mem.grants[g].state)
  BY <1>1, <1>2 DEF Expired, Live
<1>10. ASSUME NEW g \in GrantIds
       PROVE  LET new == Terminated(mem.grants[g], "Expired")
              IN  IsTerminal(new.state) /\ SameIdentity(mem.grants[g], new)
  <2>1. mem.grants[g] \in Grant
    BY <1>6
  <2>. QED BY <2>1 DEF Terminated, SameIdentity, IsTerminal, Grant
<1>. HIDE DEF next, ended
<1>11. Wound(next)
  BY <1>8, <1>9, <1>10 DEF Wound
<1>. QED BY <1>5, <1>11

LEMMA RoundBooks ==
  ASSUME Inv, Books, HousekeepingRound \/ CompactingRound \/ CrashingRound
  PROVE  Books' /\ StepKeeps
<1>1. /\ CoreInv /\ Tables /\ RoundPoints \in Seq(SafePoints) /\ Len(RoundPoints) >= 1
      /\ Walks(RoundPoints, Told) /\ up
  BY RoundPointsSafe, RoundPointsWalk
     DEF Inv, Books, HousekeepingRound, CompactingRound, CrashingRound
<1>2. PICK told : told = Told
  OBVIOUS
<1>3. told = Told' /\ Told \subseteq told /\ Walks(RoundPoints, told)
  BY <1>1, <1>2, ToldSame
     DEF HousekeepingRound, CompactingRound, CrashingRound, Compacts
<1>4. CASE HousekeepingRound
  <2>1. Inv'
    BY RoundSafe
  <2>2. Completes(RoundPoints) /\ UNCHANGED <<answered, acks>>
    BY <1>4 DEF HousekeepingRound
  <2>3. Tables' /\ StepKeeps /\ (sink = "journal" => Onward(mem', disk'))
    BY <1>1, <1>3, <2>2, CompletesBooks
  <2>4. UNCHANGED <<up, sink>> /\ UNCHANGED answered
    BY <2>2 DEF Completes
  <2>5. Words'
    BY <1>1, <2>1, <2>3, <2>4, WordsOn
  <2>. QED BY <2>3, <2>5 DEF Books
<1>5. CASE CompactingRound
  <2>. DEFINE n == Reached(RoundPoints, sink = "journal")
              engine == RoundPoints[n].mem
  <2>1. FullAfterRound /\ Compacts(engine)
    BY <1>5 DEF CompactingRound
  <2>2. sink = "journal"
    BY <2>1 DEF FullAfterRound, Full
  <2>3. n \in 1..n /\ n \in 1..Len(RoundPoints)
    <3>1. n \in 1..Len(RoundPoints)
      BY <1>1, ReachedType DEF CoreInv
    <3>. QED BY <3>1
  <2>4. /\ RoundPoints[n] \in SafePoints
        /\ Good(RoundPoints[n].mem, RoundPoints[n].disk, told)
    BY <1>1, <1>3, <2>3, Passed
  <2>. HIDE DEF n
  <2>5. engine \in Engine /\ engine.spec.bound
    BY <2>2, <2>4 DEF SafePoints, PointType, Safe, Agree, Covers
  <2>6. Wound(engine)
    BY <1>1, <2>3, RoundWound DEF CoreInv
  <2>7. EngineGood(engine, Told)
    BY <1>2, <2>4 DEF Good
  <2>. HIDE DEF engine
  <2>. QED BY <2>1, <2>2, <2>5, <2>6, <2>7, CompactsBooks
<1>6. CASE CrashingRound
  <2>1. CrashesIn(RoundPoints)
    BY <1>6 DEF CrashingRound
  <2>. QED BY <1>1, <1>3, <2>1, CrashesBooks
<1>. QED BY <1>4, <1>5, <1>6

-------------------------------------------------------------------------------
(* One grant *)

\* What a handler may make of one grant that stands.
LEMMA RowLeads ==
  ASSUME CoreInv, Tables, NEW told, Told \subseteq told, NEW id \in GrantIds,
         NEW next \in Engine, NEW written, NEW grant, NEW row,
         Turned(mem, next, {id}, [g \in GrantIds |-> grant]),
         sink = "journal" => Wrote(disk, written, {id}, [g \in GrantIds |-> row], mem.tick),
         RowGoes(id, mem.grants[id], grant, row, told, mem.tick),
         \/ row.state \in {"Committed", "Acknowledged"}
         \/ (IsTerminal(row.state) /\ row.state # "Expired")
  PROVE  Leads(mem, disk, next, written, told)
<1>. DEFINE rows == [g \in GrantIds |-> grant]
            logged == [g \in GrantIds |-> row]
<1>1. /\ mem \in Engine /\ disk \in Image /\ Good(mem, disk, told)
      /\ sink = "journal" => Covers(disk, mem)
  BY GoodMore DEF CoreInv, Tables
<1>2. RowsGo(mem, {id}, rows, logged, told)
  BY DEF RowsGo
<1>3. rows[id] = grant /\ logged[id] = row /\ {id} \in SUBSET GrantIds
  OBVIOUS
<1>. HIDE DEF rows, logged
<1>4. /\ Good(next, written, told)
      /\ sink = "journal" /\ Matched(mem, disk) => Matched(next, written)
  <2>1. Turned(mem, next, {id}, rows)
    BY DEF rows
  <2>2. sink = "journal" => Covers(disk, mem) /\
                            Wrote(disk, written, {id}, logged, mem.tick)
    BY <1>1 DEF logged
  <2>. QED BY <1>1, <1>2, <1>3, <2>1, <2>2, RowsGood
<1>5. ASSUME sink = "journal" PROVE Onward(next, written)
  <2>1. /\ \A g \in GrantIds : written.grants[g] = IF g \in {id} THEN logged[g] ELSE disk.grants[g]
        /\ written.spec = disk.spec
    BY <1>5 DEF Wrote, logged
  <2>2. \A g \in GrantIds : next.grants[g] = IF g \in {id} THEN rows[g] ELSE mem.grants[g]
    BY DEF Turned, rows
  <2>3. Kept(mem.grants[id], rows[id]) /\ Kept(mem.grants[id], row)
    BY <1>3 DEF RowGoes
  <2>4. written.grants[id] = row
    BY <1>3, <2>1
  <2>5. Passes(id, {id}, written)
    <3>1. row.state # "Expired"
      OBVIOUS
    <3>. QED BY <2>1, <2>3, <2>4, <3>1 DEF Passes
  <2>6. \A g \in GrantIds \ {id} : written.grants[g] = disk.grants[g]
    BY <2>1
  <2>7. \A g \in {id} : Kept(mem.grants[g], rows[g]) /\ Passes(g, {id}, written)
    BY <2>3, <2>5
  <2>. DEFINE ids == {id}
  <2>8. ids \in SUBSET GrantIds
    OBVIOUS
  <2>. HIDE DEF ids
  <2>9. /\ \A g \in GrantIds : next.grants[g] = IF g \in ids THEN rows[g] ELSE mem.grants[g]
        /\ \A g \in GrantIds \ ids : written.grants[g] = disk.grants[g]
        /\ \A g \in ids : Kept(mem.grants[g], rows[g]) /\ Passes(g, ids, written)
    BY <2>2, <2>6, <2>7 DEF ids
  <2>. QED BY <1>5, <2>8, <2>9, RowsOnward
<1>6. InStep(mem, disk) => InStep(next, written)
  BY <1>4 DEF InStep, Wrote, Intact
<1>. QED BY <1>4, <1>5, <1>6 DEF Leads

\* The engine with one grant changed, and the record of it.
LEMMA OneTurned ==
  ASSUME NEW engine \in Engine, NEW id \in GrantIds, NEW grant \in Grant
  PROVE  /\ WithGrant(engine, id, grant) \in Engine
         /\ Turned(engine, WithGrant(engine, id, grant), {id}, [g \in GrantIds |-> grant])
<1>. DEFINE next == WithGrant(engine, id, grant)
            rows == [g \in GrantIds |-> grant]
<1>1. /\ next \in Engine
      /\ \A g \in GrantIds : next.grants[g] = IF g \in {id} THEN grant ELSE engine.grants[g]
      /\ next.serial = engine.serial /\ next.spec = engine.spec
      /\ next.attempts = engine.attempts /\ next.tick = engine.tick
  BY EngineGrant
<1>2. next.contracts = engine.contracts
  BY DEF WithGrant, Engine
<1>3. \A g \in GrantIds : g \in {id} => rows[g] = grant
  OBVIOUS
<1>. HIDE DEF next, rows
<1>4. Turned(engine, next, {id}, rows)
  BY <1>1, <1>2, <1>3 DEF Turned
<1>. QED BY <1>1, <1>4 DEF next, rows

\* An attempt whose grant has ended is marked in the engine, and then on record.
LEMMA MarkLeads ==
  ASSUME CoreInv, Tables, InStep(mem, disk), NEW engine \in Engine, NEW image \in Image,
         Leads(mem, disk, engine, image, Told),
         NEW marked \in Engine, marked.grants = engine.grants,
         marked.serial = engine.serial, marked.spec = engine.spec,
         marked.tick = engine.tick, marked.contracts = engine.contracts,
         NEW a, Marks(engine.grants, engine.attempts, marked.attempts, a),
         NEW noted, NEW rows, sink = "journal" => Noted(image, noted, {a}, rows),
         sink = "journal" /\ Intact(image) => rows[a] = marked.attempts[a]
  PROVE  /\ Good(marked, image, Told)
         /\ sink = "journal" => Onward(marked, image)
         /\ Leads(mem, disk, marked, noted, Told)
<1>1. /\ Good(engine, image, Told)
      /\ sink = "journal" => Onward(engine, image)
      /\ InStep(engine, image)
  BY DEF Leads
<1>2. Good(marked, image, Told)
  BY <1>1, MarkGood
<1>3. sink = "journal" => Onward(marked, image)
  BY <1>1 DEF Onward
<1>4. ASSUME sink = "journal", Intact(image)
      PROVE  /\ image.attempts = engine.attempts
             /\ Marks(image.grants, engine.attempts, marked.attempts, a)
  <2>1. Matched(engine, image) /\ Linked(engine, image)
    BY <1>1, <1>4 DEF InStep, Good
  <2>2. \A g \in GrantIds : Standing(image.grants[g].state) =>
          Standing(engine.grants[g].state) /\ engine.grants[g].attempt = image.grants[g].attempt
    BY <2>1 DEF Matched, Linked, Standing, SameIdentity
  <2>3. image.attempts = engine.attempts
    BY <2>1 DEF Matched
  <2>. QED BY <2>2, <2>3 DEF Marks
<1>5. /\ Good(marked, noted, Told)
      /\ sink = "journal" /\ Intact(image) => noted.attempts = marked.attempts
  <2>1. sink = "journal" /\ Intact(image) =>
           /\ rows[a] = marked.attempts[a]
           /\ image.attempts = engine.attempts
           /\ Marks(image.grants, engine.attempts, marked.attempts, a)
    BY <1>4
  <2>. QED BY <1>2, <2>1, RecordGood
<1>6. sink = "journal" => Onward(marked, noted)
  BY <1>3 DEF Onward, Noted, KeepsIdentity, KeepsQuarantine
<1>7. InStep(marked, noted)
  <2>1. SUFFICES ASSUME sink = "journal", Intact(noted) PROVE Matched(marked, noted)
    BY DEF InStep
  <2>2. Intact(image) /\ noted.grants = image.grants
    BY <2>1 DEF Noted, Intact
  <2>3. Matched(engine, image)
    BY <1>1, <2>1, <2>2 DEF InStep
  <2>. QED BY <1>5, <2>1, <2>2, <2>3 DEF Matched
<1>. QED BY <1>2, <1>3, <1>5, <1>6, <1>7 DEF Leads

LEMMA OneWalk ==
  ASSUME CoreInv, Tables, NEW told, Told \subseteq told, NEW p \in SafePoints, Still(p)
  PROVE  Walks(<< p >>, told)
<1>. DEFINE points == << p >>
<1>1. /\ points \in Seq(SafePoints) /\ Len(points) = 1 /\ points[1] = p
  OBVIOUS
<1>. HIDE DEF points
<1>2. \A n \in 2..Len(points) : FALSE
  BY <1>1
<1>3. Walks(points, told)
  BY <1>1, <1>2, WalksFrom
<1>. QED BY <1>3 DEF points

LEMMA TwoWalk ==
  ASSUME CoreInv, Tables, NEW told, Told \subseteq told,
         NEW p \in SafePoints, NEW q \in SafePoints, Still(p),
         InStep(mem, disk) => Fits(q, told) /\ InStep(q.mem, q.disk)
  PROVE  Walks(<< p, q >>, told)
<1>. DEFINE points == << p, q >>
<1>1. /\ points \in Seq(SafePoints) /\ Len(points) = 2
      /\ points[1] = p /\ points[2] = q
  OBVIOUS
<1>. HIDE DEF points
<1>2. \A n \in 2..Len(points) : n = 2
  BY <1>1
<1>3. Walks(points, told)
  BY <1>1, <1>2, WalksFrom
<1>. QED BY <1>3 DEF points

LEMMA ThreeWalk ==
  ASSUME CoreInv, Tables, NEW told, Told \subseteq told,
         NEW p \in SafePoints, NEW q \in SafePoints, NEW r \in SafePoints, Still(p),
         InStep(mem, disk) => Fits(q, told) /\ Fits(r, told) /\ InStep(r.mem, r.disk)
  PROVE  Walks(<< p, q, r >>, told)
<1>. DEFINE points == << p, q, r >>
<1>1. /\ points \in Seq(SafePoints) /\ Len(points) = 3
      /\ points[1] = p /\ points[2] = q /\ points[3] = r
  OBVIOUS
<1>. HIDE DEF points
<1>2. \A n \in 2..Len(points) : n = 2 \/ n = 3
  BY <1>1
<1>3. Walks(points, told)
  BY <1>1, <1>2, WalksFrom
<1>. QED BY <1>3 DEF points

LEMMA LeadsFits ==
  ASSUME InStep(mem, disk), NEW next, NEW written, NEW reply, NEW told,
         Leads(mem, disk, next, written, told)
  PROVE  LET point == Point(next, written, reply)
         IN  Fits(point, told) /\ InStep(point.mem, point.disk)
  BY DEF Leads, Fits, Point

LEMMA WaitingStill ==
  ASSUME mem \in Engine
  PROVE  Still(Point(mem, disk, "Indeterminate"))
<1>1. "Indeterminate" \notin Authorising
  BY DEF Authorising
<1>. QED BY <1>1, StillStart

LEMMA RenewPointsWalk ==
  ASSUME CoreInv, Tables, NEW request \in Requests, Renews(request),
         Decision(request).outcome \in Authorising
  PROVE  Walks(RenewPoints(request, Decision(request)), Told)
<1>. DEFINE decision == Decision(request)
            id      == request.renews
            old     == mem.grants[id]
            expiry  == IF request.lease = 0 THEN 0 ELSE mem.tick + request.lease
            epoch   == mem.spec.epoch
            degraded == decision.outcome = "Degraded"
            renewed == [old EXCEPT !.requested = request.units, !.units = decision.units,
                                   !.expiry = expiry, !.epoch = epoch,
                                   !.degraded = degraded]
            row     == [renewed EXCEPT !.state = "Committed"]
            next    == WithGrant(mem, id, renewed)
            written == WriteGrant(disk, id, row, mem.tick)
            points  == << Point(mem, disk, "Indeterminate"),
                          Point(next, written, decision.outcome) >>
<1>1. /\ CoreInv /\ Tables
      /\ mem \in Engine /\ disk \in Image /\ mem.tick \in Nat
      /\ mem.spec \in ClusterSpecs /\ mem.grants \in [GrantIds -> Grant]
      /\ EngineGood(mem, Told)
      /\ Renews(request) /\ decision.outcome \in Authorising
  BY EngineFields DEF CoreInv, Tables, Good
<1>2. request \in Request
  BY CoreAssumption
<1>3. /\ id \in GrantIds /\ request.units \in Nat /\ request.lease \in Nat
      /\ id # 0
  BY <1>1, <1>2 DEF Request, Renews
<1>4. decision.units \in Nat /\ old.state # "Absent" /\ ~IsTerminal(old.state)
  BY <1>1, <1>2, <1>3, DecisionType
<1>5. RenewPoints(request, decision) = points
  <2>1. [mem EXCEPT !.grants[id] = renewed] = next
    BY DEF WithGrant
  <2>. QED BY <2>1 DEF RenewPoints
<1>6. RenewPoints(request, decision) \in Seq(SafePoints) /\ Len(RenewPoints(request, decision)) >= 1
  BY <1>1, RenewPointsSafe
<1>7. old \in Grant
  BY <1>1, <1>3
<1>8. expiry \in Nat /\ epoch \in Nat /\ degraded \in BOOLEAN
  BY <1>1, <1>3 DEF ClusterSpecs
<1>9. RenewalsInReach => expiry <= mem.tick + Options.maxLease
  <2>1. ASSUME RenewalsInReach PROVE request.lease <= Options.maxLease
    BY <1>3, <2>1 DEF RenewalsInReach
  <2>2. Options.maxLease \in Nat
    BY EligibilityAssumption
  <2>. QED BY <1>1, <1>3, <2>1, <2>2
<1>10. old.state # "Prepared"
  BY <1>1, <1>3 DEF EngineGood, Minted
<1>. HIDE DEF decision, expiry, epoch, degraded, old
<1>11. /\ renewed \in Grant /\ row \in Grant
       /\ renewed.state = old.state /\ row.state = "Committed"
       /\ renewed.acked = old.acked /\ row.acked = old.acked
       /\ renewed.expiry = expiry /\ row.expiry = expiry
       /\ SameIdentity(old, renewed) /\ SameIdentity(old, row)
  <2>1. renewed \in Grant
    BY <1>3, <1>4, <1>7, <1>8, GrantUpdates
  <2>2. row \in Grant
    <3>1. "Committed" \in GrantStates
      BY DEF GrantStates
    <3>. QED BY <2>1, <3>1, GrantUpdates
  <2>. QED BY <1>7, <2>1, <2>2 DEF Grant, SameIdentity
<1>. HIDE DEF renewed, row
<1>12. RowGoes(id, old, renewed, row, Told, mem.tick)
  <2>1. Kept(old, renewed) /\ Kept(old, row)
    BY <1>4, <1>10, <1>11 DEF Kept, Standing, Issued
  <2>2. Paired(renewed, row)
    BY <1>4, <1>11 DEF Paired, IsQuarantined
  <2>3. Heeds(id, old, renewed, Told) /\ (Acknowledged(row) => Acknowledged(old))
    BY <1>11 DEF Heeds, Acknowledged
  <2>. QED BY <1>9, <1>11, <2>1, <2>2, <2>3 DEF RowGoes
<1>13. /\ next \in Engine
       /\ Turned(mem, next, {id}, [g \in GrantIds |-> renewed])
       /\ Wrote(disk, written, {id}, [g \in GrantIds |-> row], mem.tick)
  BY <1>1, <1>3, <1>11, OneTurned, GrantWritten
<1>. HIDE DEF next, written
<1>14. Leads(mem, disk, next, written, Told)
  <2>1. RowGoes(id, mem.grants[id], renewed, row, Told, mem.tick)
    BY <1>12 DEF old
  <2>. QED BY <1>1, <1>3, <1>11, <1>13, <2>1, RowLeads
<1>15. Walks(points, Told)
  <2>1. points \in Seq(SafePoints)
    BY <1>5, <1>6
  <2>2. /\ Point(mem, disk, "Indeterminate") \in SafePoints
        /\ Point(next, written, decision.outcome) \in SafePoints
    <3>1. 1 \in 1..Len(points) /\ 2 \in 1..Len(points)
      OBVIOUS
    <3>2. points[1] \in SafePoints /\ points[2] \in SafePoints
      BY <2>1, <3>1
    <3>. QED BY <3>2
  <2>. QED BY <1>1, <1>14, <2>2, WaitingStill, LeadsFits, TwoWalk
<1>. QED BY <1>5, <1>15 DEF decision

LEMMA RenewBooks ==
  ASSUME Inv, Books, NEW request \in Requests, NEW view, Renew(request, view)
  PROVE  Books' /\ StepKeeps
<1>. DEFINE points == RenewPoints(request, Decision(request))
<1>1. /\ CoreInv /\ Tables /\ up /\ Renews(request) /\ Performs(points)
      /\ Decision(request).outcome \in Authorising
  BY DEF Inv, Books, Renew
<1>2. points \in Seq(SafePoints) /\ Len(points) >= 1
  BY <1>1, RenewPointsSafe
<1>3. Walks(points, Told)
  BY <1>1, RenewPointsWalk
<1>. HIDE DEF points
<1>. QED BY <1>1, <1>2, <1>3, PerformsBooks

\* A grant that stands is ended, and nothing of its attempt stands then.
LEMMA EndLeads ==
  ASSUME CoreInv, Tables, NEW id \in GrantIds, Standing(mem.grants[id].state),
         NEW state \in GrantStates, IsTerminal(state), state # "Expired"
  PROVE  LET grant == Terminated(mem.grants[id], state)
             next == WithGrant(mem, id, grant)
             written == WriteGrant(disk, id, grant, mem.tick)
         IN  /\ next \in Engine /\ written \in Image
             /\ next.attempts = mem.attempts
             /\ Leads(mem, disk, next, written, Told)
             /\ \A g \in GrantIds : Standing(next.grants[g].state) =>
                  Standing(mem.grants[g].state) /\ g # id
                  /\ next.grants[g].attempt = mem.grants[g].attempt
<1>. DEFINE grant == Terminated(mem.grants[id], state)
            next == WithGrant(mem, id, grant)
            written == WriteGrant(disk, id, grant, mem.tick)
<1>1. /\ mem \in Engine /\ disk \in Image /\ mem.tick \in Nat
      /\ mem.grants[id] \in Grant
  BY EngineFields DEF CoreInv
<1>2. /\ grant \in Grant /\ grant.state = state
      /\ RowGoes(id, mem.grants[id], grant, grant, Told, mem.tick)
  BY <1>1, TerminatedType, TerminatedGoes
<1>. HIDE DEF grant
<1>3. /\ next \in Engine
      /\ Turned(mem, next, {id}, [g \in GrantIds |-> grant])
      /\ Wrote(disk, written, {id}, [g \in GrantIds |-> grant], mem.tick)
  BY <1>1, <1>2, OneTurned, GrantWritten
<1>. HIDE DEF next, written
<1>4. Leads(mem, disk, next, written, Told)
  BY <1>2, <1>3, RowLeads
<1>5. \A g \in GrantIds : Standing(next.grants[g].state) =>
        Standing(mem.grants[g].state) /\ g # id
        /\ next.grants[g].attempt = mem.grants[g].attempt
  BY <1>2, <1>3 DEF Turned, Standing
<1>6. next.attempts = mem.attempts /\ written \in Image
  BY <1>3 DEF Turned, Wrote
<1>. QED BY <1>3, <1>4, <1>5, <1>6 DEF next, written, grant

LEMMA AttemptMarked ==
  ASSUME NEW engine \in Engine, NEW a \in Attempts, NEW record \in Attempt
  PROVE  LET marked == WithAttempt(engine, a, record)
         IN  /\ marked \in Engine
             /\ marked.grants = engine.grants /\ marked.serial = engine.serial
             /\ marked.spec = engine.spec /\ marked.tick = engine.tick
             /\ marked.contracts = engine.contracts
             /\ \A b \in Attempts :
                  marked.attempts[b] = IF b = a THEN record ELSE engine.attempts[b]
<1>1. engine.attempts \in [Attempts -> Attempt]
  BY EngineFields
<1>. QED BY <1>1, EngineAttempt, Zenon DEF WithAttempt, Engine

LEMMA ReleasePointsWalk ==
  ASSUME CoreInv, Tables, NEW id \in GrantIds, mem.grants[id].state # "Absent",
         ~IsTerminal(mem.grants[id].state)
  PROVE  Walks(ReleasePoints(id), Told)
<1>. DEFINE owner    == mem.grants[id].attempt
            grant    == Terminated(mem.grants[id], "Released")
            released == WithGrant(mem, id, grant)
            attempt  == [mem.attempts[owner] EXCEPT !.released = TRUE]
            marked   == WithAttempt(released, owner, attempt)
            written  == WriteGrant(disk, id, grant, mem.tick)
            noted    == WriteAttempt(written, owner, marked.attempts[owner], mem.tick)
            rows     == [a \in Attempts |-> marked.attempts[owner]]
            first    == Point(mem, disk, "Indeterminate")
            middle   == Point(marked, written, "Indeterminate")
            last     == Point(marked, noted, "Granted")
<1>1. /\ mem \in Engine /\ disk \in Image /\ mem.tick \in Nat
      /\ mem.attempts \in [Attempts -> Attempt] /\ EngineGood(mem, Told)
      /\ mem.grants[id] \in Grant
  BY EngineFields DEF CoreInv, Tables, Good
<1>2. /\ owner \in Attempts /\ mem.attempts[owner].known
      /\ \A g \in GrantIds : Standing(mem.grants[g].state) /\ g # id =>
           mem.grants[g].attempt # owner
  BY <1>1 DEF EngineGood, Booked, Filled, Single, Complete, Grant, Standing
<1>3. Standing(mem.grants[id].state)
  BY DEF Standing
<1>4. /\ released \in Engine /\ written \in Image
      /\ released.attempts = mem.attempts
      /\ Leads(mem, disk, released, written, Told)
      /\ \A g \in GrantIds : Standing(released.grants[g].state) =>
           Standing(mem.grants[g].state) /\ g # id
           /\ released.grants[g].attempt = mem.grants[g].attempt
  BY <1>3, EndLeads, Zenon DEF GrantStates, IsTerminal
<1>5. ReleasePoints(id) = << first, middle, last >>
  <2>1. [mem EXCEPT !.grants[id] = grant] = released
    BY DEF WithGrant
  <2>2. [released EXCEPT !.attempts[owner].released = TRUE] = marked
    BY <1>4 DEF WithAttempt, Engine
  <2>. HIDE DEF released, marked, grant, written, noted
  <2>. QED BY <1>2, <2>1, <2>2 DEF ReleasePoints, grant, written, noted
<1>. HIDE DEF owner, grant, released, written
<1>6. /\ attempt \in Attempt /\ attempt.known = mem.attempts[owner].known
      /\ attempt.grant = mem.attempts[owner].grant
      /\ attempt.digest = mem.attempts[owner].digest
      /\ attempt.cancelled = mem.attempts[owner].cancelled
  <2>1. mem.attempts[owner] \in Attempt
    BY <1>1, <1>2
  <2>. QED BY <2>1 DEF Attempt
<1>. HIDE DEF attempt
<1>7. /\ marked \in Engine
      /\ marked.grants = released.grants /\ marked.serial = released.serial
      /\ marked.spec = released.spec /\ marked.tick = released.tick
      /\ marked.contracts = released.contracts
      /\ \A b \in Attempts :
           marked.attempts[b] = IF b = owner THEN attempt ELSE released.attempts[b]
  BY <1>2, <1>4, <1>6, AttemptMarked
<1>. HIDE DEF marked
<1>8. Marks(released.grants, released.attempts, marked.attempts, owner)
  <2>1. \A g \in GrantIds : Standing(released.grants[g].state) =>
          released.grants[g].attempt # owner
    BY <1>2, <1>4
  <2>. QED BY <1>2, <1>4, <1>6, <1>7, <2>1 DEF Marks
<1>9. marked.attempts[owner] \in Attempt
  BY <1>2, <1>7, EngineFields
<1>10. Noted(written, noted, {owner}, rows) /\ rows[owner] = marked.attempts[owner]
  BY <1>1, <1>2, <1>4, <1>9, AttemptWritten
<1>. HIDE DEF noted, rows
<1>11. InStep(mem, disk) => Fits(middle, Told) /\ Fits(last, Told) /\ InStep(last.mem, last.disk)
  <2>1. SUFFICES ASSUME InStep(mem, disk)
                 PROVE  Fits(middle, Told) /\ Fits(last, Told) /\ InStep(last.mem, last.disk)
    OBVIOUS
  <2>2. /\ Good(marked, written, Told)
        /\ sink = "journal" => Onward(marked, written)
        /\ Leads(mem, disk, marked, noted, Told)
    BY <1>4, <1>7, <1>8, <1>10, <2>1, MarkLeads
  <2>3. Fits(last, Told) /\ InStep(last.mem, last.disk)
    BY <2>1, <2>2, LeadsFits
  <2>4. middle.mem = marked /\ middle.disk = written
    BY DEF Point
  <2>. HIDE DEF middle, last
  <2>. QED BY <2>2, <2>3, <2>4 DEF Fits
<1>12. first \in SafePoints /\ middle \in SafePoints /\ last \in SafePoints
  <2>1. << first, middle, last >> \in Seq(SafePoints)
    BY <1>5, ReleasePointsSafe
  <2>. HIDE DEF first, middle, last
  <2>. QED BY <2>1
<1>13. Still(first)
  BY <1>1, WaitingStill
<1>. HIDE DEF first, middle, last
<1>. QED BY <1>5, <1>11, <1>12, <1>13, ThreeWalk

LEMMA ReleaseBooks ==
  ASSUME Inv, Books, NEW id \in GrantIds \cup {0}, NEW attempt \in Attempts \cup {None},
         NEW lease, Release(id, attempt, lease)
  PROVE  Books' /\ StepKeeps
<1>. DEFINE target == Reaches(id, attempt)
<1>1. target \in GrantIds \cup {0} /\ CoreInv /\ Tables
  BY ReachesType DEF Inv, CoreInv, Books
<1>2. /\ up /\ target # 0 /\ mem.grants[target].state # "Absent"
      /\ ~IsTerminal(mem.grants[target].state)
      /\ Performs(ReleasePoints(target))
  BY DEF Release
<1>. HIDE DEF target
<1>3. /\ ReleasePoints(target) \in Seq(SafePoints) /\ Len(ReleasePoints(target)) >= 1
      /\ Walks(ReleasePoints(target), Told)
  BY <1>1, <1>2, ReleasePointsSafe, ReleasePointsWalk
<1>. QED BY <1>2, <1>3, PerformsBooks

LEMMA CancelLeads ==
  ASSUME CoreInv, Tables, InStep(mem, disk), NEW engine \in Engine, NEW image \in Image,
         Leads(mem, disk, engine, image, Told), engine.attempts = mem.attempts,
         NEW a \in Attempts, mem.attempts[a].known,
         \/ Mixed
         \/ \A g \in GrantIds : Standing(engine.grants[g].state) => engine.grants[g].attempt # a
  PROVE  Leads(mem, disk,
               WithAttempt(engine, a, [engine.attempts[a] EXCEPT !.cancelled = TRUE]),
               WriteCancel(image, a, mem.tick), Told)
<1>. DEFINE record == [engine.attempts[a] EXCEPT !.cancelled = TRUE]
            marked == WithAttempt(engine, a, record)
            row == [image.attempts[a] EXCEPT !.known = TRUE, !.cancelled = TRUE]
            noted == WriteCancel(image, a, mem.tick)
            rows == [x \in Attempts |-> row]
<1>1. /\ engine.attempts[a] \in Attempt /\ image.attempts[a] \in Attempt
      /\ mem.tick \in Nat
  <2>1. /\ engine.attempts \in [Attempts -> Attempt] /\ image.attempts \in [Attempts -> Attempt]
        /\ mem.tick \in Nat
    BY EngineFields, ImageFields DEF CoreInv
  <2>. QED BY <2>1
<1>2. /\ record \in Attempt /\ record.known = engine.attempts[a].known
      /\ record.grant = engine.attempts[a].grant
      /\ record.digest = engine.attempts[a].digest
      /\ record.released = engine.attempts[a].released
      /\ record.cancelled
  BY <1>1 DEF Attempt
<1>3. row \in Attempt
  BY <1>1 DEF Attempt
<1>4. image.attempts[a] = engine.attempts[a] => row = record
  BY <1>1 DEF Attempt
<1>5. noted = WriteAttempt(image, a, row, mem.tick)
  BY DEF WriteCancel
<1>. HIDE DEF record, row
<1>6. /\ marked \in Engine
      /\ marked.grants = engine.grants /\ marked.serial = engine.serial
      /\ marked.spec = engine.spec /\ marked.tick = engine.tick
      /\ marked.contracts = engine.contracts
      /\ \A b \in Attempts :
           marked.attempts[b] = IF b = a THEN record ELSE engine.attempts[b]
  BY <1>2, AttemptMarked
<1>. HIDE DEF marked, noted
<1>7. Marks(engine.grants, engine.attempts, marked.attempts, a)
  BY <1>2, <1>6 DEF Marks
<1>8. Noted(image, noted, {a}, rows) /\ rows[a] = row
  BY <1>1, <1>3, <1>5, AttemptWritten
<1>. HIDE DEF rows
<1>9. sink = "journal" /\ Intact(image) => rows[a] = marked.attempts[a]
  <2>1. sink = "journal" /\ Intact(image) => image.attempts = engine.attempts
    BY DEF Leads, InStep, Matched
  <2>. QED BY <1>4, <1>6, <1>8, <2>1
<1>10. Leads(mem, disk, marked, noted, Told)
  BY <1>6, <1>7, <1>8, <1>9, MarkLeads
<1>. QED BY <1>10 DEF marked, record, noted

LEMMA JoinThree ==
  ASSUME NEW p, NEW q, NEW r
  PROVE  << p >> \o << q, r >> = << p, q, r >>
<1>. DEFINE S == {p, q, r}
            s == << p >> \o << q, r >>
            t == << p, q, r >>
<1>0. p \in S /\ q \in S /\ r \in S
  OBVIOUS
<1>. HIDE DEF S
<1>1. s \in Seq(S) /\ t \in Seq(S)
  BY <1>0
<1>2. Len(s) = 3 /\ Len(t) = 3
  BY <1>0
<1>3. s[1] = t[1] /\ s[2] = t[2] /\ s[3] = t[3]
  BY <1>0
<1>4. DOMAIN s = 1..3 /\ DOMAIN t = 1..3
  BY <1>1, <1>2
<1>. HIDE DEF s, t
<1>5. \A i \in 1..3 : s[i] = t[i]
  <2>1. \A i \in 1..3 : i = 1 \/ i = 2 \/ i = 3
    OBVIOUS
  <2>. QED BY <1>3, <2>1
<1>6. s = t
  BY <1>1, <1>2, <1>4, <1>5
<1>. QED BY <1>6 DEF s, t

LEMMA NoAuthority ==
  ASSUME NEW p, NEW q, NEW a, p.reply \notin Authorising, q.reply \notin Authorising
  PROVE  /\ Honest(<< p, q >>, a)
         /\ \A r : r.reply \notin Authorising => Honest(<< p, q, r >>, a)
<1>1. Honest(<< p, q >>, a)
  <2>. DEFINE points == << p, q >>
  <2>1. Len(points) = 2 /\ points[1] = p /\ points[2] = q
    OBVIOUS
  <2>. HIDE DEF points
  <2>2. \A n \in 1..Len(points) : n = 1 \/ n = 2
    BY <2>1
  <2>3. Honest(points, a)
    BY <2>1, <2>2 DEF Honest
  <2>. QED BY <2>3 DEF points
<1>2. ASSUME NEW r, r.reply \notin Authorising
      PROVE  Honest(<< p, q, r >>, a)
  <2>. DEFINE points == << p, q, r >>
  <2>1. Len(points) = 3 /\ points[1] = p /\ points[2] = q /\ points[3] = r
    OBVIOUS
  <2>. HIDE DEF points
  <2>2. \A n \in 1..Len(points) : n = 1 \/ n = 2 \/ n = 3
    BY <2>1
  <2>3. Honest(points, a)
    BY <1>2, <2>1, <2>2 DEF Honest
  <2>. QED BY <2>3 DEF points
<1>. QED BY <1>1, <1>2

LEMMA CancelPointsWalk ==
  ASSUME CoreInv, Tables, NEW id \in GrantIds \cup {0}, NEW named \in Attempts \cup {None},
         id # 0 /\ named # None => Mixed,
         \/ named # None /\ mem.attempts[named].known
         \/ Reaches(id, named) # 0 /\ mem.grants[Reaches(id, named)].state # "Absent"
  PROVE  /\ Walks(CancelPoints(id, named), Told)
         /\ \A a : Honest(CancelPoints(id, named), a)
<1>. DEFINE target  == Reaches(id, named)
            grant   == mem.grants[target]
            held    == target # 0 /\ HoldsCapacity(grant.state)
            revoked == Terminated(grant, "Revoked")
            engine  == IF held THEN WithGrant(mem, target, revoked) ELSE mem
            image   == IF held THEN WriteGrant(disk, target, revoked, mem.tick) ELSE disk
            known   == named # None /\ mem.attempts[named].known
            attempt == IF known THEN named ELSE grant.attempt
            record  == [engine.attempts[attempt] EXCEPT !.cancelled = TRUE]
            marked  == WithAttempt(engine, attempt, record)
            noted   == WriteCancel(image, attempt, mem.tick)
            first   == Point(mem, disk, "Indeterminate")
            middle  == Point(engine, image, "Indeterminate")
            last    == Point(marked, noted, "Cancelled")
<1>1. /\ mem \in Engine /\ disk \in Image /\ mem.tick \in Nat /\ disk.tick \in Nat
      /\ mem.serial \in Nat
      /\ mem.attempts \in [Attempts -> Attempt] /\ mem.grants \in [GrantIds -> Grant]
      /\ Booked(mem.grants, mem.attempts) /\ Complete(mem.grants, mem.attempts)
      /\ Minted(mem)
  BY EngineFields, ImageFields DEF CoreInv, Tables, Good, EngineGood
<1>2. target \in GrantIds \cup {0}
  BY <1>1, ReachesType
<1>3. 0 \notin GrantIds /\ None \notin Attempts
  BY EligibilityAssumption
<1>4. attempt \in Attempts /\ mem.attempts[attempt].known
  <2>1. CASE known
    BY <2>1
  <2>2. CASE ~known
    <3>1. target \in GrantIds /\ grant.state # "Absent"
      BY <1>2, <2>2
    <3>2. grant \in Grant /\ grant.attempt # None /\ mem.attempts[grant.attempt].known
      BY <1>1, <3>1 DEF Booked, Filled, Complete
    <3>3. grant.attempt \in Attempts
      BY <3>2 DEF Grant
    <3>. QED BY <2>2, <3>2, <3>3
  <2>. QED BY <2>1, <2>2
<1>5. ASSUME ~Mixed, NEW g \in GrantIds, Standing(mem.grants[g].state),
             mem.grants[g].attempt = attempt
      PROVE  g = target
  <2>1. CASE known
    <3>1. id = 0
      BY <1>5, <2>1
    <3>2. target = mem.attempts[named].grant
      BY <2>1, <3>1 DEF Reaches
    <3>3. Speaks(mem.attempts[named], g)
      BY <1>1, <1>5, <2>1 DEF Booked
    <3>. QED BY <2>1, <3>2, <3>3 DEF Speaks
  <2>2. CASE ~known
    <3>1. target \in GrantIds /\ grant.state # "Absent"
      BY <1>2, <2>2
    <3>. QED BY <1>1, <1>5, <2>2, <3>1 DEF Booked, Single, Standing
  <2>. QED BY <2>1, <2>2
<1>6. held => Standing(grant.state) /\ target \in GrantIds
  BY <1>2 DEF HoldsCapacity, Standing, IsTerminal, IsQuarantined
<1>7. ASSUME NEW g \in GrantIds, Standing(mem.grants[g].state), g = target
      PROVE  held
  <2>1. mem.grants[g] \in Grant /\ mem.grants[g].state # "Prepared"
    BY <1>1 DEF Minted
  <2>2. HoldsCapacity(mem.grants[g].state)
    BY <1>7, <2>1 DEF Grant, GrantStates, Standing, HoldsCapacity, IsTerminal, IsQuarantined
  <2>. QED BY <1>3, <1>7, <2>2
<1>. HIDE DEF target, attempt, known
<1>8. /\ engine \in Engine /\ image \in Image /\ engine.attempts = mem.attempts
      /\ Leads(mem, disk, engine, image, Told)
      /\ \A g \in GrantIds : Standing(engine.grants[g].state) =>
           Standing(mem.grants[g].state) /\ (held => g # target)
           /\ engine.grants[g].attempt = mem.grants[g].attempt
  <2>1. CASE held
    <3>1. /\ Standing(mem.grants[target].state) /\ target \in GrantIds
          /\ "Revoked" \in GrantStates /\ IsTerminal("Revoked") /\ "Revoked" # "Expired"
      BY <1>6, <2>1 DEF GrantStates, IsTerminal
    <3>. QED BY <2>1, <3>1, EndLeads
  <2>2. CASE ~held
    <3>1. /\ mem.serial >= mem.serial /\ mem.tick >= mem.tick /\ disk.tick >= disk.tick
          /\ sink = "journal" => disk.spec = mem.spec /\ disk.contracts = mem.contracts
      BY <1>1 DEF Tables, Good
    <3>2. Leads(mem, disk, mem, disk, Told)
      BY <1>1, <3>1, SameLeads
    <3>. QED BY <1>1, <2>2, <3>2
  <2>. QED BY <2>1, <2>2
<1>9. CancelPoints(id, named) = IF held THEN << first, middle, last >>
                                ELSE << first, last >>
  <2>. DEFINE changed == [engine EXCEPT !.attempts[attempt].cancelled = TRUE]
              ending == IF mem.attempts[attempt].known
                        THEN << middle, Point(changed, noted, "Cancelled") >>
                        ELSE << Point(engine, image, "Cancelled") >>
  <2>1. changed = marked
    BY <1>8 DEF WithAttempt, Engine
  <2>2. CancelPoints(id, named) =
          (IF held THEN << first >> ELSE << >>) \o ending
    BY Zenon DEF CancelPoints, WithGrant, attempt, target, known
  <2>3. ~held => middle = first
    OBVIOUS
  <2>. HIDE DEF changed, marked, first, middle
  <2>4. ending = << middle, last >>
    BY <1>4, <2>1
  <2>. HIDE DEF ending, last, held
  <2>5. << first >> \o << middle, last >> = << first, middle, last >>
    BY JoinThree
  <2>6. << >> \o << middle, last >> = << middle, last >>
    OBVIOUS
  <2>. QED BY <2>2, <2>3, <2>4, <2>5, <2>6
<1>10. CancelPoints(id, named) \in Seq(SafePoints)
  BY CancelPointsSafe
<1>11. \/ Mixed
       \/ \A g \in GrantIds : Standing(engine.grants[g].state) =>
            engine.grants[g].attempt # attempt
  BY <1>5, <1>7, <1>8
<1>. HIDE DEF engine, image, held
<1>12. ASSUME InStep(mem, disk)
       PROVE  /\ Fits(middle, Told)
              /\ Fits(last, Told) /\ InStep(last.mem, last.disk)
  <2>1. Leads(mem, disk, marked, noted, Told)
    BY <1>4, <1>8, <1>11, <1>12, CancelLeads
  <2>. HIDE DEF marked, noted
  <2>2. Fits(last, Told) /\ InStep(last.mem, last.disk)
    BY <1>12, <2>1, LeadsFits
  <2>3. Fits(middle, Told)
    BY <1>8, <1>12, LeadsFits
  <2>. QED BY <2>2, <2>3
<1>13. /\ first.reply \notin Authorising /\ middle.reply \notin Authorising
       /\ last.reply \notin Authorising
  BY DEF Point, Authorising
<1>14. Still(first)
  BY <1>1, WaitingStill
<1>. HIDE DEF first, middle, last
<1>15. CASE held
  <2>1. CancelPoints(id, named) = << first, middle, last >>
    BY <1>9, <1>15
  <2>2. first \in SafePoints /\ middle \in SafePoints /\ last \in SafePoints
    BY <1>10, <2>1
  <2>3. Walks(<< first, middle, last >>, Told)
    BY <1>12, <1>14, <2>2, ThreeWalk
  <2>. QED BY <1>13, <2>1, <2>3, NoAuthority
<1>16. CASE ~held
  <2>1. CancelPoints(id, named) = << first, last >>
    BY <1>9, <1>16
  <2>2. first \in SafePoints /\ last \in SafePoints
    BY <1>10, <2>1
  <2>3. Walks(<< first, last >>, Told)
    BY <1>12, <1>14, <2>2, TwoWalk
  <2>. QED BY <1>13, <2>1, <2>3, NoAuthority
<1>. QED BY <1>15, <1>16

LEMMA CancelBooks ==
  ASSUME Inv, Books, NEW id \in GrantIds \cup {0}, NEW named \in Attempts \cup {None},
         CancelForm(id, named) \in CancelForms, Cancel(id, named)
  PROVE  Books' /\ StepKeeps
<1>. DEFINE points == CancelPoints(id, named)
<1>1. CoreInv /\ Tables /\ up
  BY DEF Inv, Books, Cancel
<1>2. id # 0 /\ named # None => Mixed
  BY DEF CancelForm, Mixed
<1>3. /\ \/ named # None /\ mem.attempts[named].known
         \/ Reaches(id, named) # 0 /\ mem.grants[Reaches(id, named)].state # "Absent"
      /\ \E a : Answers(points, a)
  BY DEF Cancel
<1>4. points \in Seq(SafePoints) /\ Len(points) >= 1
  BY <1>1, CancelPointsSafe
<1>5. Walks(points, Told) /\ \A a : Honest(points, a)
  BY <1>1, <1>2, <1>3, CancelPointsWalk
<1>. HIDE DEF points
<1>6. PICK a : Answers(points, a)
  BY <1>3
<1>. QED BY <1>1, <1>4, <1>5, <1>6, AnswersBooks

LEMMA JoinTwo ==
  ASSUME NEW p, NEW q
  PROVE  << p >> \o << q >> = << p, q >>
<1>. DEFINE S == {p, q}
            s == << p >> \o << q >>
            t == << p, q >>
<1>0. p \in S /\ q \in S
  OBVIOUS
<1>. HIDE DEF S
<1>1. s \in Seq(S) /\ t \in Seq(S)
  BY <1>0
<1>2. Len(s) = 2 /\ Len(t) = 2
  BY <1>0
<1>3. s[1] = t[1] /\ s[2] = t[2]
  BY <1>0
<1>4. DOMAIN s = 1..2 /\ DOMAIN t = 1..2
  BY <1>1, <1>2
<1>. HIDE DEF s, t
<1>5. \A i \in 1..2 : s[i] = t[i]
  <2>1. \A i \in 1..2 : i = 1 \/ i = 2
    OBVIOUS
  <2>. QED BY <1>3, <2>1
<1>6. s = t
  BY <1>1, <1>2, <1>4, <1>5
<1>. QED BY <1>6 DEF s, t

LEMMA WroteTwice ==
  ASSUME NEW image \in Image, NEW between, NEW written, NEW ids, NEW rows, NEW more,
         NEW now \in Nat, Wrote(image, between, ids, rows, now),
         Wrote(between, written, ids, more, now)
  PROVE  Wrote(image, written, ids, more, now)
<1>1. /\ image.tick \in Nat /\ between.tick \in Nat /\ written.tick \in Nat
  BY ImageFields DEF Wrote
<1>2. written.tick >= image.tick
  BY <1>1 DEF Wrote
<1>. QED BY <1>2 DEF Wrote

\* An acknowledged grant: the caller's word lifts it out of quarantine, or ends it.
LEMMA AcknowledgePointsWalk ==
  ASSUME CoreInv, Tables, NEW id \in GrantIds, mem.grants[id].state # "Absent",
         ~IsTerminal(mem.grants[id].state),
         NEW told, Told \subseteq told, id \in told
  PROVE  Walks(AcknowledgePoints(id), told)
<1>. DEFINE old    == mem.grants[id]
            lifted == IsQuarantined(old.state)
            grant  == IF lifted THEN Revalidated(mem, old) ELSE old
            engine == WithGrant(mem, id, grant)
            image  == IF lifted THEN WriteGrant(disk, id, grant, mem.tick) ELSE disk
            acked  == [grant EXCEPT !.acked = TRUE, !.state = "Acknowledged",
                                    !.commit = "Acknowledged"]
            row    == [grant EXCEPT !.state = "Acknowledged"]
            next   == WithGrant(engine, id, acked)
            written == WriteGrant(image, id, row, mem.tick)
            answer == GrantOutcome(grant)
            first   == Point(mem, disk, "Indeterminate")
            waiting == Point(engine, image, "Indeterminate")
            done    == Point(next, written, answer)
            fenced  == Point(engine, image, "Fenced")
<1>1. /\ mem \in Engine /\ disk \in Image /\ mem.tick \in Nat
      /\ mem.grants \in [GrantIds -> Grant]
  BY EngineFields DEF CoreInv
<1>2. old \in Grant /\ Standing(old.state)
  BY <1>1 DEF Standing
<1>3. AcknowledgePoints(id) =
        IF ~lifted THEN << waiting, done >>
        ELSE << first >> \o IF grant.state = "Committed" THEN << waiting, done >>
                            ELSE << fenced >>
  BY Zenon DEF AcknowledgePoints, WithGrant
<1>4. AcknowledgePoints(id) \in Seq(SafePoints)
  BY AcknowledgePointsSafe
<1>5. /\ grant \in Grant
      /\ lifted => grant.state \in {"Committed", "Revoked"}
      /\ lifted => RowGoes(id, old, grant, grant, told, mem.tick)
      /\ ~lifted => grant = old
      /\ SameIdentity(old, grant) /\ grant.expiry = old.expiry
  <2>1. CASE lifted
    <3>1. grant = Revalidated(mem, old)
      BY <2>1
    <3>. QED BY <1>1, <1>2, <2>1, <3>1, RevalidatedType, RevalidatedFields, RevalidatedGoes
  <2>2. CASE ~lifted
    BY <1>2, <2>2 DEF SameIdentity
  <2>. QED BY <2>1, <2>2
<1>. HIDE DEF grant
<1>6. /\ engine \in Engine
      /\ Turned(mem, engine, {id}, [g \in GrantIds |-> grant])
  BY <1>1, <1>5, OneTurned
<1>7. /\ lifted => Wrote(disk, image, {id}, [g \in GrantIds |-> grant], mem.tick)
      /\ ~lifted => image = disk
  BY <1>1, <1>5, GrantWritten
<1>8. image \in Image
  BY <1>1, <1>7 DEF Wrote
<1>9. lifted => Leads(mem, disk, engine, image, told)
  <2>1. SUFFICES ASSUME lifted PROVE Leads(mem, disk, engine, image, told)
    OBVIOUS
  <2>2. /\ RowGoes(id, mem.grants[id], grant, grant, told, mem.tick)
        /\ Turned(mem, engine, {id}, [g \in GrantIds |-> grant])
        /\ Wrote(disk, image, {id}, [g \in GrantIds |-> grant], mem.tick)
    BY <1>5, <1>6, <1>7, <2>1
  <2>3. \/ grant.state \in {"Committed", "Acknowledged"}
        \/ (IsTerminal(grant.state) /\ grant.state # "Expired")
    BY <1>5, <2>1 DEF IsTerminal
  <2>. HIDE DEF engine, image, old, lifted
  <2>. QED BY <1>6, <2>2, <2>3, RowLeads
<1>10. ~lifted => Still(waiting)
  <2>1. SUFFICES ASSUME ~lifted PROVE Still(waiting)
    OBVIOUS
  <2>2. grant = mem.grants[id] /\ image = disk
    BY <1>5, <1>7, <2>1
  <2>3. engine.grants = mem.grants
    <3>1. engine.grants \in [GrantIds -> Grant]
      BY <1>6, EngineFields
    <3>2. \A g \in GrantIds : engine.grants[g] = mem.grants[g]
      BY <1>6, <2>2 DEF Turned
    <3>. QED BY <1>1, <3>1, <3>2
  <2>4. waiting.mem = engine /\ waiting.disk = image /\ waiting.reply = "Indeterminate"
    BY DEF Point
  <2>5. "Indeterminate" \notin Authorising
    BY DEF Authorising
  <2>6. mem.serial >= mem.serial /\ mem.tick >= mem.tick
    BY <1>1, EngineFields
  <2>. HIDE DEF waiting, engine
  <2>. QED BY <1>6, <2>2, <2>3, <2>4, <2>5, <2>6 DEF Still, Turned
<1>. HIDE DEF engine, image
<1>11. /\ acked \in Grant /\ row \in Grant
       /\ acked.state = "Acknowledged" /\ row.state = "Acknowledged"
       /\ acked.expiry = old.expiry /\ row.expiry = old.expiry
       /\ SameIdentity(old, acked) /\ SameIdentity(old, row)
  <2>1. acked \in Grant
    <3>1. "Acknowledged" \in GrantStates /\ "Acknowledged" \in CommitStates
      BY DEF GrantStates, CommitStates
    <3>. QED BY <1>5, <3>1, GrantUpdates
  <2>2. row \in Grant
    BY <1>5 DEF Grant, GrantStates
  <2>3. /\ acked.state = "Acknowledged" /\ row.state = "Acknowledged"
        /\ acked.expiry = grant.expiry /\ row.expiry = grant.expiry
    BY <1>5 DEF Grant
  <2>4. SameIdentity(grant, acked) /\ SameIdentity(grant, row)
    BY <1>5 DEF Grant, SameIdentity
  <2>. QED BY <1>5, <2>1, <2>2, <2>3, <2>4 DEF SameIdentity
<1>. HIDE DEF acked, row, answer
<1>12. /\ next \in Engine
       /\ Turned(engine, next, {id}, [g \in GrantIds |-> acked])
       /\ Wrote(image, written, {id}, [g \in GrantIds |-> row], mem.tick)
  BY <1>1, <1>6, <1>8, <1>11, OneTurned, GrantWritten
<1>. HIDE DEF next, written
<1>13. Turned(mem, next, {id}, [g \in GrantIds |-> acked])
  BY <1>6, <1>12 DEF Turned
<1>14. Wrote(disk, written, {id}, [g \in GrantIds |-> row], mem.tick)
  <2>1. CASE lifted
    BY <1>1, <1>7, <1>12, <2>1, WroteTwice
  <2>2. CASE ~lifted
    BY <1>7, <1>12, <2>2
  <2>. QED BY <2>1, <2>2
<1>15. RowGoes(id, old, acked, row, told, mem.tick)
  <2>1. Kept(old, acked) /\ Kept(old, row)
    BY <1>2, <1>11 DEF Kept, Issued
  <2>2. Paired(acked, row)
    BY <1>11 DEF Paired, IsQuarantined, IsTerminal
  <2>. QED BY <1>11, <2>1, <2>2 DEF RowGoes, Heeds
<1>16. Leads(mem, disk, next, written, told)
  <2>1. RowGoes(id, mem.grants[id], acked, row, told, mem.tick)
    BY <1>15
  <2>. QED BY <1>11, <1>12, <1>13, <1>14, <2>1, RowLeads
<1>17. InStep(mem, disk) => Fits(done, told) /\ InStep(done.mem, done.disk)
  BY <1>16, LeadsFits
<1>18. lifted /\ InStep(mem, disk) =>
         /\ Fits(waiting, told)
         /\ Fits(fenced, told) /\ InStep(fenced.mem, fenced.disk)
  BY <1>9, LeadsFits
<1>19. Still(first)
  BY <1>1, WaitingStill
<1>. HIDE DEF lifted, first, waiting, done, fenced
<1>20. CASE ~lifted
  <2>1. AcknowledgePoints(id) = << waiting, done >>
    BY <1>3, <1>20
  <2>2. waiting \in SafePoints /\ done \in SafePoints
    BY <1>4, <2>1
  <2>. QED BY <1>10, <1>17, <1>20, <2>1, <2>2, TwoWalk
<1>21. CASE lifted /\ grant.state = "Committed"
  <2>1. AcknowledgePoints(id) = << first, waiting, done >>
    BY <1>3, <1>21, JoinThree
  <2>2. first \in SafePoints /\ waiting \in SafePoints /\ done \in SafePoints
    BY <1>4, <2>1
  <2>. QED BY <1>17, <1>18, <1>19, <1>21, <2>1, <2>2, ThreeWalk
<1>22. CASE lifted /\ grant.state # "Committed"
  <2>1. AcknowledgePoints(id) = << first, fenced >>
    BY <1>3, <1>22, JoinTwo
  <2>2. first \in SafePoints /\ fenced \in SafePoints
    BY <1>4, <2>1
  <2>. QED BY <1>18, <1>19, <1>22, <2>1, <2>2, TwoWalk
<1>. QED BY <1>20, <1>21, <1>22

LEMMA AcknowledgeBooks ==
  ASSUME Inv, Books, NEW id \in GrantIds, NEW lease, Acknowledge(id, lease)
  PROVE  Books' /\ StepKeeps
<1>. DEFINE points == AcknowledgePoints(id)
<1>1. /\ CoreInv /\ Tables /\ up
      /\ mem.grants[id].state # "Absent" /\ ~IsTerminal(mem.grants[id].state)
      /\ acks \in [GrantIds -> {"none", "sent", "accepted"}]
  BY DEF Inv, HistoryOK, Books, Acknowledge
<1>2. /\ \E answer \in {"sent", "accepted"} :
           \/ acks' = [acks EXCEPT ![id] = answer]
           \/ acks' = acks /\ acks[id] # "none"
      /\ CrashesIn(points) \/ (Completes(points) /\ UNCHANGED answered)
  <2>1. \E answer : /\ acks' = [acks EXCEPT ![id] = answer]
                    /\ answer \in {"sent", "accepted"} \/ (answer = acks[id] /\ answer # "none")
    BY DEF Acknowledge
  <2>2. CrashesIn(points) \/ (Completes(points) /\ UNCHANGED answered)
    BY DEF Acknowledge
  <2>3. [acks EXCEPT ![id] = acks[id]] = acks
    BY <1>1
  <2>. QED BY <2>1, <2>2, <2>3
<1>3. \A g \in GrantIds :
        acks'[g] # "none" <=> (acks[g] # "none" \/ g = id)
  BY <1>1, <1>2
<1>4. PICK told : told = Told'
  OBVIOUS
<1>5. told = Told' /\ Told \subseteq told /\ id \in told
  BY <1>3, <1>4 DEF Told
<1>6. points \in Seq(SafePoints) /\ Len(points) >= 1
  BY <1>1, AcknowledgePointsSafe
<1>7. Walks(points, told)
  BY <1>1, <1>5, AcknowledgePointsWalk
<1>8. Inv'
  BY AcknowledgeSafe
<1>. HIDE DEF points
<1>9. CASE Completes(points) /\ UNCHANGED answered
  <2>1. Tables' /\ StepKeeps /\ (sink = "journal" => Onward(mem', disk'))
    BY <1>1, <1>5, <1>6, <1>7, <1>9, CompletesBooks
  <2>2. UNCHANGED <<up, sink>> /\ UNCHANGED answered
    BY <1>9 DEF Completes
  <2>3. Words'
    BY <1>1, <1>8, <2>1, <2>2, WordsOn
  <2>. QED BY <2>1, <2>3 DEF Books
<1>10. CASE CrashesIn(points)
  BY <1>1, <1>5, <1>6, <1>7, <1>10, CrashesBooks
<1>. QED BY <1>2, <1>9, <1>10

-------------------------------------------------------------------------------
(* A new grant *)

\* An attempt the engine knows nothing of has no grant, in the engine or in the log.
LEMMA NewAttempt ==
  ASSUME CoreInv, Tables, NEW a \in Attempts, ~mem.attempts[a].known
  PROVE  /\ Open(mem.grants, a)
         /\ InStep(mem, disk) /\ sink = "journal" /\ Intact(disk) =>
              Open(disk.grants, a) /\ disk.attempts = mem.attempts
<1>1. /\ Booked(mem.grants, mem.attempts) /\ Complete(mem.grants, mem.attempts)
      /\ None \notin Attempts /\ NoGrant.attempt = None
  BY EligibilityAssumption DEF Tables, Good, EngineGood, NoGrant
<1>2. Open(mem.grants, a)
  BY <1>1 DEF Open, Booked, Filled, Complete
<1>3. ASSUME InStep(mem, disk), sink = "journal", Intact(disk)
      PROVE  Open(disk.grants, a) /\ disk.attempts = mem.attempts
  <2>1. Matched(mem, disk) /\ Linked(mem, disk) /\ Booked(disk.grants, disk.attempts)
    BY <1>3 DEF InStep, Tables, Good, ImageGood
  <2>2. \A g \in GrantIds : disk.grants[g].attempt # a
    <3>1. TAKE g \in GrantIds
    <3>2. CASE disk.grants[g].state = "Absent"
      BY <1>1, <2>1, <3>2 DEF Booked, Filled
    <3>3. CASE disk.grants[g].state # "Absent"
      <4>1. mem.grants[g].attempt = disk.grants[g].attempt
        BY <2>1, <3>3 DEF Matched, Linked, SameIdentity
      <4>. QED BY <1>2, <4>1 DEF Open
    <3>. QED BY <3>2, <3>3
  <2>. QED BY <2>1, <2>2 DEF Open, Matched
<1>. QED BY <1>2, <1>3

\* The record of a new grant: the log has it before the engine.
LEMMA EntryLeads ==
  ASSUME CoreInv, Tables, InStep(mem, disk), NEW a \in Attempts, ~mem.attempts[a].known,
         NEW id \in GrantIds, NEW row \in Grant, NEW next \in Engine, NEW written \in Image,
         EngineGood(next, Told), next.spec = mem.spec, next.contracts = mem.contracts,
         mem.grants[id].state = "Absent", sink = "journal" => disk.grants[id].state = "Absent",
         \A g \in GrantIds : g # id => next.grants[g] = mem.grants[g],
         \A g \in GrantIds : written.grants[g] = IF g = id THEN row ELSE disk.grants[g],
         written.spec = disk.spec, written.contracts = disk.contracts,
         written.tick >= disk.tick, written.tick >= mem.tick,
         sink = "journal" /\ Intact(written) =>
           Booked(written.grants, written.attempts),
         row.attempt = a, row.state \in {"Prepared", "Committed"}, ~row.acked,
         row.expiry <= mem.tick + Options.maxLease,
         \/ next.grants[id] = mem.grants[id] /\ (row.state = "Prepared" \/ ~Intact(written))
         \/ next.grants[id].state # "Absent" /\ SameIdentity(next.grants[id], row),
         written.replays => disk.replays
  PROVE  /\ Good(next, written, Told)
         /\ sink = "journal" => Onward(next, written)
<1>1. /\ disk.grants \in [GrantIds -> Grant] /\ disk.tick \in Nat /\ mem.tick \in Nat
      /\ written.grants \in [GrantIds -> Grant] /\ written.tick \in Nat
  BY EngineFields, ImageFields DEF CoreInv
<1>2. ASSUME sink = "journal"
      PROVE  /\ ImageGood(written, Told) /\ Linked(next, written)
             /\ written.spec = next.spec /\ written.contracts = next.contracts
             /\ Onward(next, written)
  <2>1. /\ ImageGood(disk, Told) /\ Linked(mem, disk)
        /\ disk.spec = mem.spec /\ disk.contracts = mem.contracts
        /\ disk.grants[id].state = "Absent"
    BY <1>2 DEF Tables, Good
  <2>2. InReach(written.grants, written.tick)
    <3>1. SUFFICES ASSUME RenewalsInReach, NEW g \in GrantIds
                   PROVE  written.grants[g].expiry <= written.tick + Options.maxLease
      BY DEF InReach
    <3>2. Options.maxLease \in Nat /\ written.grants[g].expiry \in Nat
      BY <1>1, EligibilityAssumption DEF Grant
    <3>3. \A e, t, n, m \in Nat : e <= t + m /\ n >= t => e <= n + m
      OBVIOUS
    <3>4. CASE g = id
      <4>1. written.grants[g].expiry <= mem.tick + Options.maxLease
        BY <3>4
      <4>. QED BY <1>1, <3>2, <3>3, <4>1
    <3>5. CASE g # id
      <4>1. written.grants[g].expiry <= disk.tick + Options.maxLease
        BY <2>1, <3>1, <3>5 DEF ImageGood, InReach
      <4>. QED BY <1>1, <3>2, <3>3, <4>1
    <3>. QED BY <3>4, <3>5
  <2>3. Heard(written.grants, Told)
    BY <2>1 DEF ImageGood, Heard, Acknowledged
  <2>4. ImageGood(written, Told)
    BY <1>2, <2>2, <2>3 DEF ImageGood
  <2>5. Intact(written) => Intact(disk)
    BY DEF Intact
  <2>6. Linked(next, written)
    <3>1. \A g \in GrantIds : next.grants[g].state # "Absent" =>
            /\ written.grants[g].state # "Absent"
            /\ SameIdentity(next.grants[g], written.grants[g])
      BY <2>1 DEF Linked
    <3>2. ASSUME Intact(written), NEW g \in GrantIds, Issued(written.grants[g].state)
          PROVE  next.grants[g].state # "Absent"
      <4>1. CASE g = id
        BY <3>2, <4>1 DEF Issued
      <4>2. CASE g # id
        BY <2>1, <2>5, <3>2, <4>2 DEF Linked
      <4>. QED BY <4>1, <4>2
    <3>3. \A g \in GrantIds :
            IsQuarantined(written.grants[g].state) => IsQuarantined(next.grants[g].state)
      BY <2>1 DEF Linked, IsQuarantined
    <3>. QED BY <3>1, <3>2, <3>3 DEF Linked
  <2>7. KeepsIdentity(written)
    BY <2>1 DEF KeepsIdentity, Issued, SameIdentity
  <2>8. KeepsQuarantine(written)
    BY DEF KeepsQuarantine
  <2>9. ASSUME TableSuffices PROVE Ledgered(disk.grants, written.grants)
    <3>1. \A g \in GrantIds : disk.grants[g].attempt # a
      BY <1>2, <2>9, NewAttempt DEF Intact, Open
    <3>2. Status(disk.grants[id]) = "free" /\ Status(row) \in {"offered", "held"}
      BY <2>1, StatusOf
    <3>3. \A g \in GrantIds : g # id => SameEntry(disk.grants[g], written.grants[g])
      BY DEF SameEntry
    <3>4. Enters(disk.grants, written.grants)
      BY <3>1, <3>2, <3>3 DEF Enters
    <3>. QED BY <3>4 DEF Ledgered
  <2>10. \A g \in GrantIds : mem.grants[g].state # "Absent" =>
           next.grants[g].state # "Absent" /\ next.grants[g].attempt = mem.grants[g].attempt
    OBVIOUS
  <2>11. Onward(next, written)
    BY <2>7, <2>8, <2>9, <2>10 DEF Onward
  <2>. QED BY <2>1, <2>4, <2>6, <2>11
<1>. QED BY <1>2 DEF Good

\* A commit whose grant the table has no room for spoils the log.
LEMMA FullTable ==
  ASSUME CoreInv, Tables, sink = "journal", NEW id \in GrantIds,
         mem.grants[id].state = "Absent",
         Cardinality(Present(mem.grants)) >= TableLimit,
         NEW between, NEW written,
         \A g \in GrantIds : g # id => between.grants[g] = disk.grants[g],
         written.replays => Cardinality(Present(between.grants) \cup {id}) <= TableLimit
  PROVE  ~Intact(written)
<1>. DEFINE present == Present(mem.grants)
            more == present \cup {id}
            all == Present(between.grants) \cup {id}
<1>1. present \in SUBSET GrantIds /\ all \in SUBSET GrantIds /\ id \notin present
  BY DEF Present
<1>2. present \subseteq Present(between.grants)
  BY DEF Tables, Good, Linked, Present
<1>3. more \in SUBSET all /\ more \in SUBSET GrantIds
  BY <1>1, <1>2
<1>4. /\ IsFiniteSet(GrantIds) /\ IsFiniteSet(present) /\ IsFiniteSet(all)
      /\ Cardinality(present) \in Nat /\ Cardinality(all) \in Nat
      /\ Cardinality(GrantIds) \in Nat /\ Cardinality(more) \in Nat
  BY <1>1, <1>3, EligibilityAssumption, FS_Subset, CountType
<1>. HIDE DEF all, present
<1>5. Cardinality(more) = Cardinality(present) + 1
  BY <1>1, <1>4, FS_AddElement
<1>. HIDE DEF more
<1>6. Cardinality(more) <= Cardinality(all) /\ Cardinality(more) <= Cardinality(GrantIds)
  BY <1>3, <1>4, FS_Subset
<1>7. TableLimit \in Nat /\ Cardinality(present) >= TableLimit
  BY CoreAssumption DEF present
<1>8. Cardinality(all) > TableLimit /\ Cardinality(GrantIds) > TableLimit
  BY <1>4, <1>5, <1>6, <1>7
<1>9. ~(Cardinality(all) <= TableLimit) /\ ~TableSuffices
  BY <1>4, <1>7, <1>8 DEF TableSuffices
<1>. QED BY <1>9 DEF Intact, all

LEMMA CurrentEpoch ==
  ASSUME mem \in Engine, NEW view \in View, Current(view)
  PROVE  view.epoch = mem.spec.epoch
<1>. DEFINE checks == <<
              <<~view.cluster, "Unknown">>,
              <<view.generation > mem.spec.generation, "Invalid">>,
              <<view.generation < mem.spec.generation, "Stale">>,
              <<view.epoch > mem.spec.epoch, "Invalid">>,
              <<view.epoch < mem.spec.epoch, "Fenced">>,
              <<view.incarnation # mem.incarnation, "Fenced">>,
              <<view.policy # mem.spec.policy, "Stale">> >>
<1>1. view.cluster \in BOOLEAN /\ view.epoch \in Nat /\ mem.spec.epoch \in Nat
  BY EngineFields DEF View, ClusterSpecs
<1>2. {"Unknown", "Invalid", "Stale", "Fenced"} \subseteq Refusals
  BY DEF Refusals, Outcomes, Authorising
<1>3. checks \in Seq(BOOLEAN \X Refusals)
  <2>. DEFINE S == BOOLEAN \X Refusals
  <2>0. <<~view.cluster, "Unknown">> \in S
    <3>1. (~view.cluster) \in BOOLEAN
      OBVIOUS
    <3>. QED BY <1>2, <3>1, Zenon
  <2>1. \A x \in BOOLEAN : \A o \in {"Unknown", "Invalid", "Stale", "Fenced"} : <<x, o>> \in S
    BY <1>2
  <2>2. /\ (view.generation > mem.spec.generation) \in BOOLEAN
        /\ (view.generation < mem.spec.generation) \in BOOLEAN
        /\ (view.epoch > mem.spec.epoch) \in BOOLEAN
        /\ (view.epoch < mem.spec.epoch) \in BOOLEAN
        /\ (view.incarnation # mem.incarnation) \in BOOLEAN
        /\ (view.policy # mem.spec.policy) \in BOOLEAN
    OBVIOUS
  <2>. HIDE DEF S
  <2>3. /\ <<view.generation > mem.spec.generation, "Invalid">> \in S
        /\ <<view.generation < mem.spec.generation, "Stale">> \in S
    BY <2>1, <2>2
  <2>4. /\ <<view.epoch > mem.spec.epoch, "Invalid">> \in S
        /\ <<view.epoch < mem.spec.epoch, "Fenced">> \in S
    BY <2>1, <2>2
  <2>5. /\ <<view.incarnation # mem.incarnation, "Fenced">> \in S
        /\ <<view.policy # mem.spec.policy, "Stale">> \in S
    BY <2>1, <2>2
  <2>6. checks \in Seq(S)
    BY <2>0, <2>3, <2>4, <2>5
  <2>. QED BY <2>6 DEF S
<1>4. /\ 4 \in DOMAIN checks /\ 5 \in DOMAIN checks
      /\ checks[4][1] = (view.epoch > mem.spec.epoch)
      /\ checks[5][1] = (view.epoch < mem.spec.epoch)
  OBVIOUS
<1>5. FirstFailure(checks) \in Authorising
  BY DEF Current, CoordinateOutcome, Authorising
<1>. HIDE DEF checks
<1>6. \A i \in DOMAIN checks : ~checks[i][1]
  BY <1>3, <1>5, FirstFailureDecides
<1>7. ~(view.epoch > mem.spec.epoch) /\ ~(view.epoch < mem.spec.epoch)
  BY <1>4, <1>6, Zenon
<1>. QED BY <1>1, <1>7

LEMMA JoinMore ==
  ASSUME NEW p, NEW q, NEW r, NEW t
  PROVE  /\ << p, q >> \o << r >> = << p, q, r >>
         /\ << p, q >> \o << r, t >> = << p, q, r, t >>
<1>. DEFINE S == {p, q, r, t}
            three == << p, q, r >>
            four == << p, q, r, t >>
            some == << p, q >> \o << r >>
            more == << p, q >> \o << r, t >>
<1>0. p \in S /\ q \in S /\ r \in S /\ t \in S
  OBVIOUS
<1>. HIDE DEF S
<1>1. three \in Seq(S) /\ four \in Seq(S) /\ some \in Seq(S) /\ more \in Seq(S)
  BY <1>0
<1>2. Len(three) = 3 /\ Len(some) = 3 /\ Len(four) = 4 /\ Len(more) = 4
  BY <1>0
<1>3. /\ some[1] = three[1] /\ some[2] = three[2] /\ some[3] = three[3]
      /\ more[1] = four[1] /\ more[2] = four[2] /\ more[3] = four[3] /\ more[4] = four[4]
  BY <1>0
<1>4. /\ DOMAIN some = 1..3 /\ DOMAIN three = 1..3
      /\ DOMAIN more = 1..4 /\ DOMAIN four = 1..4
  BY <1>1, <1>2
<1>. HIDE DEF three, four, some, more
<1>5. /\ \A i \in 1..3 : some[i] = three[i]
      /\ \A i \in 1..4 : more[i] = four[i]
  <2>1. /\ \A i \in 1..3 : i = 1 \/ i = 2 \/ i = 3
        /\ \A i \in 1..4 : i = 1 \/ i = 2 \/ i = 3 \/ i = 4
    OBVIOUS
  <2>. QED BY <1>3, <2>1
<1>6. some = three
  BY <1>1, <1>2, <1>4, <1>5
<1>7. more = four
  BY <1>1, <1>2, <1>4, <1>5
<1>. QED BY <1>6, <1>7 DEF three, four, some, more

LEMMA FourWalk ==
  ASSUME CoreInv, Tables, NEW told, Told \subseteq told,
         NEW p \in SafePoints, NEW q \in SafePoints, NEW r \in SafePoints,
         NEW t \in SafePoints, Still(p),
         InStep(mem, disk) =>
           Fits(q, told) /\ Fits(r, told) /\ Fits(t, told) /\ InStep(t.mem, t.disk)
  PROVE  Walks(<< p, q, r, t >>, told)
<1>. DEFINE points == << p, q, r, t >>
<1>1. /\ points \in Seq(SafePoints) /\ Len(points) = 4
      /\ points[1] = p /\ points[2] = q /\ points[3] = r /\ points[4] = t
  OBVIOUS
<1>. HIDE DEF points
<1>2. \A n \in 2..Len(points) : n = 2 \/ n = 3 \/ n = 4
  BY <1>1
<1>3. Walks(points, told)
  BY <1>1, <1>2, WalksFrom, SMTT(20)
<1>. QED BY <1>3 DEF points

\* What the grant submit builds says of its request.
LEMMA NewGrantFields ==
  ASSUME mem \in Engine, NEW request \in Request, NEW decision,
         ~(LeaseTicks(request) > Options.maxLease)
  PROVE  LET grant == NewGrant(request, decision)
         IN  /\ grant.state = "Committed" /\ ~grant.acked
             /\ grant.attempt = request.attempt
             /\ grant.expiry <= mem.tick + Options.maxLease
<1>. DEFINE grant == NewGrant(request, decision)
<1>1. /\ LeaseTicks(request) \in Nat /\ Options.maxLease \in Nat /\ mem.tick \in Nat
  BY EligibilityAssumption, EngineFields DEF LeaseTicks, Request
<1>2. /\ grant.state = "Committed" /\ ~grant.acked
      /\ grant.attempt = request.attempt
      /\ grant.expiry = mem.tick + LeaseTicks(request)
  BY DEF NewGrant
<1>. HIDE DEF grant
<1>3. grant.expiry <= mem.tick + Options.maxLease
  BY <1>1, <1>2
<1>. QED BY <1>2, <1>3 DEF grant

LEMMA GrantPointsWalk ==
  ASSUME CoreInv, Tables, NEW request \in Requests, NEW view \in View,
         Current(view), ~mem.attempts[request.attempt].known,
         Decision(request).outcome \in Authorising, mem.serial + 1 \in GrantIds
  PROVE  LET points == GrantPoints(request, view, Decision(request))
         IN  Walks(points, Told) /\ Honest(points, request.attempt)
<1>. DEFINE decision == Decision(request)
            id       == mem.serial + 1
            a        == request.attempt
            counter  == Greatest(mem.counter, id)
            minted   == [mem EXCEPT !.serial = id, !.counter = counter]
            grant    == NewGrant(request, decision)
            row      == [grant EXCEPT !.state = "Prepared", !.commit = "Prepared"]
            prepared == WriteGrant(disk, id, row, mem.tick)
            commit   == WriteGrant(prepared, id, grant, mem.tick)
            digest   == [request |-> request, view |-> view]
            attempt  == [NoAttempt EXCEPT !.known = TRUE, !.grant = id,
                                          !.outcome = decision.outcome, !.digest = digest]
            granted  == WithGrant(minted, id, grant)
            held     == WithAttempt(granted, a, attempt)
            noted    == WriteAttempt(commit, a, attempt, mem.tick)
            points   == GrantPoints(request, view, decision)
            first    == Point(minted, disk, "Indeterminate")
            refused  == Point(minted, disk, "Refused")
            second   == Point(minted, prepared, "Indeterminate")
            full     == Point(minted, commit, "Refused")
            third    == Point(held, commit, "Refused")
            last     == Point(held, noted, decision.outcome)
            crowded  == Cardinality(Present(mem.grants)) >= TableLimit
<1>1. /\ mem \in Engine /\ disk \in Image /\ mem.tick \in Nat /\ mem.serial \in Nat
      /\ mem.counter \in Nat /\ mem.grants \in [GrantIds -> Grant]
      /\ mem.attempts \in [Attempts -> Attempt]
      /\ disk.grants \in [GrantIds -> Grant] /\ disk.attempts \in [Attempts -> Attempt]
      /\ disk.tick \in Nat
  BY EngineFields, ImageFields DEF CoreInv
<1>2. request \in Request /\ a \in Attempts
  BY CoreAssumption DEF Request
<1>3. decision.outcome \in Outcomes /\ decision.outcome \in Authorising
  BY <1>1, <1>2, DecisionType
<1>4. grant \in Grant
  BY <1>1, <1>2, NewGrantType
<1>5. ~(LeaseTicks(request) > Options.maxLease) =>
        /\ grant.state = "Committed" /\ ~grant.acked
        /\ grant.attempt = a
        /\ grant.expiry <= mem.tick + Options.maxLease
  BY <1>1, <1>2, NewGrantFields
<1>6. points = IF LeaseTicks(request) > Options.maxLease THEN << refused >>
               ELSE IF crowded THEN << first, second >> \o << full >>
               ELSE << first, second >> \o << third, last >>
  <2>1. [mem EXCEPT !.serial = id, !.counter = Greatest(@, id)] = minted
    BY <1>1 DEF Engine
  <2>2. [minted EXCEPT !.grants[id] = grant, !.attempts[request.attempt] = attempt] = held
    BY <1>1 DEF Engine, WithGrant, WithAttempt
  <2>. HIDE DEF crowded
  <2>. QED BY <2>1, <2>2 DEF GrantPoints, crowded
<1>7. points \in Seq(SafePoints)
  BY GrantPointsSafe
<1>8. view.epoch = mem.spec.epoch /\ mem.spec.epoch \in Nat
  BY <1>1, CurrentEpoch, EngineFields DEF ClusterSpecs
<1>. HIDE DEF decision, grant, points
<1>9. /\ row \in Grant /\ row.state = "Prepared" /\ row.acked = grant.acked
      /\ row.attempt = grant.attempt /\ row.expiry = grant.expiry
  <2>1. row \in Grant
    <3>1. "Prepared" \in GrantStates /\ "Prepared" \in CommitStates
      BY DEF GrantStates, CommitStates
    <3>. QED BY <1>4, <3>1, GrantUpdates
  <2>2. /\ row.state = "Prepared" /\ row.acked = grant.acked
        /\ row.attempt = grant.attempt /\ row.expiry = grant.expiry
    BY <1>4 DEF Grant
  <2>. QED BY <2>1, <2>2
<1>. HIDE DEF row
<1>10. digest \in Digest /\ digest # None /\ digest.view = view
  BY CoreAssumption DEF Digest
<1>. HIDE DEF digest
<1>11. /\ attempt \in Attempt /\ attempt.known /\ attempt.grant = id
       /\ ~attempt.released /\ ~attempt.cancelled /\ attempt.digest = digest
  BY <1>3, <1>10 DEF NoAttempt, Attempt
<1>. HIDE DEF attempt
<1>12. counter \in Nat
  BY <1>1 DEF Greatest
<1>. HIDE DEF counter
<1>13. /\ minted \in Engine /\ minted.grants = mem.grants /\ minted.serial = id
       /\ minted.spec = mem.spec /\ minted.attempts = mem.attempts
       /\ minted.tick = mem.tick /\ minted.contracts = mem.contracts
  <2>1. id \in Nat
    BY <1>1
  <2>2. minted \in Engine
    BY <1>1, <1>12, <2>1 DEF Engine
  <2>3. /\ minted.grants = mem.grants /\ minted.serial = id
        /\ minted.spec = mem.spec /\ minted.attempts = mem.attempts
        /\ minted.tick = mem.tick /\ minted.contracts = mem.contracts
    BY <1>1 DEF Engine
  <2>. QED BY <2>2, <2>3
<1>. HIDE DEF minted
<1>14. id \in GrantIds /\ id > mem.serial /\ id \in Nat
  BY <1>1
<1>15. /\ mem.grants[id].state = "Absent"
       /\ sink = "journal" => disk.grants[id].state = "Absent"
  BY <1>14 DEF CoreInv, Covers, Tables, Good, EngineGood, Minted
<1>. HIDE DEF id
<1>16. Still(first) /\ Still(refused)
  <2>1. "Indeterminate" \notin Authorising /\ "Refused" \notin Authorising
    BY DEF Authorising
  <2>2. minted.serial >= mem.serial /\ minted.tick >= mem.tick
    BY <1>1, <1>13, <1>14
  <2>. QED BY <1>13, <2>1, <2>2 DEF Still, Point
<1>17. EngineGood(mem, Told) /\ Open(mem.grants, a)
  BY <1>2, NewAttempt DEF Tables, Good
<1>18. EngineGood(minted, Told)
  <2>1. InReach(minted.grants, minted.tick)
    BY <1>13, <1>17 DEF EngineGood
  <2>2. minted.serial >= mem.serial
    BY <1>1, <1>13, <1>14
  <2>. QED BY <1>1, <1>13, <1>17, <2>1, <2>2, EngineGoodRows
<1>19. CASE LeaseTicks(request) > Options.maxLease
  <2>1. points = << refused >>
    BY <1>6, <1>19
  <2>2. refused.reply \notin Authorising
    BY <1>16 DEF Still
  <2>. HIDE DEF refused
  <2>3. refused \in SafePoints
    BY <1>7, <2>1
  <2>4. Walks(<< refused >>, Told)
    BY <1>16, <2>3, OneWalk
  <2>5. Honest(<< refused >>, a)
    BY <2>2 DEF Honest
  <2>. QED BY <2>1, <2>4, <2>5 DEF points, decision
<1>20. CASE ~(LeaseTicks(request) > Options.maxLease)
  <2>1. /\ grant.state = "Committed" /\ ~grant.acked
        /\ grant.attempt = a
        /\ grant.expiry <= mem.tick + Options.maxLease
    BY <1>5, <1>20
  <2>2. /\ granted \in Engine /\ granted.serial = id
        /\ \A g \in GrantIds : granted.grants[g] = IF g = id THEN grant ELSE mem.grants[g]
        /\ granted.attempts = mem.attempts /\ granted.spec = mem.spec
        /\ granted.contracts = mem.contracts /\ granted.tick = mem.tick
    <3>1. /\ granted \in Engine
          /\ Turned(minted, granted, {id}, [g \in GrantIds |-> grant])
      BY <1>4, <1>13, <1>14, OneTurned
    <3>. QED BY <1>13, <3>1 DEF Turned
  <2>. HIDE DEF granted
  <2>3. /\ held \in Engine
        /\ held.grants = granted.grants /\ held.serial = id
        /\ held.spec = mem.spec /\ held.tick = mem.tick
        /\ held.contracts = mem.contracts
        /\ \A b \in Attempts : held.attempts[b] = IF b = a THEN attempt ELSE mem.attempts[b]
    BY <1>2, <1>11, <2>2, AttemptMarked
  <2>. HIDE DEF held
  <2>4. /\ \A g \in GrantIds : held.grants[g] = IF g = id THEN grant ELSE mem.grants[g]
        /\ Entered(mem.grants, held.grants, id, grant, a)
        /\ Recorder(mem.attempts, held.attempts, id, a)
    BY <1>2, <1>11, <1>15, <1>17, <2>1, <2>2, <2>3 DEF Entered, Recorder
  <2>5. EngineGood(held, Told)
    <3>1. held.attempts[a] = attempt
      BY <1>2, <2>3
    <3>2. /\ held.attempts[a].known
          /\ held.attempts[a].digest # None
          /\ held.attempts[a].digest.view.epoch >= mem.spec.epoch
      BY <1>8, <1>10, <1>11, <3>1
    <3>. QED BY <1>1, <1>4, <1>14, <1>17, <2>1, <2>3, <2>4, <3>2, EngineEntry
  <2>6. /\ prepared \in Image
        /\ \A g \in GrantIds : prepared.grants[g] = IF g = id THEN row ELSE disk.grants[g]
        /\ prepared.attempts = disk.attempts
        /\ prepared.spec = disk.spec /\ prepared.contracts = disk.contracts
        /\ prepared.tick >= disk.tick /\ prepared.tick >= mem.tick
        /\ prepared.replays => disk.replays
    <3>1. Wrote(disk, prepared, {id}, [g \in GrantIds |-> row], mem.tick)
      BY <1>1, <1>9, <1>14, GrantWritten
    <3>. QED BY <3>1 DEF Wrote
  <2>. HIDE DEF prepared
  <2>7. /\ commit \in Image
        /\ \A g \in GrantIds : commit.grants[g] = IF g = id THEN grant ELSE disk.grants[g]
        /\ commit.attempts = disk.attempts
        /\ commit.spec = disk.spec /\ commit.contracts = disk.contracts
        /\ commit.tick >= disk.tick /\ commit.tick >= mem.tick
        /\ commit.replays => disk.replays
        /\ commit.replays => Cardinality(Present(prepared.grants) \cup {id}) <= TableLimit
    <3>1. /\ Wrote(prepared, commit, {id}, [g \in GrantIds |-> grant], mem.tick)
          /\ commit.replays => Cardinality(Present(prepared.grants) \cup {id}) <= TableLimit
      BY <1>1, <1>4, <1>14, <2>6, GrantWritten
    <3>2. commit.tick \in Nat /\ prepared.tick \in Nat
      BY <2>6, <3>1, ImageFields DEF Wrote
    <3>3. commit.tick >= prepared.tick
      BY <3>1 DEF Wrote
    <3>4. commit.tick >= disk.tick /\ commit.tick >= mem.tick
      BY <1>1, <2>6, <3>2, <3>3
    <3>. QED BY <2>6, <3>1, <3>4 DEF Wrote
  <2>. HIDE DEF commit
  <2>8. /\ noted \in Image /\ noted.grants = commit.grants
        /\ \A b \in Attempts : noted.attempts[b] = IF b = a THEN attempt ELSE disk.attempts[b]
        /\ noted.spec = disk.spec /\ noted.contracts = disk.contracts
        /\ noted.tick >= disk.tick /\ noted.tick >= mem.tick
        /\ noted.replays => disk.replays /\ commit.replays
    <3>1. Noted(commit, noted, {a}, [x \in Attempts |-> attempt])
      BY <1>1, <1>11, <2>7, AttemptWritten
    <3>2. noted.tick \in Nat /\ commit.tick \in Nat /\ noted.tick >= commit.tick
      BY <2>7, <3>1, ImageFields DEF Noted
    <3>3. noted.tick >= disk.tick /\ noted.tick >= mem.tick
      BY <1>1, <2>7, <3>2
    <3>. QED BY <2>7, <3>1, <3>3 DEF Noted
  <2>. HIDE DEF noted
  <2>9. ASSUME InStep(mem, disk)
        PROVE  /\ Fits(second, Told)
               /\ crowded => Fits(full, Told) /\ InStep(full.mem, full.disk)
               /\ Fits(third, Told) /\ Fits(last, Told) /\ InStep(last.mem, last.disk)
    <3>1. ASSUME sink = "journal", Intact(disk)
          PROVE  /\ Open(disk.grants, a) /\ disk.attempts = mem.attempts
                 /\ Booked(disk.grants, disk.attempts)
      BY <1>2, <2>9, <3>1, NewAttempt DEF Tables, ImageGood
    <3>2. /\ Intact(prepared) => Intact(disk)
          /\ Intact(commit) => Intact(disk)
          /\ Intact(noted) => Intact(disk) /\ Intact(commit)
      BY <2>6, <2>7, <2>8 DEF Intact
    <3>3. ASSUME sink = "journal", Intact(prepared)
          PROVE  Booked(prepared.grants, prepared.attempts)
      <4>1. /\ Entered(disk.grants, prepared.grants, id, row, a)
            /\ Recorder(disk.attempts, prepared.attempts, id, a)
        BY <1>2, <1>9, <1>15, <2>1, <2>6, <3>1, <3>2, <3>3 DEF Entered, Recorder
      <4>. QED BY <1>1, <1>14, <3>1, <3>2, <3>3, <4>1, BookedEntry
    <3>4. ASSUME sink = "journal", Intact(commit)
          PROVE  /\ Entered(disk.grants, commit.grants, id, grant, a)
                 /\ Booked(commit.grants, commit.attempts)
      <4>1. /\ Entered(disk.grants, commit.grants, id, grant, a)
            /\ Recorder(disk.attempts, commit.attempts, id, a)
        BY <1>2, <1>15, <2>1, <2>7, <3>1, <3>2, <3>4 DEF Entered, Recorder
      <4>. QED BY <1>1, <1>14, <3>1, <3>2, <3>4, <4>1, BookedEntry
    <3>5. ASSUME sink = "journal", Intact(noted)
          PROVE  Booked(noted.grants, noted.attempts)
      <4>1. /\ Entered(disk.grants, noted.grants, id, grant, a)
            /\ Recorder(disk.attempts, noted.attempts, id, a)
        BY <1>2, <1>11, <2>8, <3>1, <3>2, <3>4, <3>5 DEF Recorder
      <4>. QED BY <1>1, <1>14, <3>1, <3>2, <3>5, <4>1, BookedEntry
    <3>6. /\ row.attempt = a /\ row.state \in {"Prepared", "Committed"} /\ ~row.acked
          /\ row.expiry <= mem.tick + Options.maxLease
      BY <1>9, <2>1
    <3>7. Fits(second, Told)
      <4>1. /\ minted.grants[id] = mem.grants[id] /\ row.state = "Prepared"
            /\ \A g \in GrantIds : g # id => minted.grants[g] = mem.grants[g]
        BY <1>9, <1>13
      <4>2. /\ Good(minted, prepared, Told)
            /\ sink = "journal" => Onward(minted, prepared)
        BY <1>2, <1>9, <1>13, <1>14, <1>15, <1>18, <2>6, <2>9, <3>3, <3>6, <4>1, EntryLeads
      <4>. QED BY <4>2 DEF Fits, Point
    <3>8. ASSUME crowded PROVE Fits(full, Told) /\ InStep(full.mem, full.disk)
      <4>1. CASE sink = "journal"
        <5>1. \A g \in GrantIds : g # id => prepared.grants[g] = disk.grants[g]
          BY <2>6
        <5>2. ~Intact(commit)
          BY <1>14, <1>15, <2>7, <3>8, <4>1, <5>1, FullTable
        <5>3. /\ minted.grants[id] = mem.grants[id]
              /\ \A g \in GrantIds : g # id => minted.grants[g] = mem.grants[g]
          BY <1>13
        <5>4. /\ Good(minted, commit, Told)
              /\ sink = "journal" => Onward(minted, commit)
          BY <1>2, <1>4, <1>13, <1>14, <1>15, <1>18, <2>1, <2>7, <2>9, <3>4, <5>2, <5>3,
             EntryLeads
        <5>5. InStep(minted, commit)
          BY <5>2 DEF InStep
        <5>. QED BY <5>4, <5>5 DEF Fits, Point
      <4>2. CASE sink # "journal"
        BY <1>18, <4>2 DEF Fits, Good, InStep, Point
      <4>. QED BY <4>1, <4>2
    <3>9. /\ held.grants[id].state # "Absent" /\ SameIdentity(held.grants[id], grant)
          /\ \A g \in GrantIds : g # id => held.grants[g] = mem.grants[g]
      BY <1>14, <2>1, <2>4 DEF SameIdentity
    <3>10. Fits(third, Told)
      <4>1. /\ Good(held, commit, Told)
            /\ sink = "journal" => Onward(held, commit)
        BY <1>2, <1>4, <1>14, <1>15, <2>1, <2>3, <2>5, <2>7, <2>9, <3>4, <3>9, EntryLeads
      <4>. QED BY <4>1 DEF Fits, Point
    <3>11. Fits(last, Told)
      <4>1. \A g \in GrantIds : noted.grants[g] = IF g = id THEN grant ELSE disk.grants[g]
        BY <2>7, <2>8
      <4>2. /\ Good(held, noted, Told)
            /\ sink = "journal" => Onward(held, noted)
        BY <1>2, <1>4, <1>14, <1>15, <2>1, <2>3, <2>5, <2>8, <2>9, <3>5, <3>9, <4>1, EntryLeads
      <4>. QED BY <4>2 DEF Fits, Point
    <3>12. InStep(held, noted)
      <4>1. SUFFICES ASSUME sink = "journal", Intact(noted) PROVE Matched(held, noted)
        BY DEF InStep
      <4>2. Matched(mem, disk) /\ disk.attempts = mem.attempts
        BY <2>9, <3>1, <3>2, <4>1 DEF InStep
      <4>3. noted.attempts = held.attempts
        <5>1. /\ noted.attempts \in [Attempts -> Attempt]
              /\ held.attempts \in [Attempts -> Attempt]
          BY <2>3, <2>8, ImageFields, EngineFields
        <5>2. \A b \in Attempts : noted.attempts[b] = held.attempts[b]
          BY <2>3, <2>8, <4>2
        <5>. QED BY <5>1, <5>2
      <4>4. \A g \in GrantIds :
              /\ noted.grants[g].state # "Absent" => held.grants[g].state # "Absent"
              /\ IsTerminal(held.grants[g].state) => IsTerminal(noted.grants[g].state)
        BY <2>4, <2>7, <2>8, <4>2 DEF Matched
      <4>. QED BY <4>3, <4>4 DEF Matched
    <3>13. last.mem = held /\ last.disk = noted
      BY DEF Point
    <3>. QED BY <3>7, <3>8, <3>10, <3>11, <3>12, <3>13
  <2>10. /\ first.reply \notin Authorising /\ second.reply \notin Authorising
         /\ full.reply \notin Authorising /\ third.reply \notin Authorising
    BY DEF Point, Authorising
  <2>11. Backs(last.mem, last.disk, a)
    <3>1. last.mem = held /\ last.disk = noted
      BY DEF Point
    <3>2. Shows(noted, a, id)
      BY <1>14, <2>1, <2>7, <2>8 DEF Shows, Issued
    <3>3. held.grants[id].state # "Absent" /\ held.grants[id].attempt = a
      BY <1>14, <2>1, <2>4
    <3>. QED BY <1>14, <3>1, <3>2, <3>3 DEF Backs
  <2>. HIDE DEF first, second, full, third, last
  <2>12. CASE crowded
    <3>1. points = << first, second, full >>
      BY <1>6, <1>20, <2>12, JoinMore
    <3>2. first \in SafePoints /\ second \in SafePoints /\ full \in SafePoints
      BY <1>7, <3>1
    <3>3. Walks(<< first, second, full >>, Told)
      BY <1>16, <2>9, <2>12, <3>2, ThreeWalk
    <3>4. Honest(<< first, second, full >>, a)
      BY <2>10, NoAuthority
    <3>. QED BY <3>1, <3>3, <3>4 DEF points, decision
  <2>13. CASE ~crowded
    <3>1. points = << first, second, third, last >>
      BY <1>6, <1>20, <2>13, JoinMore
    <3>2. /\ first \in SafePoints /\ second \in SafePoints
          /\ third \in SafePoints /\ last \in SafePoints
      BY <1>7, <3>1
    <3>3. Walks(<< first, second, third, last >>, Told)
      BY <1>16, <2>9, <3>2, FourWalk
    <3>4. Honest(points, a)
      <4>1. /\ Len(points) = 4 /\ points[1] = first /\ points[2] = second
            /\ points[3] = third /\ points[4] = last
        BY <3>1
      <4>2. \A n \in 1..Len(points) : n = 1 \/ n = 2 \/ n = 3 \/ n = 4
        BY <4>1
      <4>. QED BY <2>10, <2>11, <4>1, <4>2 DEF Honest
    <3>. QED BY <3>1, <3>3, <3>4 DEF points, decision
  <2>. QED BY <2>12, <2>13
<1>. QED BY <1>19, <1>20

LEMMA IssueBooks ==
  ASSUME Inv, Books, NEW request \in Requests, NEW view \in Views, Issue(request, view)
  PROVE  Books' /\ StepKeeps
<1>. DEFINE points == GrantPoints(request, view, Decision(request))
<1>1. CoreInv /\ Tables /\ up /\ mem \in Engine
  BY DEF Inv, CoreInv, Books, Issue
<1>2. view \in View
  BY <1>1, ViewsType
<1>3. /\ points \in Seq(SafePoints) /\ Len(points) >= 1
      /\ Walks(points, Told) /\ Honest(points, request.attempt)
  BY <1>1, <1>2, GrantPointsSafe, GrantPointsWalk DEF Issue
<1>4. Answers(points, request.attempt)
  BY DEF Issue
<1>. HIDE DEF points
<1>. QED BY <1>1, <1>3, <1>4, AnswersBooks

-------------------------------------------------------------------------------
(* Telling what was decided *)

\* An attempt's grant answers for it only if engine and log have that grant.
LEMMA GrantBacks ==
  ASSUME Inv, Books, sink = "journal", NEW a \in Attempts,
         mem.attempts[a].grant # 0,
         GrantAnswer(mem.grants[mem.attempts[a].grant]) \in Authorising
  PROVE  Backs(mem, disk, a)
<1>. DEFINE g == mem.attempts[a].grant
<1>1. /\ mem.grants \in [GrantIds -> Grant] /\ mem.attempts \in [Attempts -> Attempt]
      /\ Covers(disk, mem)
  BY EngineFields DEF Inv, CoreInv
<1>2. g \in GrantIds
  BY <1>1 DEF Attempt
<1>3. EngineGood(mem, Told) /\ Linked(mem, disk)
  BY DEF Books, Tables, Good
<1>4. mem.grants[g].state # "Absent" /\ mem.grants[g].attempt = a
  BY <1>3 DEF EngineGood, Booked, Faithful
<1>5. mem.grants[g].state # "Prepared"
  BY <1>2, <1>3 DEF EngineGood, Minted
<1>6. mem.grants[g].state \in GrantStates
  BY <1>1, <1>2 DEF Grant
<1>7. mem.grants[g].state \in {"Committed", "Acknowledged"}
  BY <1>4, <1>5, <1>6 DEF GrantAnswer, Authorising, GrantStates, IsQuarantined
<1>8. HoldsCapacity(disk.grants[g].state)
  BY <1>1, <1>2, <1>7 DEF Covers, Covered, HoldsCapacity
<1>9. disk.grants[g].attempt = a
  BY <1>2, <1>3, <1>4 DEF Linked, SameIdentity
<1>10. Shows(disk, a, g)
  BY <1>8, <1>9 DEF Shows, Issued, HoldsCapacity, IsQuarantined
<1>. HIDE DEF g
<1>. QED BY <1>2, <1>4, <1>10 DEF Backs

LEMMA TellsBooks ==
  ASSUME Inv, Books, up, NEW attempt \in Attempts, NEW outcome,
         sink = "journal" /\ outcome \in Authorising => Backs(mem, disk, attempt),
         Tells(attempt, outcome)
  PROVE  Books' /\ StepKeeps
<1>1. /\ UNCHANGED <<up, sink, mem, disk, used, starts, acks>>
      /\ answered' = [answered EXCEPT ![attempt] = outcome]
  BY DEF Tells
<1>2. Tables'
  <2>1. Told' = Told
    BY <1>1 DEF Told
  <2>. QED BY <1>1, <2>1
       DEF Books, Tables, Good, ImageGood, InStep, Full
<1>3. Words'
  <2>1. SUFFICES ASSUME Options.attaches
                 PROVE  /\ sink' # "memory" /\ Durable(answered', disk')
                        /\ Backed(answered', mem', disk')
    BY DEF Words
  <2>2. sink = "journal" /\ Backed(answered, mem, disk)
    BY <2>1 DEF Books, Words, Inv, CoreInv
  <2>3. answered \in [Attempts -> Outcomes \cup {None}]
    BY DEF Inv, HistoryOK
  <2>4. ASSUME NEW a \in Attempts, answered'[a] \in Authorising
        PROVE  Backs(mem, disk, a)
    <3>1. CASE a = attempt
      BY <1>1, <2>2, <2>3, <2>4, <3>1
    <3>2. CASE a # attempt
      BY <1>1, <2>2, <2>3, <2>4, <3>2 DEF Backed
    <3>. QED BY <3>1, <3>2
  <2>5. Backed(answered', mem, disk) /\ Durable(answered', disk)
    BY <2>4 DEF Backed, Durable, Backs
  <2>. QED BY <1>1, <2>2, <2>5
<1>. QED BY <1>1, <1>2, <1>3, StepSame DEF Books

\* resolve: a record that was never cancelled has a grant, which speaks for it.
LEMMA ResolveBooks ==
  ASSUME Inv, Books, NEW attempt \in Attempts, Resolve(attempt)
  PROVE  Books' /\ StepKeeps
<1>1. up /\ Tells(attempt, ResolveOutcome(attempt))
  BY DEF Resolve
<1>2. ASSUME sink = "journal", ResolveOutcome(attempt) \in Authorising
      PROVE  Backs(mem, disk, attempt)
  <2>1. /\ mem.attempts[attempt].known /\ ~mem.attempts[attempt].cancelled
    BY <1>2 DEF ResolveOutcome, Authorising
  <2>2. Faithful(mem.grants, mem.attempts[attempt], attempt)
    BY DEF Books, Tables, Good, EngineGood, Booked
  <2>3. /\ mem.attempts[attempt].grant # 0
        /\ mem.grants[mem.attempts[attempt].grant].state # "Absent"
    BY <2>1, <2>2 DEF Faithful
  <2>4. GrantAnswer(mem.grants[mem.attempts[attempt].grant]) \in Authorising
    BY <1>2, <2>1, <2>3 DEF ResolveOutcome, Authorising
  <2>. QED BY <1>2, <2>3, <2>4, GrantBacks
<1>. QED BY <1>1, <1>2, TellsBooks

LEMMA ReplayBooks ==
  ASSUME Inv, Books, NEW request \in Requests, NEW view, Replay(request, view)
  PROVE  Books' /\ StepKeeps
<1>. DEFINE a == request.attempt
<1>1. /\ up /\ mem.attempts[a].known
      /\ Tells(a, ReplayOutcome(request, view))
  BY DEF Replay
<1>2. a \in Attempts
  BY CoreAssumption DEF Request
<1>3. ASSUME sink = "journal", ReplayOutcome(request, view) \in Authorising
      PROVE  Backs(mem, disk, a)
  <2>. DEFINE granted == /\ mem.attempts[a].grant # 0
                         /\ mem.grants[mem.attempts[a].grant].state # "Absent"
              plain == IF mem.attempts[a].cancelled THEN "Cancelled"
                       ELSE IF mem.attempts[a].released THEN "Refused"
                       ELSE IF granted THEN GrantAnswer(mem.grants[mem.attempts[a].grant])
                       ELSE mem.attempts[a].outcome
  <2>1. plain \in Authorising
    <3>1. ReplayOutcome(request, view) \in {"Indeterminate", "Conflicting", plain}
      <4>. DEFINE zero == mem.attempts[a].digest = None
                  held == granted /\ IsQuarantined(mem.grants[mem.attempts[a].grant].state)
                  other == mem.attempts[a].digest
                             \notin {None, [request |-> request, view |-> view]}
      <4>1. ReplayOutcome(request, view) =
              CASE zero /\ held -> "Indeterminate"
                [] zero /\ ~held -> "Conflicting"
                [] other -> "Conflicting"
                [] OTHER -> plain
        BY DEF ReplayOutcome
      <4>2. zero => ~other
        OBVIOUS
      <4>. HIDE DEF zero, held, other, plain
      <4>. QED BY <4>1, <4>2
    <3>. QED BY <1>3, <3>1 DEF Authorising
  <2>2. ~mem.attempts[a].cancelled
    BY <2>1 DEF Authorising
  <2>3. Faithful(mem.grants, mem.attempts[a], a)
    BY <1>2 DEF Books, Tables, Good, EngineGood, Booked
  <2>4. granted
    BY <1>1, <2>2, <2>3 DEF Faithful
  <2>5. GrantAnswer(mem.grants[mem.attempts[a].grant]) \in Authorising
    BY <2>1, <2>4 DEF Authorising
  <2>. QED BY <1>2, <1>3, <2>4, <2>5, GrantBacks
<1>. HIDE DEF a
<1>. QED BY <1>1, <1>2, <1>3, TellsBooks

LEMMA RefuseBooks ==
  ASSUME Inv, Books, NEW request \in Requests, NEW view, Refuse(request, view)
  PROVE  Books' /\ StepKeeps
<1>. DEFINE a == request.attempt
<1>1. /\ up /\ Decision(request).outcome \notin Authorising
      /\ Tells(a, Decision(request).outcome)
  BY DEF Refuse
<1>2. a \in Attempts
  BY CoreAssumption DEF Request
<1>. HIDE DEF a
<1>. QED BY <1>1, <1>2, TellsBooks

-------------------------------------------------------------------------------
(* Starting and stopping *)

LEMMA ReachedFull ==
  ASSUME CoreInv, NEW S, NEW points \in Seq(S), Len(points) >= 1,
         Reached(points, TRUE) # Len(points)
  PROVE  JournalBound # 0 /\ Recorded(Reached(points, TRUE)) >= JournalBound
<1>1. JournalBound \in Nat /\ used \in 0..JournalBound /\ Len(points) \in Nat
  BY CoreAssumption DEF CoreInv
<1>2. JournalBound # 0
  BY DEF Reached
<1>. DEFINE k == Len(points)
<1>3. Reached(points, TRUE) = Least(k, 1 + JournalBound - used)
  BY <1>1, <1>2 DEF Reached, Least
<1>4. \A u \in 0..JournalBound : \A len \in Nat :
        len >= 1 /\ Least(len, 1 + JournalBound - u) # len =>
          u + Least(len, 1 + JournalBound - u) - 1 >= JournalBound
  BY <1>1 DEF Least
<1>. HIDE DEF k
<1>5. used + Least(k, 1 + JournalBound - used) - 1 >= JournalBound
  BY <1>1, <1>3, <1>4 DEF k
<1>. QED BY <1>2, <1>3, <1>5 DEF Recorded

\* What a point of a start makes of the log.
Opens(point) ==
  /\ ImageGood(point.disk, Told)
  /\ ~point.disk.spec.bound => point.disk = EmptyImage
  /\ KeepsIdentity(point.disk)
  /\ KeepsQuarantine(point.disk)
  /\ TableSuffices => Ledgered(disk.grants, point.disk.grants)

\* The engine rules from the log it has left, and has every grant that was issued.
Rules(point) ==
  /\ Linked(point.mem, point.disk)
  /\ point.disk.spec = point.mem.spec /\ point.disk.contracts = point.mem.contracts
  /\ \A g \in GrantIds : Issued(disk.grants[g].state) =>
       /\ point.mem.grants[g].state # "Absent"
       /\ point.mem.grants[g].attempt = disk.grants[g].attempt

LEMMA StartsBooks ==
  ASSUME Inv, Books, NEW S, NEW points \in Seq(S), Len(points) >= 1,
         NEW records \in BOOLEAN, Options.attaches => records, Starts(points, records),
         records => \A k \in 1..Len(points) : Opens(points[k]),
         NEW n, n = Reached(points, records),
         EngineGood(points[n].mem, Told),
         records => Rules(points[n]),
         records /\ n = Len(points) /\ Intact(points[n].disk) =>
           Matched(points[n].mem, points[n].disk)
  PROVE  Books' /\ StepKeeps
<1>0. PICK told : told = Told
  OBVIOUS
<1>1. n \in 1..Len(points)
  BY ReachedType DEF Inv, CoreInv
<1>2. ~up /\ UNCHANGED acks
  BY DEF Starts
<1>3. told = Told'
  BY <1>0, <1>2 DEF Told
<1>4. ASSUME NEW k \in 1..n, Persists(points, k, records)
      PROVE  /\ ImageGood(disk', told)
             /\ ~disk'.spec.bound => disk' = EmptyImage
             /\ StepKeeps
             /\ Options.attaches => Durable(answered, disk')
             /\ records => disk' = points[k].disk /\ used' = Recorded(k)
             /\ ~records => disk' = disk
  <2>1. k \in 1..Len(points)
    BY <1>1
  <2>2. CASE records
    <3>1. disk' = points[k].disk /\ used' = Recorded(k)
      BY <1>4, <2>2 DEF Persists
    <3>2. Opens(points[k])
      BY <2>1, <2>2
    <3>3. /\ ImageGood(disk', told) /\ (~disk'.spec.bound => disk' = EmptyImage)
          /\ KeepsIdentity(disk') /\ StepKeeps
      BY <1>0, <3>1, <3>2 DEF Opens, StepKeeps, KeepsIdentity, KeepsQuarantine
    <3>4. Options.attaches => Durable(answered, disk')
      BY <3>3, DurableOn DEF Books, Words
    <3>. QED BY <2>2, <3>1, <3>3, <3>4
  <2>3. CASE ~records
    <3>1. disk' = disk
      BY <1>4, <2>3 DEF Persists
    <3>2. ImageGood(disk', told) /\ (~disk'.spec.bound => disk' = EmptyImage)
      BY <1>0, <3>1 DEF Books, Tables
    <3>. QED BY <2>3, <3>1, <3>2, StepSame
  <2>. QED BY <2>2, <2>3
<1>5. CASE /\ up' = TRUE
           /\ sink' = IF records THEN "journal" ELSE "memory"
           /\ mem' = points[n].mem
           /\ Persists(points, n, records)
           /\ UNCHANGED <<answered, acks>>
  <2>1. n \in 1..n
    BY <1>1
  <2>2. /\ ImageGood(disk', told)
        /\ ~disk'.spec.bound => disk' = EmptyImage
        /\ StepKeeps
        /\ Options.attaches => Durable(answered, disk')
        /\ records => disk' = points[n].disk /\ used' = Recorded(n)
    BY <1>4, <1>5, <2>1
  <2>3. EngineGood(mem', told)
    BY <1>0, <1>5
  <2>4. sink' = "journal" => records
    BY <1>5
  <2>5. sink' = "journal" =>
          /\ Linked(mem', disk') /\ disk'.spec = mem'.spec
          /\ disk'.contracts = mem'.contracts
    BY <1>5, <2>2, <2>4 DEF Rules
  <2>6. Good(mem, disk, Told)' /\ ImageGood(disk, Told)'
    BY <1>3, <2>2, <2>3, <2>5 DEF Good, ImageGood
  <2>7. InStep(mem, disk)' \/ Full(used)'
    <3>1. CASE ~records
      BY <2>4, <3>1 DEF InStep
    <3>2. CASE records /\ n = Len(points)
      BY <1>5, <2>2, <3>2 DEF InStep
    <3>3. CASE records /\ n # Len(points)
      <4>1. JournalBound # 0 /\ Recorded(Reached(points, TRUE)) >= JournalBound
        BY <3>3, ReachedFull DEF Inv
      <4>2. used' >= JournalBound /\ sink' = "journal"
        BY <1>5, <2>2, <3>3, <4>1
      <4>. QED BY <4>1, <4>2 DEF Full
    <3>. QED BY <3>1, <3>2, <3>3
  <2>8. Words'
    <3>1. SUFFICES ASSUME Options.attaches
                   PROVE  /\ sink' # "memory" /\ Durable(answered', disk')
                          /\ Backed(answered', mem', disk')
      BY DEF Words
    <3>2. records /\ answered' = answered /\ disk' = points[n].disk
      BY <1>5, <2>2, <3>1
    <3>3. KeepsIdentity(points[n].disk) /\ Rules(points[n]) /\ Durable(answered, disk)
      BY <1>1, <3>1, <3>2 DEF Opens, Books, Words
    <3>4. ASSUME NEW a \in Attempts, answered[a] \in Authorising
          PROVE  Backs(mem', disk', a)
      <4>1. PICK g \in GrantIds : Shows(disk, a, g)
        BY <3>3, <3>4 DEF Durable
      <4>2. Shows(disk', a, g)
        BY <3>2, <3>3, <4>1 DEF Shows, KeepsIdentity, SameIdentity
      <4>3. mem'.grants[g].state # "Absent" /\ mem'.grants[g].attempt = a
        BY <1>5, <3>3, <4>1 DEF Shows, Rules
      <4>. QED BY <4>2, <4>3 DEF Backs
    <3>. QED BY <1>5, <2>2, <3>1, <3>2, <3>4 DEF Backed
  <2>. QED BY <2>2, <2>6, <2>7, <2>8 DEF Books, Tables
<1>6. CASE /\ \E k \in 1..n : Persists(points, k, records)
           /\ Falls
  <2>1. PICK k \in 1..n : Persists(points, k, records)
    BY <1>6
  <2>2. /\ ImageGood(disk', told) /\ StepKeeps
        /\ ~disk'.spec.bound => disk' = EmptyImage
        /\ Options.attaches => Durable(answered, disk')
    BY <1>4, <2>1
  <2>. QED BY <1>3, <1>6, <2>2, FallsBooks
<1>. QED BY <1>5, <1>6 DEF Starts

LEMMA StopBooks ==
  ASSUME Inv, Books, Stop
  PROVE  Books' /\ StepKeeps
<1>1. up /\ Falls /\ disk' = disk /\ UNCHANGED acks
  BY DEF Stop
<1>2. PICK told : told = Told
  OBVIOUS
<1>3. told = Told'
  BY <1>1, <1>2 DEF Told
<1>4. /\ ImageGood(disk', told) /\ (~disk'.spec.bound => disk' = EmptyImage)
      /\ Options.attaches => Durable(answered, disk')
  BY <1>1, <1>2 DEF Books, Tables, Words
<1>. QED BY <1>1, <1>3, <1>4, FallsBooks, StepSame

\* Tables without grants and attempts are in order.
LEMMA EmptyGood ==
  ASSUME NEW image, image.grants = NoGrants, image.attempts = NoAttempts,
         image.tick \in Nat, NEW told
  PROVE  ImageGood(image, told)
<1>1. EngineGood(NoEngine, told)
  BY NoEngineGood
<1>2. NoEngine.grants = NoGrants /\ NoEngine.attempts = NoAttempts
  BY DEF NoEngine
<1>3. Booked(NoGrants, NoAttempts) /\ Heard(NoGrants, told)
  BY <1>1, <1>2 DEF EngineGood
<1>4. InReach(NoGrants, image.tick)
  <2>1. Options.maxLease \in Nat
    BY EligibilityAssumption
  <2>2. 0 <= image.tick + Options.maxLease
    BY <2>1
  <2>3. \A g \in GrantIds : NoGrants[g].expiry = 0
    BY DEF NoGrants, NoGrant
  <2>. QED BY <2>2, <2>3 DEF InReach
<1>. QED BY <1>3, <1>4 DEF ImageGood

LEMMA InitBooks == ASSUME Init PROVE Books
<1>1. /\ disk \in Image /\ disk.grants = NoGrants /\ disk.attempts = NoAttempts
      /\ ~disk.spec.bound => disk = EmptyImage
      /\ mem = NoEngine /\ sink = "none"
  BY CoreAssumption DEF Init
<1>2. disk.tick \in Nat
  BY <1>1, ImageFields
<1>3. ImageGood(disk, Told)
  BY <1>1, <1>2, EmptyGood
<1>4. EngineGood(mem, Told)
  BY <1>1, NoEngineGood
<1>5. Good(mem, disk, Told) /\ InStep(mem, disk)
  BY <1>1, <1>4 DEF Good, InStep
<1>6. Words
  <2>1. \A a \in Attempts : answered[a] = None
    BY DEF Init
  <2>. QED BY <1>1, <2>1, NoneSaysNothing DEF Words, Durable
<1>. QED BY <1>1, <1>3, <1>5, <1>6 DEF Books, Tables

\* A log without a controller is empty, and an engine that starts on it has nothing.
LEMMA InitializeBooks ==
  ASSUME Inv, Books, Initialize
  PROVE  Books' /\ StepKeeps
<1>. DEFINE spec  == [UnboundSpec EXCEPT !.bound = TRUE, !.policy = 1]
            ruled == [UnboundSpec EXCEPT !.bound = TRUE, !.policy = 1,
                                         !.generation = 1, !.epoch = 1]
            bound == [EmptyImage EXCEPT !.spec = spec, !.tick = 1]
            last  == WriteEpoch(bound, 1)
            p1 == Point(NoEngine, disk, None)
            p2 == Point(NoEngine, bound, None)
            p3 == Point(Fresh, last, None)
            points == << p1, p2, p3 >>
<1>1. disk = EmptyImage /\ disk \in Image /\ starts \in Nat
  BY CoreAssumption DEF Initialize, Books, Tables, Inv, CoreInv
<1>2. /\ EmptyImage.grants = NoGrants /\ EmptyImage.attempts = NoAttempts
      /\ EmptyImage.tick = 0 /\ EmptyImage.contracts = EmptyTable(ContractIds)
      /\ EmptyImage.spec = UnboundSpec
  BY DEF EmptyImage
<1>3. Greatest(0, 1) = 1 /\ Greatest(1, 1) = 1 /\ 0 + 1 = 1
  BY DEF Greatest
<1>4. /\ EmptyImage \in Image /\ UnboundSpec \in ClusterSpecs
      /\ UnboundSpec.epoch = 0 /\ UnboundSpec.generation = 0
  <2>1. UnboundSpec \in ClusterSpecs
    BY <1>1, <1>2, ImageFields
  <2>2. UnboundSpec.epoch = 0 /\ UnboundSpec.generation = 0
    BY DEF UnboundSpec
  <2>. QED BY <1>1, <2>1, <2>2
<1>5. /\ spec \in ClusterSpecs /\ spec.bound /\ spec.epoch = 0 /\ spec.generation = 0
      /\ EpochBegun(spec) = ruled /\ ruled \in ClusterSpecs /\ ruled.bound
  <2>1. spec \in ClusterSpecs /\ ruled \in ClusterSpecs
    BY <1>4 DEF ClusterSpecs
  <2>2. spec.bound /\ spec.epoch = 0 /\ spec.generation = 0 /\ ruled.bound
    BY <1>4 DEF ClusterSpecs
  <2>3. EpochBegun(spec) = [spec EXCEPT !.epoch = 1, !.generation = 1]
    BY <1>3, <2>2 DEF EpochBegun
  <2>4. [spec EXCEPT !.epoch = 1, !.generation = 1] = ruled
    BY <1>4 DEF ClusterSpecs
  <2>. QED BY <2>1, <2>2, <2>3, <2>4
<1>. HIDE DEF spec, ruled
<1>6. /\ bound \in Image /\ bound.grants = NoGrants /\ bound.attempts = NoAttempts
      /\ bound.tick = 1 /\ bound.spec = spec
      /\ bound.contracts = EmptyTable(ContractIds)
  <2>1. bound \in Image
    BY <1>4, <1>5 DEF Image
  <2>. QED BY <1>2, <1>4, <2>1 DEF Image
<1>7. /\ last.grants = NoGrants /\ last.attempts = NoAttempts /\ last.tick = 1
      /\ last.spec = ruled /\ last.contracts = EmptyTable(ContractIds)
  <2>1. last = [bound EXCEPT !.spec = ruled, !.tick = 1]
    <3>1. last = [bound EXCEPT !.spec = EpochBegun(bound.spec),
                               !.tick = Greatest(bound.tick, 1)]
      BY <1>6 DEF WriteEpoch, Image
    <3>. QED BY <1>3, <1>5, <1>6, <3>1
  <2>. HIDE DEF bound
  <2>. QED BY <1>6, <2>1 DEF Image
<1>8. /\ Fresh.grants = NoGrants /\ Fresh.attempts = NoAttempts /\ Fresh.tick = 1
      /\ Fresh.serial = 0 /\ Fresh.contracts = EmptyTable(ContractIds)
      /\ Fresh.spec = ruled
  <2>. DEFINE incarnation == starts + 1
  <2>1. Fresh = [NoEngine EXCEPT !.spec = ruled, !.tick = 1, !.incarnation = incarnation]
    BY DEF Fresh, ruled
  <2>2. NoEngine \in Engine
    BY NoEngineType
  <2>3. /\ Fresh.grants = NoEngine.grants /\ Fresh.attempts = NoEngine.attempts
        /\ Fresh.tick = 1 /\ Fresh.serial = NoEngine.serial
        /\ Fresh.contracts = NoEngine.contracts /\ Fresh.spec = ruled
    BY <2>1, <2>2 DEF Engine
  <2>. QED BY <2>3 DEF NoEngine
<1>9. InitializePoints = points
  <2>1. [disk EXCEPT !.spec = [UnboundSpec EXCEPT !.bound = TRUE, !.policy = 1],
                     !.tick = Greatest(@, 1)] = bound
    BY <1>1, <1>2, <1>3, <1>4 DEF spec, Image
  <2>. QED BY <2>1 DEF InitializePoints
<1>. HIDE DEF bound, last
<1>10. /\ p1.disk = disk /\ p2.disk = bound /\ p3.disk = last /\ p3.mem = Fresh
  BY DEF Point
<1>. HIDE DEF p1, p2, p3
<1>11. /\ Len(points) = 3 /\ points[1] = p1 /\ points[2] = p2 /\ points[3] = p3
       /\ points \in Seq({p1, p2, p3})
  <2>1. \A x, y, z : <<x, y, z>> \in Seq({x, y, z})
    OBVIOUS
  <2>. QED BY <2>1
<1>. HIDE DEF points
<1>12. ASSUME NEW point, point.disk.grants = NoGrants, point.disk.attempts = NoAttempts,
              point.disk.tick \in Nat,
              point.disk.spec.bound \/ point.disk = EmptyImage
       PROVE  Opens(point)
  <2>1. ImageGood(point.disk, Told)
    BY <1>12, EmptyGood
  <2>2. disk.grants = point.disk.grants
    BY <1>1, <1>2, <1>12
  <2>3. \A g \in GrantIds : NoGrants[g].state = "Absent"
    BY DEF NoGrants, NoGrant
  <2>4. KeepsIdentity(point.disk) /\ KeepsQuarantine(point.disk)
    BY <1>1, <1>2, <2>3 DEF KeepsIdentity, KeepsQuarantine, Issued, IsQuarantined
  <2>5. Ledgered(disk.grants, point.disk.grants)
    BY <2>2, SameLedger
  <2>. QED BY <1>12, <2>1, <2>4, <2>5 DEF Opens
<1>13. Fresh.spec.bound
  BY <1>5, <1>8
<1>14. Opens(p1) /\ Opens(p2) /\ Opens(p3)
  BY <1>1, <1>2, <1>5, <1>6, <1>7, <1>10, <1>12, <1>13
<1>15. \A k \in 1..Len(points) : Opens(points[k])
  BY <1>11, <1>14
<1>16. EngineGood(Fresh, Told)
  <2>1. EngineGood(NoEngine, Told)
    BY NoEngineGood
  <2>2. /\ NoEngine.grants = NoGrants /\ NoEngine.attempts = NoAttempts
        /\ NoEngine.serial = 0
    BY DEF NoEngine
  <2>3. ImageGood(last, Told)
    BY <1>7, EmptyGood
  <2>4. Recent(Fresh, Told)
    BY <1>8 DEF Recent, NoGrants, NoGrant, IsLive
  <2>5. InReach(Fresh.grants, Fresh.tick)
    BY <1>7, <1>8, <2>3 DEF ImageGood
  <2>6. Minted(Fresh)
    BY <1>8, <2>1, <2>2 DEF EngineGood, Minted
  <2>. QED BY <1>8, <2>1, <2>2, <2>4, <2>5, <2>6 DEF EngineGood
<1>17. Rules(p3) /\ Matched(Fresh, last)
  <2>1. \A g \in GrantIds : NoGrants[g].state = "Absent"
    BY DEF NoGrants, NoGrant
  <2>2. Linked(Fresh, last) /\ Matched(Fresh, last)
    BY <1>7, <1>8, <2>1 DEF Linked, Matched, Issued, IsQuarantined, IsTerminal
  <2>3. \A g \in GrantIds : disk.grants[g].state = "Absent"
    BY <1>1, <1>2, <2>1
  <2>. QED BY <1>7, <1>8, <1>10, <2>2, <2>3 DEF Rules, Issued
<1>18. Reached(points, TRUE) = 3 /\ Starts(points, TRUE) /\ TRUE \in BOOLEAN
  BY <1>9 DEF Initialize
<1>19. /\ points[3].mem = Fresh /\ points[3].disk = last /\ Len(points) >= 1
       /\ Rules(points[3])
  BY <1>10, <1>11, <1>17
<1>. QED BY <1>11, <1>15, <1>16, <1>17, <1>18, <1>19, StartsBooks

-------------------------------------------------------------------------------
(* Recovering *)

\* The engine recovery starts from.
Resumes(engine) ==
  /\ engine \in Engine
  /\ engine.grants = disk.grants /\ engine.attempts = disk.attempts
  /\ engine.spec = EpochBegun(disk.spec) /\ engine.contracts = disk.contracts
  /\ engine.tick = disk.tick + 1 /\ engine.spec.bound
  /\ \A g \in GrantIds : g > engine.serial => engine.grants[g].state = "Absent"

\* What recovery makes of a live grant.
Recovery(engine, g) ==
  IF g \in Settles(engine) THEN Settled(engine.grants[g])
  ELSE Revalidated(engine, engine.grants[g])

\* The grants whose records are among so many of recovery's, and those whose
\* attempts' are.
Logs(engine, records) == {g \in Live(engine.grants) : AppendOf(engine, g) <= records}

Notes(engine, records) ==
  {g \in Settles(engine) : AppendOf(engine, g) < records}
    \cup {g \in Orphans(engine) : RepairOf(engine, g) <= records}

LEMMA RecoveredResumes ==
  ASSUME disk \in Image, disk.spec.bound, starts \in Nat
  PROVE  Resumes(Recovered)
<1>1. /\ Recovered \in Engine /\ Recovered.grants = disk.grants /\ Recovered.spec.bound
      /\ \A g \in GrantIds :
           g > Recovered.serial => Recovered.grants[g].state = "Absent"
  BY RecoveredType
<1>2. /\ Recovered.attempts = disk.attempts /\ Recovered.contracts = disk.contracts
      /\ Recovered.spec = EpochBegun(disk.spec) /\ Recovered.tick = disk.tick + 1
  BY DEF Recovered
<1>. QED BY <1>1, <1>2 DEF Resumes

LEMMA SettledFields ==
  ASSUME NEW grant \in Grant
  PROVE  /\ SameIdentity(grant, Settled(grant))
         /\ Settled(grant).acked = grant.acked
         /\ Settled(grant).expiry = grant.expiry
<1>1. CASE grant.commit = "Prepared"
  <2>1. Settled(grant) = [grant EXCEPT !.state = "Released"]
    BY <1>1 DEF Settled, Terminated
  <2>. QED BY <2>1 DEF Grant, SameIdentity
<1>2. CASE grant.commit # "Prepared"
  <2>1. Settled(grant) = [grant EXCEPT !.state = "Ambiguous", !.commit = "Ambiguous"]
    BY <1>2 DEF Settled
  <2>. QED BY <2>1 DEF Grant, SameIdentity
<1>. QED BY <1>1, <1>2

LEMMA RecoveryRow ==
  ASSUME NEW engine \in Engine, NEW g \in Live(engine.grants), Logged(engine.grants[g])
  PROVE  LET old == engine.grants[g]
             new == Recovery(engine, g)
         IN  /\ new \in Grant
             /\ Kept(old, new)
             /\ new.expiry = old.expiry
             /\ Acknowledged(new) => Acknowledged(old)
             /\ IsLive(new.state) => Acknowledged(old)
             /\ Settlement(old, new)
             /\ new.state # "Prepared"
<1>. DEFINE old == engine.grants[g]
            new == Recovery(engine, g)
<1>1. g \in GrantIds /\ old \in Grant /\ IsLive(old.state)
  BY EngineFields DEF Live
<1>2. Standing(old.state) /\ ~IsQuarantined(old.state) /\ ~IsTerminal(old.state)
  BY <1>1 DEF Standing, IsLive, IsTerminal, IsQuarantined
<1>3. /\ old.state = "Prepared" => old.commit = "Prepared"
      /\ HoldsCapacity(old.state) => old.commit # "Prepared"
  BY DEF Logged
<1>4. CASE g \in Settles(engine)
  <2>1. new = Settled(old)
    BY <1>4 DEF Recovery
  <2>2. /\ new \in Grant
        /\ old.commit = "Prepared" => new.state = "Released"
        /\ old.commit # "Prepared" => new.state = "Ambiguous"
        /\ SameIdentity(old, new) /\ new.acked = old.acked /\ new.expiry = old.expiry
    BY <1>1, <2>1, SettledType, SettledFields
  <2>. HIDE DEF old, new
  <2>3. /\ Kept(old, new) /\ ~IsLive(new.state) /\ new.state # "Prepared"
        /\ Acknowledged(new) => Acknowledged(old)
    BY <1>2, <2>2 DEF Kept, Issued, IsLive, Acknowledged
  <2>4. Settlement(old, new)
    <3>1. CASE old.commit = "Prepared"
      <4>1. old.state = "Prepared" /\ new.state = "Released"
        BY <1>1, <1>3, <2>2, <3>1 DEF IsLive, HoldsCapacity
      <4>. QED BY <2>2, <4>1, StatusOf DEF Settlement, IsTerminal, SameIdentity
    <3>2. CASE old.commit # "Prepared"
      <4>1. old.state \in {"Committed", "Acknowledged"} /\ new.state = "Ambiguous"
        BY <1>1, <1>3, <2>2, <3>2 DEF IsLive
      <4>. QED BY <2>2, <4>1, StatusOf DEF Settlement, IsQuarantined, SameIdentity
    <3>. QED BY <3>1, <3>2
  <2>. QED BY <2>2, <2>3, <2>4 DEF old, new
<1>5. CASE g \notin Settles(engine)
  <2>1. new = Revalidated(engine, old)
    BY <1>5 DEF Recovery
  <2>2. old.commit # "Prepared" /\ Acknowledged(old)
    BY <1>5 DEF Settles, Reissues
  <2>3. /\ new \in Grant
        /\ new.state \in {"Committed", "Revoked"}
    BY <1>1, <2>1, RevalidatedType
  <2>4. SameIdentity(old, new) /\ new.expiry = old.expiry
    BY <1>1, <2>1, RevalidatedFields
  <2>. HIDE DEF old, new
  <2>5. Kept(old, new) /\ new.state # "Prepared"
    BY <1>2, <2>3, <2>4 DEF Kept, Issued
  <2>6. Settlement(old, new)
    <3>1. old.state \in {"Committed", "Acknowledged"}
      BY <1>1, <1>3, <2>2 DEF IsLive
    <3>. QED BY <2>3, <2>4, <3>1, StatusOf
         DEF Settlement, IsTerminal, SameIdentity, SameEntry
  <2>. QED BY <2>2, <2>3, <2>4, <2>5, <2>6 DEF old, new
<1>. QED BY <1>4, <1>5

\* Records that name their grants are booked along with them.
LEMMA MendedBooked ==
  ASSUME NEW old \in [GrantIds -> Grant], NEW attempts \in [Attempts -> Attempt],
         NEW rows, NEW records, NEW ids \in SUBSET GrantIds,
         Booked(old, attempts),
         \A g \in GrantIds : rows[g] = old[g] \/ Kept(old[g], rows[g]),
         \A a \in Attempts : (\A g \in ids : old[g].attempt # a) =>
           records[a] = attempts[a],
         \A g \in ids :
           /\ old[g].state # "Absent"
           /\ records[old[g].attempt].known
           /\ records[old[g].attempt].grant = g
           /\ Standing(rows[g].state) => Speaks(records[old[g].attempt], g)
  PROVE  Booked(rows, records)
<1>1. Booked(rows, attempts)
  <2>1. \A a \in Attempts : attempts[a].grant \in GrantIds \cup {0}
    BY DEF Attempt
  <2>. QED BY <2>1, BookedRows
<1>2. \A g \in GrantIds :
        /\ rows[g].attempt = old[g].attempt
        /\ old[g].state # "Absent" => rows[g].state # "Absent"
        /\ Standing(rows[g].state) => old[g].state # "Absent"
  BY DEF Kept, SameIdentity, Issued, Standing
<1>3. ASSUME NEW a \in Attempts PROVE Faithful(rows, records[a], a)
  <2>1. CASE \A g \in ids : old[g].attempt # a
    BY <1>1, <2>1 DEF Booked
  <2>2. CASE \E g \in ids : old[g].attempt = a
    <3>1. PICK g \in ids : old[g].attempt = a
      BY <2>2
    <3>2. records[a].known /\ records[a].grant = g
      BY <3>1
    <3>3. g \in GrantIds /\ g # 0
      BY <3>1, EligibilityAssumption, CoreAssumption
    <3>4. rows[g].state # "Absent" /\ rows[g].attempt = a
      BY <1>2, <3>1, <3>3
    <3>. QED BY <3>2, <3>3, <3>4 DEF Faithful
  <2>. QED BY <2>1, <2>2
<1>4. ASSUME NEW g \in GrantIds, Standing(rows[g].state)
      PROVE  Speaks(records[rows[g].attempt], g)
  <2>1. CASE g \in ids
    BY <1>2, <1>4, <2>1
  <2>2. CASE g \notin ids
    <3>1. old[g].state # "Absent" /\ rows[g].attempt = old[g].attempt
      BY <1>2, <1>4
    <3>2. old[g].attempt \in Attempts
      BY <3>1 DEF Booked, Filled, Grant
    <3>3. \A h \in ids : old[h].attempt # old[g].attempt
      BY <2>2, <3>1 DEF Booked, Single
    <3>4. records[old[g].attempt] = attempts[old[g].attempt]
      BY <3>2, <3>3
    <3>. QED BY <1>1, <1>4, <3>1, <3>4 DEF Booked
  <2>. QED BY <2>1, <2>2
<1>. QED BY <1>1, <1>3, <1>4 DEF Booked

\* What so many of recovery's records make of engine and log.
Resumed(engine, records, next, written) ==
  /\ next \in Engine /\ written \in Image
  /\ next.spec = engine.spec /\ next.contracts = engine.contracts
  /\ next.tick = engine.tick /\ next.serial = engine.serial
  /\ written.spec = EpochBegun(disk.spec) /\ written.contracts = disk.contracts
  /\ written.tick >= disk.tick
  /\ \A g \in GrantIds :
       next.grants[g] = IF g \in Logs(engine, records) \cup Settles(engine)
                        THEN Recovery(engine, g) ELSE disk.grants[g]
  /\ \A g \in GrantIds :
       written.grants[g] = IF g \in Logs(engine, records) THEN Recovery(engine, g)
                           ELSE disk.grants[g]
  /\ \A a \in Attempts :
       next.attempts[a] =
         IF a \in AttemptsOf(disk.grants, Orphans(engine))
         THEN Repaired(next.grants, GrantOf(disk.grants, Orphans(engine), a))
         ELSE SettledAttempts(engine)[a]
  /\ \A a \in Attempts :
       written.attempts[a] =
         IF a \in AttemptsOf(disk.grants, Notes(engine, records)) THEN next.attempts[a]
         ELSE disk.attempts[a]

LEMMA RecoverResumed ==
  ASSUME disk \in Image, NEW engine, Resumes(engine), NEW records
  PROVE  LET point == RecoverPoint(engine, records)
         IN  Resumed(engine, records, point.mem, point.disk)
<1>. DEFINE live     == Live(engine.grants)
            recorded == {g \in live : AppendOf(engine, g) <= records}
            rows     == [g \in GrantIds |->
                           IF g \in Settles(engine) THEN Settled(engine.grants[g])
                           ELSE Revalidated(engine, engine.grants[g])]
            grants   == Rewritten(engine.grants, recorded \cup Settles(engine), rows)
            settled  == SettledAttempts(engine)
            orphans  == Orphans(engine)
            attempts == [a \in Attempts |->
                           IF a \in AttemptsOf(engine.grants, orphans)
                           THEN Repaired(grants, GrantOf(engine.grants, orphans, a))
                           ELSE settled[a]]
            noted    == {g \in Settles(engine) : AppendOf(engine, g) < records}
                          \cup {g \in orphans : RepairOf(engine, g) <= records}
            next     == [engine EXCEPT !.grants = grants, !.attempts = attempts]
            begun    == WriteEpoch(disk, engine.tick)
            middle   == WriteGrants(begun, recorded, rows, engine.tick)
            written  == WriteAttempts(middle, AttemptsOf(engine.grants, noted), attempts,
                                      engine.tick)
<1>1. /\ engine \in Engine
      /\ engine.grants \in [GrantIds -> Grant] /\ engine.tick \in Nat
      /\ engine.grants = disk.grants /\ engine.contracts = disk.contracts
  BY EngineFields DEF Resumes
<1>2. /\ live \in SUBSET GrantIds /\ recorded \in SUBSET GrantIds
      /\ orphans \in SUBSET GrantIds
      /\ recorded = Logs(engine, records) /\ noted = Notes(engine, records)
  BY DEF Live, Orphans, Present, Logs, Notes
<1>3. RecoverPoint(engine, records) = Point(next, written, None)
  BY DEF RecoverPoint
<1>4. /\ rows \in [GrantIds -> Grant]
      /\ \A g \in GrantIds : rows[g] = Recovery(engine, g)
  BY <1>1, SettledType, RevalidatedType DEF Recovery
<1>5. /\ grants \in [GrantIds -> Grant]
      /\ \A g \in GrantIds :
           grants[g] = IF g \in recorded \cup Settles(engine) THEN rows[g]
                       ELSE engine.grants[g]
  <2>. HIDE DEF rows, recorded
  <2>. QED BY <1>1, <1>4 DEF Rewritten
<1>. HIDE DEF rows, grants, noted, recorded, live
<1>6. /\ attempts \in [Attempts -> Attempt]
      /\ \A a \in Attempts :
           attempts[a] = IF a \in AttemptsOf(disk.grants, Orphans(engine))
                         THEN Repaired(grants, GrantOf(disk.grants, Orphans(engine), a))
                         ELSE SettledAttempts(engine)[a]
  <2>1. settled \in [Attempts -> Attempt]
    BY <1>1, SettledAttemptsType
  <2>2. ASSUME NEW a \in Attempts, a \in AttemptsOf(engine.grants, orphans)
        PROVE  Repaired(grants, GrantOf(engine.grants, orphans, a)) \in Attempt
    <3>1. \E g \in orphans : engine.grants[g].attempt = a
      BY <2>2 DEF AttemptsOf
    <3>2. GrantOf(engine.grants, orphans, a) \in GrantIds
      BY <1>2, <3>1 DEF GrantOf
    <3>. QED BY <1>5, <3>2, RepairedType
  <2>3. attempts \in [Attempts -> Attempt]
    <3>. HIDE DEF orphans, settled
    <3>. QED BY <2>1, <2>2
  <2>. QED BY <1>1, <2>3
<1>. HIDE DEF attempts, orphans
<1>7. /\ next \in Engine /\ next.grants = grants /\ next.attempts = attempts
      /\ next.serial = engine.serial /\ next.spec = engine.spec
      /\ next.contracts = engine.contracts /\ next.tick = engine.tick
  BY <1>1, <1>5, <1>6 DEF Engine
<1>8. /\ begun \in Image /\ begun.grants = disk.grants /\ begun.attempts = disk.attempts
      /\ begun.spec = EpochBegun(disk.spec) /\ begun.contracts = disk.contracts
      /\ begun.tick >= disk.tick
  <2>. DEFINE spec == EpochBegun(disk.spec)
              tick == Greatest(disk.tick, engine.tick)
  <2>1. begun \in Image /\ begun.grants = disk.grants /\ begun.attempts = disk.attempts
    BY <1>1, WriteEpochType
  <2>2. begun = [disk EXCEPT !.spec = spec, !.tick = tick]
    BY DEF WriteEpoch, Image
  <2>3. tick >= disk.tick
    BY <1>1, ImageFields DEF Greatest
  <2>. HIDE DEF spec, tick, begun
  <2>4. begun.spec = spec /\ begun.contracts = disk.contracts /\ begun.tick = tick
    BY <2>2 DEF Image
  <2>. QED BY <2>1, <2>3, <2>4 DEF spec
<1>. HIDE DEF begun
<1>9. Wrote(begun, middle, recorded, rows, engine.tick)
  <2>1. /\ begun \in Image /\ recorded \in SUBSET GrantIds
        /\ rows \in [GrantIds -> Grant] /\ engine.tick \in Nat
    BY <1>1, <1>2, <1>4, <1>8
  <2>. QED BY <2>1, GrantsWritten
<1>. HIDE DEF middle, next
<1>10. Noted(middle, written, AttemptsOf(engine.grants, noted), attempts)
  <2>. DEFINE ids == AttemptsOf(engine.grants, noted)
  <2>1. middle \in Image /\ engine.tick \in Nat
    BY <1>1, <1>9 DEF Wrote
  <2>2. \A a \in Attempts : a \in ids => attempts[a] \in Attempt
    BY <1>6
  <2>. HIDE DEF ids
  <2>3. Noted(middle, WriteAttempts(middle, ids, attempts, engine.tick), ids, attempts)
    BY <2>1, <2>2, AttemptsWritten
  <2>. QED BY <2>3 DEF ids
<1>. HIDE DEF written
<1>11. written.tick >= disk.tick
  <2>1. /\ disk.tick \in Nat /\ begun.tick \in Nat /\ middle.tick \in Nat
        /\ written.tick \in Nat
    BY <1>8, <1>9, <1>10, ImageFields DEF Wrote, Noted
  <2>2. middle.tick >= begun.tick /\ written.tick >= middle.tick
    BY <1>9, <1>10 DEF Wrote, Noted
  <2>3. \A k, l, m, n \in Nat : l >= k /\ m >= l /\ n >= m => n >= k
    OBVIOUS
  <2>. QED BY <1>8, <2>1, <2>2, <2>3
<1>12. Resumed(engine, records, next, written)
  <2>1. \A g \in GrantIds :
          next.grants[g] = IF g \in Logs(engine, records) \cup Settles(engine)
                           THEN Recovery(engine, g) ELSE disk.grants[g]
    BY <1>1, <1>2, <1>4, <1>5, <1>7
  <2>2. \A g \in GrantIds :
          written.grants[g] = IF g \in Logs(engine, records) THEN Recovery(engine, g)
                              ELSE disk.grants[g]
    BY <1>2, <1>4, <1>8, <1>9, <1>10 DEF Wrote, Noted
  <2>3. \A a \in Attempts :
          written.attempts[a] =
            IF a \in AttemptsOf(disk.grants, Notes(engine, records)) THEN next.attempts[a]
            ELSE disk.attempts[a]
    BY <1>1, <1>2, <1>7, <1>8, <1>9, <1>10 DEF Wrote, Noted
  <2>4. \A a \in Attempts :
          next.attempts[a] =
            IF a \in AttemptsOf(disk.grants, Orphans(engine))
            THEN Repaired(next.grants, GrantOf(disk.grants, Orphans(engine), a))
            ELSE SettledAttempts(engine)[a]
    BY <1>6, <1>7
  <2>5. /\ written \in Image /\ written.spec = EpochBegun(disk.spec)
        /\ written.contracts = disk.contracts
    BY <1>8, <1>9, <1>10 DEF Wrote, Noted
  <2>. QED BY <1>7, <1>11, <2>1, <2>2, <2>3, <2>4, <2>5 DEF Resumed
<1>13. /\ Point(next, written, None).mem = next
       /\ Point(next, written, None).disk = written
  BY DEF Point
<1>. QED BY <1>3, <1>12, <1>13

LEMMA RecoveryRecords ==
  ASSUME disk \in Image, Booked(disk.grants, disk.attempts), NEW engine, Resumes(engine),
         NEW records, NEW next, NEW written, Resumed(engine, records, next, written)
  PROVE  /\ \A g \in Settles(engine) :
              LET old == disk.attempts[disk.grants[g].attempt]
                  new == next.attempts[disk.grants[g].attempt]
              IN  /\ new.known /\ new.grant = g
                  /\ new.released = old.released /\ new.cancelled = old.cancelled
         /\ \A g \in Orphans(engine) :
              LET new == next.attempts[disk.grants[g].attempt]
              IN  /\ new.known /\ new.grant = g /\ ~new.cancelled
                  /\ new.released <=> next.grants[g].state \in {"Released", "Prepared"}
         /\ \A a \in Attempts :
              (\A g \in Settles(engine) \cup Orphans(engine) : disk.grants[g].attempt # a)
              => next.attempts[a] = disk.attempts[a]
<1>. DEFINE settles == Settles(engine)
            orphans == Orphans(engine)
            owner(g) == disk.grants[g].attempt
<1>1. /\ engine \in Engine /\ engine.grants = disk.grants
      /\ engine.attempts = disk.attempts
      /\ disk.grants \in [GrantIds -> Grant] /\ disk.attempts \in [Attempts -> Attempt]
  BY ImageFields DEF Resumes
<1>2. ASSUME NEW g \in settles \cup orphans
      PROVE  g \in GrantIds /\ disk.grants[g].state # "Absent"
  BY <1>1 DEF Settles, Live, IsLive, Orphans, Present
<1>3. ASSUME NEW g \in settles \cup orphans PROVE owner(g) \in Attempts /\ owner(g) # None
  <2>1. owner(g) # None
    BY <1>2 DEF Booked, Filled
  <2>. QED BY <1>1, <1>2, <2>1 DEF Grant
<1>4. \A g, h \in settles \cup orphans : owner(g) = owner(h) => g = h
  BY <1>2 DEF Booked, Single
<1>5. settles \cap orphans = {} /\ settles \in SUBSET GrantIds
  BY <1>2 DEF Orphans
<1>6. ASSUME NEW ids \in SUBSET (settles \cup orphans), NEW g \in ids
      PROVE  GrantOf(disk.grants, ids, owner(g)) = g
  BY <1>4 DEF GrantOf
<1>7. ASSUME NEW ids \in SUBSET (settles \cup orphans), NEW a
      PROVE  a \in AttemptsOf(disk.grants, ids) <=> \E g \in ids : owner(g) = a
  BY <1>3 DEF AttemptsOf
<1>. DEFINE rebound == Rebound(engine, settles)
            answer(a) == GrantAnswer(Settled(engine.grants[rebound[a].grant]))
<1>8. ASSUME NEW a \in Attempts
      PROVE  SettledAttempts(engine)[a] =
               IF a \in AttemptsOf(disk.grants, settles)
               THEN [rebound[a] EXCEPT !.outcome = answer(a)] ELSE rebound[a]
  BY <1>1 DEF SettledAttempts
<1>9. ASSUME NEW a \in Attempts
      PROVE  rebound[a] = IF a \in AttemptsOf(disk.grants, settles)
                          THEN [disk.attempts[a] EXCEPT
                                  !.known = TRUE,
                                  !.grant = GrantOf(disk.grants, settles, a)]
                          ELSE disk.attempts[a]
  BY <1>1 DEF Rebound
<1>10. ASSUME NEW a \in Attempts
       PROVE  next.attempts[a] =
                IF a \in AttemptsOf(disk.grants, orphans)
                THEN Repaired(next.grants, GrantOf(disk.grants, orphans, a))
                ELSE SettledAttempts(engine)[a]
  BY DEF Resumed
<1>. HIDE DEF rebound, answer, settles, orphans
<1>11. ASSUME NEW g \in settles
       PROVE  LET old == disk.attempts[owner(g)]
                  new == next.attempts[owner(g)]
              IN  /\ new.known /\ new.grant = g
                  /\ new.released = old.released /\ new.cancelled = old.cancelled
  <2>1. owner(g) \in Attempts
    BY <1>3
  <2>2. owner(g) \in AttemptsOf(disk.grants, settles)
    BY <1>7
  <2>3. owner(g) \notin AttemptsOf(disk.grants, orphans)
    <3>1. \A h \in orphans : owner(h) # owner(g)
      BY <1>4, <1>5
    <3>. QED BY <1>7, <3>1
  <2>4. GrantOf(disk.grants, settles, owner(g)) = g
    BY <1>6
  <2>5. rebound[owner(g)] = [disk.attempts[owner(g)] EXCEPT !.known = TRUE, !.grant = g]
    BY <1>9, <2>1, <2>2, <2>4
  <2>6. next.attempts[owner(g)] = [rebound[owner(g)] EXCEPT !.outcome = answer(owner(g))]
    BY <1>8, <1>10, <2>1, <2>2, <2>3
  <2>. DEFINE a == owner(g)
              o == answer(a)
              old == disk.attempts[a]
  <2>7. next.attempts[a] = [[old EXCEPT !.known = TRUE, !.grant = g] EXCEPT !.outcome = o]
    BY <2>5, <2>6
  <2>8. old \in Attempt
    BY <1>1, <2>1
  <2>. HIDE DEF a, o, old
  <2>9. /\ next.attempts[a].known /\ next.attempts[a].grant = g
        /\ next.attempts[a].released = old.released
        /\ next.attempts[a].cancelled = old.cancelled
    BY <2>7, <2>8 DEF Attempt
  <2>. QED BY <2>9 DEF a, old
<1>12. ASSUME NEW g \in orphans
       PROVE  LET new == next.attempts[owner(g)]
              IN  /\ new.known /\ new.grant = g /\ ~new.cancelled
                  /\ new.released <=> next.grants[g].state \in {"Released", "Prepared"}
  <2>1. owner(g) \in Attempts /\ owner(g) \in AttemptsOf(disk.grants, orphans)
    BY <1>3, <1>7
  <2>2. GrantOf(disk.grants, orphans, owner(g)) = g
    BY <1>6
  <2>3. next.attempts[owner(g)] = Repaired(next.grants, g)
    BY <1>10, <2>1, <2>2
  <2>. DEFINE answered0 == GrantAnswer(next.grants[g])
              released == next.grants[g].state \in {"Released", "Prepared"}
              new == [NoAttempt EXCEPT !.known = TRUE, !.grant = g, !.outcome = answered0,
                                       !.released = released]
  <2>4. Repaired(next.grants, g) = new
    BY DEF Repaired
  <2>. HIDE DEF answered0, released
  <2>5. new.known /\ new.grant = g /\ ~new.cancelled /\ new.released = released
    BY DEF NoAttempt
  <2>. HIDE DEF new
  <2>. QED BY <2>3, <2>4, <2>5 DEF released
<1>13. ASSUME NEW a \in Attempts,
              \A g \in settles \cup orphans : owner(g) # a
       PROVE  next.attempts[a] = disk.attempts[a]
  <2>1. a \notin AttemptsOf(disk.grants, settles) /\ a \notin AttemptsOf(disk.grants, orphans)
    BY <1>7, <1>13
  <2>. QED BY <1>8, <1>9, <1>10, <2>1
<1>. QED BY <1>11, <1>12, <1>13 DEF settles, orphans

\* However many of its records fit, recovery leaves books in order.
LEMMA RecoverPointBooks ==
  ASSUME Inv, Books, disk.spec.bound, disk.replays, NEW engine, Resumes(engine),
         NEW records
  PROVE  LET point == RecoverPoint(engine, records)
         IN  Opens(point) /\ Rules(point) /\ EngineGood(point.mem, Told)
<1>. DEFINE point == RecoverPoint(engine, records)
            next == point.mem
            written == point.disk
            settles == Settles(engine)
            orphans == Orphans(engine)
            notes == Notes(engine, records)
            logs == Logs(engine, records)
            owner(g) == disk.grants[g].attempt
<1>1. /\ disk \in Image /\ ImageOK(disk)
      /\ disk.grants \in [GrantIds -> Grant] /\ disk.attempts \in [Attempts -> Attempt]
      /\ disk.tick \in Nat
      /\ engine \in Engine /\ engine.grants = disk.grants
      /\ engine.attempts = disk.attempts /\ engine.tick = disk.tick + 1
  BY ImageFields DEF Inv, CoreInv, Resumes
<1>2. /\ Booked(disk.grants, disk.attempts) /\ Heard(disk.grants, Told)
      /\ InReach(disk.grants, disk.tick)
  BY DEF Books, Tables, ImageGood, Intact
<1>3. Resumed(engine, records, next, written)
  BY <1>1, RecoverResumed
<1>4. Covers(written, next)
  BY <1>1, RecoverPointSafe DEF Resumes
<1>. HIDE DEF point
<1>5. /\ settles \in SUBSET Live(disk.grants) /\ logs \in SUBSET Live(disk.grants)
      /\ orphans \in SUBSET GrantIds /\ notes \in SUBSET (settles \cup orphans)
      /\ \A g \in orphans : g \notin settles /\ disk.grants[g].state # "Absent"
      /\ \A g \in Live(disk.grants) : g \in GrantIds /\ IsLive(disk.grants[g].state)
  BY <1>1 DEF Settles, Logs, Notes, Orphans, Present, Live
<1>6. /\ \A g \in GrantIds :
           next.grants[g] = IF g \in logs \cup settles THEN Recovery(engine, g)
                            ELSE disk.grants[g]
      /\ \A g \in GrantIds :
           written.grants[g] = IF g \in logs THEN Recovery(engine, g) ELSE disk.grants[g]
  BY <1>3 DEF Resumed
<1>7. ASSUME NEW g \in Live(disk.grants)
      PROVE  LET old == disk.grants[g]
                 new == Recovery(engine, g)
             IN  /\ Kept(old, new)
                 /\ new.expiry = old.expiry
                 /\ Acknowledged(new) => Acknowledged(old)
                 /\ IsLive(new.state) => Acknowledged(old)
                 /\ Settlement(old, new)
  <2>1. g \in Live(engine.grants) /\ Logged(engine.grants[g])
    BY <1>1, <1>5 DEF ImageOK
  <2>. QED BY <1>1, <2>1, RecoveryRow
<1>8. \A g \in GrantIds : /\ next.grants[g] = disk.grants[g]
                             \/ Kept(disk.grants[g], next.grants[g])
                          /\ written.grants[g] = disk.grants[g]
                             \/ Kept(disk.grants[g], written.grants[g])
  BY <1>5, <1>6, <1>7
<1>9. \A g \in GrantIds : /\ next.grants[g].expiry = disk.grants[g].expiry
                          /\ written.grants[g].expiry = disk.grants[g].expiry
                          /\ Acknowledged(next.grants[g]) => Acknowledged(disk.grants[g])
                          /\ Acknowledged(written.grants[g]) => Acknowledged(disk.grants[g])
                          /\ Settlement(disk.grants[g], written.grants[g])
  BY <1>5, <1>6, <1>7 DEF Settlement, SameEntry
<1>. HIDE DEF settles, orphans, notes, logs
<1>10. ASSUME NEW g \in settles \cup orphans
       PROVE  /\ g \in GrantIds /\ disk.grants[g].state # "Absent"
              /\ owner(g) \in Attempts /\ owner(g) # None
  <2>1. g \in GrantIds /\ disk.grants[g].state # "Absent"
    BY <1>5 DEF IsLive
  <2>2. owner(g) # None
    BY <1>2, <2>1, Zenon DEF Booked, Filled
  <2>. QED BY <1>1, <2>1, <2>2 DEF Grant
<1>11. /\ \A g \in settles :
            LET old == disk.attempts[owner(g)]
                new == next.attempts[owner(g)]
            IN  /\ new.known /\ new.grant = g
                /\ new.released = old.released /\ new.cancelled = old.cancelled
       /\ \A g \in orphans :
            LET new == next.attempts[owner(g)]
            IN  /\ new.known /\ new.grant = g /\ ~new.cancelled
                /\ new.released <=> next.grants[g].state \in {"Released", "Prepared"}
       /\ \A a \in Attempts :
            (\A g \in settles \cup orphans : owner(g) # a)
            => next.attempts[a] = disk.attempts[a]
  <2>. HIDE DEF next, written
  <2>1. /\ disk \in Image /\ Booked(disk.grants, disk.attempts) /\ Resumes(engine)
        /\ Resumed(engine, records, next, written)
    BY <1>1, <1>2, <1>3
  <2>. QED BY <2>1, RecoveryRecords DEF settles, orphans, owner
<1>12. ASSUME NEW g \in settles PROVE Speaks(next.attempts[owner(g)], g)
  <2>. DEFINE old == disk.attempts[owner(g)]
  <2>1. g \in GrantIds /\ Standing(disk.grants[g].state) /\ owner(g) \in Attempts
    BY <1>5, <1>10 DEF Standing, IsLive, IsTerminal
  <2>2. Speaks(old, g) /\ Faithful(disk.grants, old, owner(g))
    BY <1>2, <2>1 DEF Booked
  <2>3. ~NoAttempt.released /\ ~NoAttempt.cancelled
    BY DEF NoAttempt
  <2>4. ~old.released /\ (old.cancelled => Mixed)
    BY <2>2, <2>3 DEF Speaks, Faithful
  <2>. HIDE DEF old
  <2>5. /\ next.attempts[owner(g)].grant = g
        /\ next.attempts[owner(g)].released = old.released
        /\ next.attempts[owner(g)].cancelled = old.cancelled
    BY <1>11 DEF old
  <2>. QED BY <2>4, <2>5 DEF Speaks
<1>13. ASSUME NEW g \in orphans, Standing(next.grants[g].state)
       PROVE  Speaks(next.attempts[owner(g)], g)
  <2>1. next.grants[g].state # "Prepared"
    BY <1>4, <1>10 DEF Covers, Covered
  <2>2. next.grants[g].state # "Released"
    BY <1>13 DEF Standing, IsTerminal
  <2>. QED BY <1>11, <2>1, <2>2 DEF Speaks
<1>14. Booked(next.grants, next.attempts)
  <2>. DEFINE ids == settles \cup orphans
  <2>1. ids \in SUBSET GrantIds
    BY <1>10
  <2>2. \A g \in ids :
          /\ disk.grants[g].state # "Absent"
          /\ next.attempts[owner(g)].known /\ next.attempts[owner(g)].grant = g
          /\ Standing(next.grants[g].state) => Speaks(next.attempts[owner(g)], g)
    BY <1>10, <1>11, <1>12, <1>13
  <2>3. \A a \in Attempts : (\A g \in ids : owner(g) # a) =>
          next.attempts[a] = disk.attempts[a]
    BY <1>11
  <2>4. \A g \in GrantIds : next.grants[g] = disk.grants[g]
                              \/ Kept(disk.grants[g], next.grants[g])
    BY <1>8
  <2>5. Booked(disk.grants, disk.attempts)
    BY <1>2
  <2>. HIDE DEF ids, next
  <2>. QED BY <1>1, <2>1, <2>2, <2>3, <2>4, <2>5, MendedBooked
<1>15. Booked(written.grants, written.attempts)
  <2>1. notes \in SUBSET GrantIds
    BY <1>5, <1>10
  <2>2. \A a \in Attempts :
          written.attempts[a] = IF a \in AttemptsOf(disk.grants, notes)
                                THEN next.attempts[a] ELSE disk.attempts[a]
    BY <1>3 DEF Resumed, notes
  <2>3. ASSUME NEW g \in notes
        PROVE  /\ disk.grants[g].state # "Absent"
               /\ written.attempts[owner(g)].known /\ written.attempts[owner(g)].grant = g
               /\ Standing(written.grants[g].state) =>
                    Speaks(written.attempts[owner(g)], g)
    <3>1. g \in settles \cup orphans
      BY <1>5
    <3>2. /\ g \in GrantIds /\ disk.grants[g].state # "Absent"
          /\ owner(g) \in Attempts /\ owner(g) # None
      BY <1>10, <3>1
    <3>3. owner(g) \in AttemptsOf(disk.grants, notes)
      BY <3>2 DEF AttemptsOf
    <3>4. written.attempts[owner(g)] = next.attempts[owner(g)]
      BY <2>2, <3>2, <3>3
    <3>5. g \in orphans => written.grants[g] = next.grants[g]
      BY <1>5, <1>6, <3>2
    <3>6. next.attempts[owner(g)].known /\ next.attempts[owner(g)].grant = g
      BY <1>11, <3>1
    <3>7. Standing(written.grants[g].state) => Speaks(next.attempts[owner(g)], g)
      <4>1. CASE g \in settles
        BY <1>12, <4>1
      <4>2. CASE g \in orphans
        <5>1. written.grants[g].state = next.grants[g].state
          BY <3>5, <4>2
        <5>. HIDE DEF next, written
        <5>. QED BY <1>13, <4>2, <5>1
      <4>. QED BY <3>1, <4>1, <4>2
    <3>. QED BY <3>2, <3>4, <3>6, <3>7
  <2>4. \A a \in Attempts : (\A g \in notes : owner(g) # a) =>
          written.attempts[a] = disk.attempts[a]
    BY <2>2 DEF AttemptsOf
  <2>5. \A g \in GrantIds : written.grants[g] = disk.grants[g]
                              \/ Kept(disk.grants[g], written.grants[g])
    BY <1>8
  <2>6. Booked(disk.grants, disk.attempts)
    BY <1>2
  <2>. HIDE DEF written
  <2>. QED BY <1>1, <2>1, <2>3, <2>4, <2>5, <2>6, MendedBooked
<1>16. Complete(next.grants, next.attempts)
  <2>1. SUFFICES ASSUME NEW g \in GrantIds, next.grants[g].state # "Absent"
                 PROVE  next.attempts[next.grants[g].attempt].known
    BY DEF Complete
  <2>2. disk.grants[g].state # "Absent" /\ next.grants[g].attempt = owner(g)
    BY <1>8, <2>1, Zenon DEF Kept, Standing, SameIdentity
  <2>3. CASE g \in settles \cup orphans
    BY <1>11, <2>2, <2>3
  <2>4. CASE g \notin settles \cup orphans
    <3>1. owner(g) \in Known(disk.attempts) \cup {None}
      BY <1>1, <2>2, <2>4 DEF settles, orphans, Orphans, Present
    <3>2. owner(g) # None
      BY <1>2, <2>2 DEF Booked, Filled
    <3>3. owner(g) \in Attempts /\ disk.attempts[owner(g)].known
      BY <3>1, <3>2 DEF Known
    <3>4. \A h \in settles \cup orphans : owner(h) # owner(g)
      BY <1>2, <1>10, <2>2, <2>4 DEF Booked, Single
    <3>5. next.attempts[owner(g)] = disk.attempts[owner(g)]
      BY <1>11, <3>3, <3>4
    <3>. QED BY <2>2, <3>3, <3>5
  <2>. QED BY <2>3, <2>4
<1>17. Minted(next)
  BY <1>4 DEF Covers, Covered, Minted
<1>18. Heard(next.grants, Told) /\ Heard(written.grants, Told)
  BY <1>2, <1>9 DEF Heard
<1>19. Recent(next, Told)
  <2>1. SUFFICES ASSUME NEW g \in GrantIds, IsLive(next.grants[g].state)
                 PROVE  g \in Told
    BY DEF Recent
  <2>2. CASE g \in logs \cup settles
    BY <1>2, <1>5, <1>6, <1>7, <2>1, <2>2 DEF Heard
  <2>3. CASE g \notin logs \cup settles
    <3>1. g \in Live(engine.grants) \ settles
      BY <1>1, <1>6, <2>1, <2>3 DEF Live
    <3>2. Acknowledged(disk.grants[g])
      BY <1>1, <3>1 DEF settles, Settles, Reissues
    <3>. QED BY <1>2, <3>2 DEF Heard
  <2>. QED BY <2>2, <2>3
<1>20. InReach(next.grants, next.tick) /\ InReach(written.grants, written.tick)
  <2>1. /\ next.tick \in Nat /\ written.tick \in Nat
        /\ next.tick >= disk.tick /\ written.tick >= disk.tick
    BY <1>1, <1>3, EngineFields, ImageFields DEF Resumed
  <2>. QED BY <1>1, <1>2, <1>9, <2>1, ReachRows
<1>21. EngineGood(next, Told) /\ ImageGood(written, Told)
  BY <1>14, <1>15, <1>16, <1>17, <1>18, <1>19, <1>20 DEF EngineGood, ImageGood
<1>22. Linked(next, written)
  <2>1. \A g \in GrantIds :
          /\ next.grants[g].state # "Absent" <=> disk.grants[g].state # "Absent"
          /\ written.grants[g].state # "Absent" <=> disk.grants[g].state # "Absent"
          /\ SameIdentity(next.grants[g], written.grants[g])
    BY <1>8 DEF Kept, Standing, Issued, SameIdentity
  <2>2. \A g \in GrantIds : IsQuarantined(written.grants[g].state) =>
          IsQuarantined(next.grants[g].state)
    <3>1. \A g \in Live(disk.grants) : ~IsQuarantined(disk.grants[g].state)
      BY <1>5 DEF IsLive, IsQuarantined
    <3>. QED BY <1>5, <1>6, <3>1
  <2>. QED BY <2>1, <2>2 DEF Linked, Issued
<1>23. Rules(point)
  <2>1. written.spec = next.spec /\ written.contracts = next.contracts
    BY <1>3 DEF Resumed, Resumes
  <2>2. \A g \in GrantIds : Issued(disk.grants[g].state) =>
          next.grants[g].state # "Absent" /\ next.grants[g].attempt = disk.grants[g].attempt
    BY <1>8 DEF Kept, Issued, SameIdentity
  <2>. QED BY <1>22, <2>1, <2>2 DEF Rules
<1>24. Opens(point)
  <2>1. written.spec.bound
    BY <1>4 DEF Covers
  <2>2. KeepsIdentity(written)
    BY <1>8 DEF KeepsIdentity, Kept, SameIdentity
  <2>3. KeepsQuarantine(written)
    <3>1. \A g \in GrantIds : IsQuarantined(disk.grants[g].state) =>
            written.grants[g] = disk.grants[g]
      BY <1>5, <1>6 DEF IsLive, IsQuarantined
    <3>. QED BY <3>1 DEF KeepsQuarantine
  <2>4. Ledgered(disk.grants, written.grants)
    BY <1>9 DEF Ledgered, Settlements
  <2>. QED BY <1>21, <2>1, <2>2, <2>3, <2>4 DEF Opens
<1>. QED BY <1>21, <1>23, <1>24 DEF point

LEMMA CountPart ==
  ASSUME NEW ids \in SUBSET GrantIds, NEW part \in SUBSET ids
  PROVE  /\ Cardinality(part) \in Nat /\ Cardinality(ids) \in Nat
         /\ Cardinality(part) <= Cardinality(ids)
         /\ part # ids => Cardinality(part) < Cardinality(ids)
<1>1. Cardinality(part) \in Nat /\ Cardinality(ids) \in Nat /\ IsFiniteSet(ids)
  BY CountType, EligibilityAssumption, FS_Subset
<1>2. /\ Cardinality(part) <= Cardinality(ids)
      /\ Cardinality(ids) = Cardinality(part) => ids = part
  BY <1>1, FS_Subset
<1>. QED BY <1>1, <1>2

\* Recovery whose records all fit has recorded all it decided.
LEMMA RecordsEnough ==
  ASSUME NEW engine, NEW records, records = RepairOf(engine, Cardinality(GrantIds))
  PROVE  /\ records \in Nat
         /\ Logs(engine, records) = Live(engine.grants)
         /\ Notes(engine, records) = Settles(engine) \cup Orphans(engine)
<1>. DEFINE live == Live(engine.grants)
            settles == Settles(engine)
            orphans == Orphans(engine)
            k == Cardinality(live)
            m == Cardinality(settles)
            kept(g) == {h \in live : h <= g}
            before(g) == {h \in settles : h < g}
            through(g) == {h \in orphans : h <= g}
            last == Cardinality(GrantIds)
<1>1. /\ live \in SUBSET GrantIds /\ settles \in SUBSET live /\ orphans \in SUBSET GrantIds
      /\ settles \in SUBSET GrantIds
  BY DEF Live, Settles, Orphans, Present
<1>2. /\ \A g \in GrantIds : g \in Nat /\ g <= last
      /\ last \in Nat
  BY CoreAssumption, CountType
<1>3. \A g : /\ AppendOf(engine, g) = 1 + Cardinality(kept(g)) + Cardinality(before(g))
             /\ RepairOf(engine, g) = 1 + k + m + Cardinality(through(g))
  BY DEF AppendOf, RepairOf
<1>. HIDE DEF live, settles, orphans, last
<1>4. \A g : /\ kept(g) \in SUBSET live /\ before(g) \in SUBSET settles
             /\ through(g) \in SUBSET orphans
             /\ through(g) \in SUBSET GrantIds /\ before(g) \in SUBSET GrantIds
             /\ kept(g) \in SUBSET GrantIds
  BY <1>1
<1>5. \A g \in settles : before(g) # settles
  BY <1>1, <1>2
<1>6. \A g \in GrantIds : through(g) \in SUBSET through(last)
  BY <1>1, <1>2
<1>. HIDE DEF kept, before, through
<1>7. /\ k \in Nat /\ m \in Nat
      /\ \A g : Cardinality(kept(g)) \in Nat /\ Cardinality(kept(g)) <= k
  BY <1>1, <1>4, CountPart
<1>8. /\ \A g : /\ Cardinality(before(g)) \in Nat /\ Cardinality(before(g)) <= m
                /\ Cardinality(through(g)) \in Nat
      /\ \A g \in settles : Cardinality(before(g)) < m
  <2>1. \A g : Cardinality(before(g)) \in Nat /\ Cardinality(before(g)) <= m
    BY <1>1, <1>4, CountPart
  <2>2. \A g : Cardinality(through(g)) \in Nat
    BY <1>1, <1>4, CountPart
  <2>3. \A g \in settles : Cardinality(before(g)) < m
    BY <1>1, <1>4, <1>5, CountPart
  <2>. QED BY <2>1, <2>2, <2>3
<1>9. \A g \in GrantIds : Cardinality(through(g)) <= Cardinality(through(last))
  BY <1>4, <1>6, CountPart
<1>10. records = 1 + k + m + Cardinality(through(last))
  BY <1>3 DEF last
<1>. HIDE DEF k, m
<1>11. /\ \A a, b, c, d, e \in Nat :
            /\ a <= c /\ b <= d => 1 + a + b <= 1 + c + d + e
            /\ a <= c /\ b < d => 1 + a + b < 1 + c + d + e
            /\ a <= b => 1 + c + d + a <= 1 + c + d + b
            /\ 1 + c + d + e \in Nat
  OBVIOUS
<1>12. /\ records \in Nat
       /\ \A g \in live : AppendOf(engine, g) <= records
       /\ \A g \in settles : AppendOf(engine, g) < records
       /\ \A g \in orphans : RepairOf(engine, g) <= records
  <2>1. records \in Nat
    BY <1>7, <1>8, <1>10, <1>11
  <2>2. ASSUME NEW g \in live PROVE AppendOf(engine, g) <= records
    BY <1>3, <1>7, <1>8, <1>10, <1>11
  <2>3. ASSUME NEW g \in settles PROVE AppendOf(engine, g) < records
    BY <1>3, <1>7, <1>8, <1>10, <1>11
  <2>4. ASSUME NEW g \in orphans PROVE RepairOf(engine, g) <= records
    <3>1. Cardinality(through(g)) <= Cardinality(through(last))
      BY <1>1, <1>9
    <3>. QED BY <1>3, <1>7, <1>8, <1>10, <1>11, <3>1
  <2>. QED BY <2>1, <2>2, <2>3, <2>4
<1>. QED BY <1>12 DEF Logs, Notes, live, settles, orphans

LEMMA RecoverEnds ==
  ASSUME Inv, Books, disk.replays, NEW engine, Resumes(engine),
         NEW records, records = RepairOf(engine, Cardinality(GrantIds))
  PROVE  LET point == RecoverPoint(engine, records)
         IN  Matched(point.mem, point.disk)
<1>. DEFINE point == RecoverPoint(engine, records)
            next == point.mem
            written == point.disk
<1>1. /\ disk \in Image /\ engine.grants = disk.grants
      /\ Booked(disk.grants, disk.attempts)
  BY DEF Inv, CoreInv, Resumes, Books, Tables, ImageGood, Intact
<1>2. Resumed(engine, records, next, written)
  BY <1>1, RecoverResumed
<1>. HIDE DEF point
<1>3. /\ Logs(engine, records) = Live(disk.grants)
      /\ Notes(engine, records) = Settles(engine) \cup Orphans(engine)
      /\ Settles(engine) \subseteq Live(disk.grants)
  BY <1>1, RecordsEnough DEF Settles
<1>4. \A g \in GrantIds : next.grants[g] = written.grants[g]
  BY <1>2, <1>3 DEF Resumed
<1>5. \A a \in Attempts : (\A g \in Settles(engine) \cup Orphans(engine) :
                             disk.grants[g].attempt # a)
        => next.attempts[a] = disk.attempts[a]
  BY <1>1, <1>2, RecoveryRecords
<1>6. \A g \in Settles(engine) \cup Orphans(engine) : disk.grants[g].attempt # None
  <2>1. ASSUME NEW g \in Settles(engine) \cup Orphans(engine)
        PROVE  g \in GrantIds /\ disk.grants[g].state # "Absent"
    BY <1>1 DEF Settles, Live, IsLive, Orphans, Present
  <2>. QED BY <1>1, <2>1 DEF Booked, Filled
<1>7. ASSUME NEW a \in Attempts PROVE written.attempts[a] = next.attempts[a]
  <2>1. CASE a \in AttemptsOf(disk.grants, Notes(engine, records))
    BY <1>2, <2>1 DEF Resumed
  <2>2. CASE a \notin AttemptsOf(disk.grants, Notes(engine, records))
    <3>1. \A g \in Settles(engine) \cup Orphans(engine) : disk.grants[g].attempt # a
      BY <1>3, <1>6, <2>2 DEF AttemptsOf
    <3>. QED BY <1>2, <1>5, <2>2, <3>1 DEF Resumed
  <2>. QED BY <2>1, <2>2
<1>8. written.attempts = next.attempts
  <2>1. /\ written.attempts \in [Attempts -> Attempt]
        /\ next.attempts \in [Attempts -> Attempt]
    BY <1>2, EngineFields, ImageFields DEF Resumed
  <2>. QED BY <1>7, <2>1
<1>9. Matched(next, written)
  BY <1>4, <1>8 DEF Matched
<1>. QED BY <1>9 DEF point

LEMMA RecoverBooks ==
  ASSUME Inv, Books, Recover
  PROVE  Books' /\ StepKeeps
<1>. DEFINE engine  == Recovered
            records == RepairOf(engine, Cardinality(GrantIds))
            first   == Point(NoEngine, disk, None)
            point(k) == IF k = 1 THEN first ELSE RecoverPoint(engine, k - 1)
            points  == RecoverPoints(engine)
            n       == Reached(points, Options.attaches)
<1>1. /\ disk \in Image /\ disk.spec.bound /\ disk.replays /\ starts \in Nat
      /\ n > 1 /\ Starts(points, Options.attaches) /\ Options.attaches \in BOOLEAN
  BY CoreAssumption, EligibilityAssumption DEF Inv, CoreInv, Recover
<1>2. Resumes(engine)
  BY <1>1, RecoveredResumes
<1>3. points = [k \in 1..records + 1 |-> point(k)]
  BY DEF RecoverPoints
<1>. HIDE DEF engine
<1>4. records \in Nat
  BY RecordsEnough
<1>5. Matched(RecoverPoint(engine, records).mem, RecoverPoint(engine, records).disk)
  BY <1>1, <1>2, RecoverEnds
<1>. HIDE DEF records
<1>6. \A k : LET p == RecoverPoint(engine, k)
             IN  Opens(p) /\ Rules(p) /\ EngineGood(p.mem, Told)
  BY <1>1, <1>2, RecoverPointBooks
<1>7. Opens(first)
  <2>1. first.disk = disk
    BY DEF Point
  <2>2. KeepsIdentity(disk) /\ KeepsQuarantine(disk) /\ Ledgered(disk.grants, disk.grants)
    BY SameLedger DEF KeepsIdentity, KeepsQuarantine, SameIdentity
  <2>. HIDE DEF first
  <2>. QED BY <2>1, <2>2 DEF Opens, Books, Tables
<1>. HIDE DEF first
<1>8. PICK S : \A k \in 1..records + 1 : point(k) \in S
  <2>1. \A k \in 1..records + 1 : point(k) \in {point(j) : j \in 1..records + 1}
    OBVIOUS
  <2>. QED BY <2>1
<1>9. /\ points \in Seq(S) /\ Len(points) = records + 1 /\ Len(points) >= 1
      /\ \A k \in 1..records + 1 : points[k] = point(k)
  <2>1. [k \in 1..records + 1 |-> point(k)] \in [1..records + 1 -> S]
    BY <1>8
  <2>2. records + 1 \in Nat /\ records + 1 >= 1
    BY <1>4
  <2>. HIDE DEF points, point
  <2>3. points \in Seq(S) /\ Len(points) = records + 1
    BY <1>3, <2>1, <2>2, PointSequence
  <2>. QED BY <1>3, <2>2, <2>3
<1>10. n \in 1..records + 1
  BY <1>9, ReachedType DEF Inv, CoreInv
<1>. HIDE DEF points
<1>11. \A k \in 1..Len(points) : Opens(points[k])
  BY <1>6, <1>7, <1>9
<1>. HIDE DEF n
<1>12. points[n] = RecoverPoint(engine, n - 1)
  BY <1>1, <1>9, <1>10
<1>13. n = Len(points) => n - 1 = records
  BY <1>4, <1>9
<1>14. /\ EngineGood(points[n].mem, Told) /\ Rules(points[n])
       /\ n = Len(points) => Matched(points[n].mem, points[n].disk)
  BY <1>5, <1>6, <1>12, <1>13
<1>. HIDE DEF point
<1>. QED BY <1>1, <1>9, <1>11, <1>14, StartsBooks DEF n

-------------------------------------------------------------------------------
(* Every step *)

LEMMA SubmitBooks ==
  ASSUME Inv, Books, NEW request \in Requests, NEW view \in Views,
         \/ Replay(request, view) \/ Refuse(request, view)
         \/ Issue(request, view) \/ Renew(request, view)
  PROVE  Books' /\ StepKeeps
<1>1. CASE Replay(request, view)
  BY <1>1, ReplayBooks
<1>2. CASE Refuse(request, view)
  BY <1>2, RefuseBooks
<1>3. CASE Issue(request, view)
  BY <1>3, IssueBooks
<1>4. CASE Renew(request, view)
  BY <1>4, RenewBooks
<1>. QED BY <1>1, <1>2, <1>3, <1>4

\* One step per operation of the daemon.
LEMMA NextBooks == ASSUME Inv, Books, Next PROVE Books' /\ StepKeeps
<1>1. CASE Initialize
  BY <1>1, InitializeBooks
<1>2. CASE Recover
  BY <1>2, RecoverBooks
<1>3. CASE Stop
  BY <1>3, StopBooks
<1>4. CASE \E request \in Requests, view \in Views :
             \/ Replay(request, view) \/ Refuse(request, view)
             \/ Issue(request, view) \/ Renew(request, view)
  BY <1>4, SubmitBooks
<1>5. CASE \E id \in GrantIds \cup {0}, attempt \in Attempts \cup {None},
             lease \in GrantIds \cup {0} : Release(id, attempt, lease)
  BY <1>5, ReleaseBooks
<1>6. CASE \E attempt \in Attempts : Resolve(attempt)
  BY <1>6, ResolveBooks
<1>7. CASE \E id \in GrantIds, lease \in GrantIds : Acknowledge(id, lease)
  BY <1>7, AcknowledgeBooks
<1>8. CASE \E id \in GrantIds \cup {0}, attempt \in Attempts \cup {None} :
             CancelForm(id, attempt) \in CancelForms /\ Cancel(id, attempt)
  BY <1>8, CancelBooks
<1>9. CASE \E command \in Commands : Administer(command)
  BY <1>9, AdministerBooks
<1>10. CASE FenceAll
  BY <1>10, FenceAllBooks
<1>11. CASE Revalidate
  BY <1>11, RevalidateBooks
<1>12. CASE \E tick \in 0..MaxTick : AdvanceTick(tick)
  BY <1>12, AdvanceTickBooks
<1>13. CASE Compact
  BY <1>13, CompactBooks
<1>14. CASE HousekeepingRound \/ CompactingRound \/ CrashingRound
  BY <1>14, RoundBooks
<1>. QED BY <1>1, <1>2, <1>3, <1>4, <1>5, <1>6, <1>7, <1>8, <1>9, <1>10, <1>11, <1>12,
            <1>13, <1>14 DEF Next

LEMMA StillBooks == ASSUME Books, UNCHANGED vars PROVE Books' /\ StepKeeps
<1>1. /\ mem' = mem /\ disk' = disk /\ sink' = sink /\ used' = used
      /\ answered' = answered /\ acks' = acks
  BY DEF vars
<1>2. Told' = Told
  BY <1>1 DEF Told
<1>3. Tables'
  <2>1. Good(mem, disk, Told)'
    BY <1>1, <1>2 DEF Books, Tables, Good
  <2>2. ImageGood(disk, Told)'
    BY <1>1, <1>2 DEF Books, Tables
  <2>3. (InStep(mem, disk) \/ Full(used))'
    BY <1>1 DEF Books, Tables, InStep, Full
  <2>. QED BY <1>1, <2>1, <2>2, <2>3 DEF Books, Tables
<1>4. Words'
  BY <1>1 DEF Books, Words
<1>5. StepKeeps
  BY <1>1 DEF StepKeeps, KeepsIdentity, SameIdentity, KeepsQuarantine, Ledgered,
              Settlements, Settlement, SameEntry
<1>. QED BY <1>3, <1>4, <1>5 DEF Books

\* The grants, the attempt records and the log owe each other Books in every
\* reachable state.
THEOREM Invariance == Spec => [](Inv /\ Books)
<1>1. Init => Inv /\ Books
  BY InitSafe, InitBooks
<1>2. Inv /\ Books /\ [Next]_vars => (Inv /\ Books)'
  <2>1. ASSUME Inv, Books, Next PROVE (Inv /\ Books)'
    BY <2>1, NextSafe, NextBooks
  <2>2. ASSUME Inv, Books, UNCHANGED vars PROVE (Inv /\ Books)'
    BY <2>2, StepSafe, StillBooks
  <2>. QED BY <2>1, <2>2
<1>. QED BY <1>1, <1>2, PTL DEF Spec

LEMMA StepBooks == ASSUME Inv, Books, [Next]_vars PROVE StepKeeps
BY NextBooks, StillBooks

-------------------------------------------------------------------------------
(* The theorems *)

\* However often a submit is retried, resent or raced by a restart, its attempt has
\* one grant: find_attempt finds it before evaluate could issue another.
THEOREM GrantsOnce == Spec => []OneGrantPerAttempt
<1>1. Inv /\ Books => OneGrantPerAttempt
  BY DEF Books, Tables, Good, EngineGood, ImageGood, Booked, OneGrantPerAttempt
<1>. QED BY <1>1, Invariance, PTL

LEMMA StandingAnswers ==
  ASSUME Inv, Books, ~Mixed, NEW g \in GrantIds, Standing(mem.grants[g].state),
         NEW a, a = mem.grants[g].attempt
  PROVE  a \in Attempts /\ ResolveOutcome(a) = GrantAnswer(mem.grants[g])
<1>1. mem \in Engine /\ Booked(mem.grants, mem.attempts) /\ Complete(mem.grants, mem.attempts)
  BY DEF Inv, CoreInv, Books, Tables, Good, EngineGood
<1>2. mem.grants[g] \in Grant /\ mem.grants[g].state # "Absent"
  BY <1>1, EngineFields DEF Standing
<1>3. a \in Attempts
  BY <1>1, <1>2 DEF Grant, Booked, Filled
<1>4. /\ mem.attempts[a].known /\ mem.attempts[a].grant = g
      /\ ~mem.attempts[a].released /\ ~mem.attempts[a].cancelled
  BY <1>1, <1>2 DEF Booked, Speaks, Complete
<1>5. g # 0
  BY EligibilityAssumption, CoreAssumption
<1>. QED BY <1>2, <1>3, <1>4, <1>5 DEF ResolveOutcome

\* resolve and the table of grants agree: an attempt is said to be granted exactly
\* while a live grant is its, and to be indeterminate exactly while a quarantined one
\* is.  A cancel that names a grant and some other attempt would break it.
THEOREM AnswersAgree ==
  ASSUME "both" \notin CancelForms
  PROVE  Spec => []AnswersMatchAuthority
<1>1. ASSUME Inv, Books PROVE AnswersMatchAuthority
  <2>1. SUFFICES ASSUME NEW a \in Attempts
                 PROVE  LET states == {mem.grants[g].state :
                                         g \in {h \in GrantIds : mem.grants[h].attempt = a}}
                        IN  /\ ResolveOutcome(a) \in Authorising <=>
                                 \E s \in states : IsLive(s)
                            /\ ResolveOutcome(a) = "Indeterminate" <=>
                                 \E s \in states : IsQuarantined(s)
    BY DEF AnswersMatchAuthority
  <2>2. /\ mem \in Engine /\ Booked(mem.grants, mem.attempts)
        /\ Minted(mem)
    BY <1>1 DEF Inv, CoreInv, Books, Tables, Good, EngineGood
  <2>3. /\ mem.grants \in [GrantIds -> Grant] /\ mem.attempts \in [Attempts -> Attempt]
    BY <2>2, EngineFields
  <2>4. ~Mixed
    BY DEF Mixed
  <2>5. ASSUME NEW g \in GrantIds, mem.grants[g].attempt = a,
               IsLive(mem.grants[g].state)
        PROVE  ResolveOutcome(a) \in Authorising
    <3>1. Standing(mem.grants[g].state)
      BY <2>5 DEF IsLive, IsTerminal, Standing
    <3>2. ResolveOutcome(a) = GrantAnswer(mem.grants[g])
      BY <1>1, <2>4, <2>5, <3>1, StandingAnswers
    <3>. QED BY <2>5, <3>2 DEF IsLive, GrantAnswer, GrantOutcome, IsQuarantined, Authorising
  <2>6. ASSUME NEW g \in GrantIds, mem.grants[g].attempt = a,
               IsQuarantined(mem.grants[g].state)
        PROVE  ResolveOutcome(a) = "Indeterminate"
    <3>1. Standing(mem.grants[g].state)
      BY <2>6 DEF IsQuarantined, IsTerminal, Standing
    <3>2. ResolveOutcome(a) = GrantAnswer(mem.grants[g])
      BY <1>1, <2>4, <2>6, <3>1, StandingAnswers
    <3>. QED BY <2>6, <3>2 DEF GrantAnswer, IsQuarantined
  <2>7. ASSUME ResolveOutcome(a) \in Authorising \cup {"Indeterminate"}
        PROVE  \E g \in GrantIds : /\ mem.grants[g].attempt = a
                                   /\ mem.grants[g].state # "Absent"
                                   /\ ResolveOutcome(a) = GrantAnswer(mem.grants[g])
    <3>. DEFINE record == mem.attempts[a]
    <3>1. record \in Attempt /\ Faithful(mem.grants, record, a)
      BY <2>2, <2>3 DEF Booked
    <3>2. record.known /\ ~record.cancelled /\ ~record.released
      BY <2>7 DEF ResolveOutcome, Authorising
    <3>3. record.grant \in GrantIds
      BY <3>1, <3>2 DEF Faithful, Attempt
    <3>4. /\ record.grant # 0 /\ mem.grants[record.grant].state # "Absent"
          /\ mem.grants[record.grant].attempt = a
      <4>1. record.grant # 0
        BY <3>3, EligibilityAssumption, CoreAssumption
      <4>. QED BY <3>1, <4>1 DEF Faithful
    <3>5. ResolveOutcome(a) = GrantAnswer(mem.grants[record.grant])
      BY <3>2, <3>4 DEF ResolveOutcome
    <3>. HIDE DEF record
    <3>. QED BY <3>3, <3>4, <3>5
  <2>8. ASSUME NEW g \in GrantIds, mem.grants[g].state # "Absent"
        PROVE  /\ GrantAnswer(mem.grants[g]) \in Authorising =>
                    IsLive(mem.grants[g].state)
               /\ GrantAnswer(mem.grants[g]) = "Indeterminate" =>
                    IsQuarantined(mem.grants[g].state)
    <3>1. mem.grants[g].state \in GrantStates
      BY <2>3 DEF Grant
    <3>. QED BY <2>8, <3>1 DEF GrantStates, GrantAnswer, GrantOutcome, Authorising, IsLive,
                               IsQuarantined
  <2>. QED BY <2>5, <2>6, <2>7, <2>8 DEF Authorising
<1>2. Inv /\ Books => AnswersMatchAuthority
  BY <1>1
<1>. QED BY <1>2, Invariance, PTL

\* Nothing holds capacity for an attempt that was cancelled.
THEOREM CancelsInFull ==
  ASSUME "both" \notin CancelForms
  PROVE  Spec => []CancelledHoldsNothing
<1>1. ASSUME Inv, Books, NEW g \in Holders(mem.grants)
      PROVE  ~mem.attempts[mem.grants[g].attempt].cancelled
  <2>1. g \in GrantIds /\ HoldsCapacity(mem.grants[g].state)
    BY <1>1 DEF Holders
  <2>2. Standing(mem.grants[g].state)
    BY <2>1 DEF HoldsCapacity, IsQuarantined, IsTerminal, Standing
  <2>3. /\ Booked(mem.grants, mem.attempts) /\ Complete(mem.grants, mem.attempts)
    BY <1>1 DEF Books, Tables, Good, EngineGood
  <2>. QED BY <2>1, <2>2, <2>3 DEF Booked, Speaks, Complete, Standing, Mixed
<1>2. Inv /\ Books => CancelledHoldsNothing
  BY <1>1 DEF CancelledHoldsNothing
<1>. QED BY <1>2, Invariance, PTL

\* A caller is told of a grant only after the log has it for good, where the engine
\* writes to the log at all.
THEOREM TellsWhatLasts ==
  ASSUME Options.attaches
  PROVE  Spec => []ToldGrantsAreDurable
<1>1. Inv /\ Books => ToldGrantsAreDurable
  BY DEF Books, Words, Durable, Shows, Issued, ToldGrantsAreDurable
<1>. QED BY <1>1, Invariance, PTL

\* A restart reissues only grants whose callers acknowledged them, those among them
\* whose attempt record was never written and had to be rebuilt.
THEOREM ReissuesTheTold == Spec => []ReissueNeedsAcknowledgement
<1>1. ASSUME Inv, Books, NEW g \in Live(mem.grants),
             DigestOf(mem, g) = None \/ DigestOf(mem, g).view.epoch < mem.spec.epoch
      PROVE  acks[g] # "none"
  <2>. DEFINE a == mem.grants[g].attempt
              digest == DigestOf(mem, g)
  <2>1. /\ g \in GrantIds /\ IsLive(mem.grants[g].state) /\ mem \in Engine
        /\ Booked(mem.grants, mem.attempts) /\ Recent(mem, Told)
    BY <1>1 DEF Live, Inv, CoreInv, Books, Tables, Good, EngineGood
  <2>2. /\ mem.grants[g] \in Grant /\ mem.attempts \in [Attempts -> Attempt]
        /\ mem.spec \in ClusterSpecs
    BY <2>1, EngineFields
  <2>3. a \in Attempts
    BY <2>1, <2>2 DEF Grant, Booked, Filled, IsLive
  <2>4. digest \in Digest
    BY <2>2, <2>3 DEF DigestOf, Attempt
  <2>. HIDE DEF digest
  <2>5. CASE digest = None
    BY <2>1, <2>5, Zenon DEF Recent, Told, digest
  <2>6. CASE digest # None
    <3>1. digest.view.epoch < mem.spec.epoch
      BY <1>1, <2>6 DEF digest
    <3>2. digest.view.epoch \in Nat /\ mem.spec.epoch \in Nat
      BY <2>2, <2>4, <2>6 DEF Digest, View, ClusterSpecs
    <3>3. ~(digest.view.epoch >= mem.spec.epoch)
      BY <3>1, <3>2
    <3>. QED BY <2>1, <3>3, Zenon DEF Recent, Told, digest
  <2>. QED BY <2>5, <2>6
<1>2. Inv /\ Books => ReissueNeedsAcknowledgement
  BY <1>1 DEF ReissueNeedsAcknowledgement, DigestOf
<1>. QED BY <1>2, Invariance, PTL

\* Ticks that a restart forgets cost no live grant more than the longest lease, where
\* renewals ask for no more than that: renew, unlike submit, does not bound them.
THEOREM LeasesStayInReach ==
  ASSUME \A request \in Requests : request.renews # 0 => request.lease <= Options.maxLease
  PROVE  Spec => []LeasesAreInReach
<1>1. Inv /\ Books => LeasesAreInReach
  <2>1. RenewalsInReach
    BY DEF RenewalsInReach
  <2>. QED BY <2>1 DEF Books, Tables, Good, EngineGood, InReach, LeasesAreInReach, Live
<1>. QED BY <1>1, Invariance, PTL

\* The log replays to the cluster and the contracts the engine rules: every mutator
\* writes its command first, and replay takes what the engine took.
THEOREM ReplaysToTheRuled == Spec => []SpecReplays
<1>1. Inv /\ Books => SpecReplays
  BY DEF Books, Tables, Good, SpecReplays
<1>. QED BY <1>1, Invariance, PTL

\* A committed grant that can be read keeps its id, its attempt and what it joins for
\* good: ids are minted above every id the log holds.
THEOREM KeepsWhatItGave == Spec => IdentityIsKept
<1>1. ASSUME Inv, Books, [Next]_vars, NEW g \in GrantIds,
             Intact(disk), disk.grants[g].state \notin {"Absent", "Prepared"}
      PROVE  /\ disk'.grants[g].state \notin {"Absent", "Prepared"}
             /\ \A field \in {"attempt", "contract", "source", "target", "path",
                              "resource", "sourceGen", "targetGen", "pathGen"} :
                  disk'.grants[g][field] = disk.grants[g][field]
  <2>1. /\ Issued(disk'.grants[g].state)
        /\ SameIdentity(disk.grants[g], disk'.grants[g])
    BY <1>1, StepBooks DEF StepKeeps, KeepsIdentity, Issued
  <2>. QED BY <2>1 DEF Issued, SameIdentity
<1>2. Inv /\ Books /\ [Next]_vars =>
        [\A g \in GrantIds :
           Intact(disk) /\ disk.grants[g].state \notin {"Absent", "Prepared"} =>
             /\ disk'.grants[g].state \notin {"Absent", "Prepared"}
             /\ \A field \in {"attempt", "contract", "source", "target", "path",
                              "resource", "sourceGen", "targetGen", "pathGen"} :
                  disk'.grants[g][field] = disk.grants[g][field]]_vars
  BY <1>1
<1>. QED BY <1>2, Invariance, PTL DEF Spec, IdentityIsKept

-------------------------------------------------------------------------------
(* Quarantine *)

\* The handler comes from holder to next without a change of a row outside ids.
Rowed(holder) == "grants" \in DOMAIN holder /\ DOMAIN holder.grants = GrantIds

Apart(holder, next, ids) ==
  Rowed(next) /\ \A g \in GrantIds \ ids : next.grants[g] = holder.grants[g]

\* And so do all its points.
Touches(points, ids) ==
  \A n \in 1..Len(points) :
    Apart(mem, points[n].mem, ids) /\ Apart(disk, points[n].disk, ids)

LEMMA JoinedTouches ==
  ASSUME NEW S, NEW T, NEW s \in Seq(S), NEW t \in Seq(T), NEW ids,
         Touches(s, ids), Touches(t, ids)
  PROVE  Touches(s \o t, ids)
<1>. DEFINE points == s \o t
<1>1. \A n \in 1..Len(points) :
        IF n <= Len(s) THEN n \in 1..Len(s) /\ points[n] = s[n]
        ELSE n - Len(s) \in 1..Len(t) /\ points[n] = t[n - Len(s)]
  OBVIOUS
<1>. HIDE DEF points
<1>2. Touches(points, ids)
  BY <1>1 DEF Touches
<1>. QED BY <1>2 DEF points

LEMMA ApartSame == ASSUME NEW holder, Rowed(holder), NEW ids PROVE Apart(holder, holder, ids)
  BY DEF Apart

LEMMA ApartOn ==
  ASSUME NEW holder, NEW next, NEW last, NEW ids,
         Apart(holder, next, ids), Apart(next, last, ids)
  PROVE  Apart(holder, last, ids)
  BY DEF Apart

LEMMA RowedTables == ASSUME CoreInv PROVE Rowed(mem) /\ Rowed(disk)
  BY DEF CoreInv, Rowed, Engine, Image

LEMMA RewrittenApart ==
  ASSUME NEW holder, Rowed(holder), NEW done, NEW ids, done \subseteq ids, NEW rows, NEW next,
         "grants" \in DOMAIN next, next.grants = Rewritten(holder.grants, done, rows)
  PROVE  Apart(holder, next, ids)
  BY DEF Rewritten, Apart, Rowed

LEMMA WrittenApart ==
  ASSUME NEW image, Rowed(image), NEW done, NEW ids, done \subseteq ids, NEW rows, NEW now
  PROVE  Apart(image, WriteGrants(image, done, rows, now), ids)
<1>1. CASE done = {}
  BY <1>1 DEF WriteGrants, Apart
<1>2. CASE done # {}
  <2>. DEFINE next == WriteGrants(image, done, rows, now)
  <2>1. next.grants = Rewritten(image.grants, done, rows) /\ "grants" \in DOMAIN next
    BY <1>2 DEF WriteGrants, Rowed
  <2>. HIDE DEF next
  <2>2. Apart(image, next, ids)
    BY <2>1, RewrittenApart
  <2>. QED BY <2>2 DEF next
<1>. QED BY <1>1, <1>2

LEMMA NotedApart ==
  ASSUME NEW image, Rowed(image), NEW done, NEW ids, NEW rows, NEW now
  PROVE  Apart(image, WriteAttempts(image, done, rows, now), ids)
<1>1. CASE done = {}
  BY <1>1 DEF WriteAttempts, Apart
<1>2. CASE done # {}
  <2>. DEFINE next == WriteAttempts(image, done, rows, now)
  <2>1. next.grants = image.grants /\ "grants" \in DOMAIN next
    BY <1>2 DEF WriteAttempts, Rowed
  <2>. HIDE DEF next
  <2>2. Apart(image, next, ids)
    BY <2>1 DEF Apart, Rowed
  <2>. QED BY <2>2 DEF next
<1>. QED BY <1>1, <1>2

LEMMA OneWrittenApart ==
  ASSUME NEW image, Rowed(image), NEW id, NEW row, NEW now
  PROVE  Apart(image, WriteGrant(image, id, row, now), {id})
  BY WrittenApart DEF WriteGrant

LEMMA OneNotedApart ==
  ASSUME NEW image, Rowed(image), NEW a, NEW ids, NEW row, NEW now
  PROVE  Apart(image, WriteAttempt(image, a, row, now), ids)
  BY NotedApart DEF WriteAttempt

LEMMA TurnedApart ==
  ASSUME NEW engine, Rowed(engine), NEW id, NEW row
  PROVE  Apart(engine, [engine EXCEPT !.grants[id] = row], {id})
<1>. DEFINE next == [engine EXCEPT !.grants[id] = row]
<1>1. next.grants = [engine.grants EXCEPT ![id] = row] /\ "grants" \in DOMAIN next
  BY DEF Rowed
<1>. HIDE DEF next
<1>2. Apart(engine, next, {id})
  BY <1>1 DEF Apart, Rowed
<1>. QED BY <1>2 DEF next

\* What a handler takes out of quarantine was quarantined in the engine, and is among
\* the grants it touches.
LEMMA LiftedAmong ==
  ASSUME Inv, Books, up, NEW S, NEW points \in Seq(S), Len(points) >= 1, NEW ids,
         Touches(points, ids), Completes(points) \/ CrashesIn(points),
         NEW g \in Lifted
  PROVE  g \in ids /\ IsQuarantined(mem.grants[g].state)
<1>1. PICK n \in 1..Reached(points, sink = "journal") :
        /\ Persists(points, n, sink = "journal")
        /\ up' => mem' = points[n].mem
  <2>1. Reached(points, sink = "journal") \in 1..Len(points)
    BY ReachedType DEF Inv, CoreInv
  <2>2. Reached(points, sink = "journal") \in 1..Reached(points, sink = "journal")
    BY <2>1
  <2>. QED BY <2>2 DEF Completes, CrashesIn, Falls
<1>2. n \in 1..Len(points)
  <2>1. Reached(points, sink = "journal") \in 1..Len(points)
    BY ReachedType DEF Inv, CoreInv
  <2>. QED BY <2>1
<1>3. Apart(mem, points[n].mem, ids) /\ Apart(disk, points[n].disk, ids)
  BY <1>2 DEF Touches
<1>4. disk' = IF sink = "journal" THEN points[n].disk ELSE disk
  BY <1>1 DEF Persists
<1>5. sink = "journal" /\ IsQuarantined(disk.grants[g].state) =>
        IsQuarantined(mem.grants[g].state)
  BY DEF Books, Tables, Good, Linked, Lifted
<1>. QED BY <1>1, <1>3, <1>4, <1>5 DEF Lifted, Apart

LEMMA PerformsAmong ==
  ASSUME Inv, Books, up, NEW S, NEW points \in Seq(S), Len(points) >= 1, NEW ids,
         Touches(points, ids), NEW g \in Lifted
  PROVE  /\ Performs(points) => g \in ids /\ IsQuarantined(mem.grants[g].state)
         /\ \A a : Answers(points, a) => g \in ids /\ IsQuarantined(mem.grants[g].state)
  BY LiftedAmong DEF Performs, Answers

\* A loop touches its targets.
LEMMA SweepTouches ==
  ASSUME NEW engine, NEW image, NEW targets \in SUBSET GrantIds, NEW rows,
         Apart(mem, engine, targets), Apart(disk, image, targets)
  PROVE  LET points == Sweep(engine, image, targets, rows)
         IN  \A n \in 1..Len(points) : /\ Apart(mem, points[n].mem, targets)
                                       /\ Apart(disk, points[n].disk, targets)
<1>. DEFINE k == Cardinality(targets) + 1
            next(done) == [engine EXCEPT !.grants = Rewritten(@, done, rows)]
            written(done) == WriteGrants(image, done, rows, engine.tick)
            points == [n \in 1..k |-> Point(next(Earliest(targets, n - 1)),
                                            written(Earliest(targets, n - 1)), None)]
<1>1. Sweep(engine, image, targets, rows) = points
  BY DEF Sweep
<1>2. Rowed(engine) /\ Rowed(image)
  BY DEF Apart
<1>3. ASSUME NEW done, done \subseteq targets
      PROVE  Apart(mem, next(done), targets) /\ Apart(disk, written(done), targets)
  <2>1. Apart(image, written(done), targets)
    BY <1>2, <1>3, WrittenApart
  <2>2. "grants" \in DOMAIN next(done) /\ next(done).grants = Rewritten(engine.grants, done, rows)
    BY <1>2 DEF Rowed
  <2>. HIDE DEF next, written
  <2>3. Apart(engine, next(done), targets)
    BY <1>2, <1>3, <2>2, RewrittenApart
  <2>. QED BY <2>1, <2>3, ApartOn
<1>4. k \in Nat /\ Len(points) = k
  BY CountType
<1>. HIDE DEF next, written, k
<1>5. \A n \in 1..k : /\ Apart(mem, points[n].mem, targets)
                      /\ Apart(disk, points[n].disk, targets)
  <2>1. TAKE n \in 1..k
  <2>2. Earliest(targets, n - 1) \subseteq targets
    BY DEF Earliest
  <2>3. points[n].mem = next(Earliest(targets, n - 1)) /\
        points[n].disk = written(Earliest(targets, n - 1))
    BY DEF Point
  <2>. QED BY <1>3, <2>2, <2>3
<1>. QED BY <1>1, <1>4, <1>5

\* The end of the leases touches live grants.
LEMMA ExpiryTouches ==
  ASSUME CoreInv, NEW tick
  PROVE  Touches(Expiry([mem EXCEPT !.tick = tick], disk), Live(mem.grants))
<1>. DEFINE engine == [mem EXCEPT !.tick = tick]
            expired == Expired(engine)
            rows == AllTerminated(engine, "Expired")
            k == 2 * Cardinality(expired) + 1
            ended(n) == Earliest(expired, n \div 2)
            noted(n) == Earliest(expired, (n - 1) \div 2)
            next(n) == [engine EXCEPT !.grants = Rewritten(@, ended(n), rows),
                                      !.attempts = Rebound(engine, noted(n))]
            first(n) == WriteGrants(disk, ended(n), rows, engine.tick)
            written(n) == WriteAttempts(first(n), AttemptsOf(engine.grants, noted(n)),
                                        Rebound(engine, noted(n)), engine.tick)
            points == [n \in 1..k |-> Point(next(n), written(n), None)]
            ids == Live(mem.grants)
<1>1. Expiry(engine, disk) = points
  BY DEF Expiry
<1>2. Rowed(mem) /\ Rowed(disk)
  BY RowedTables
<1>3. Rowed(engine) /\ engine.grants = mem.grants
  BY <1>2 DEF Rowed
<1>4. expired \subseteq ids
  BY <1>3 DEF Expired, Live
<1>5. k \in Nat /\ Len(points) = k
  <2>1. expired \in SUBSET GrantIds
    BY DEF Expired, Live
  <2>. QED BY <2>1, CountType
<1>. HIDE DEF engine
<1>6. ASSUME NEW n
      PROVE  Apart(mem, next(n), ids) /\ Apart(disk, written(n), ids)
  <2>1. ended(n) \subseteq ids
    BY <1>4 DEF Earliest
  <2>. HIDE DEF ended, noted, rows
  <2>2. "grants" \in DOMAIN next(n) /\ next(n).grants = Rewritten(mem.grants, ended(n), rows)
    BY <1>3 DEF Rowed
  <2>3. Apart(disk, first(n), ids)
    BY <1>2, <2>1, WrittenApart
  <2>. HIDE DEF next, first
  <2>4. Apart(mem, next(n), ids)
    BY <1>2, <2>1, <2>2, RewrittenApart
  <2>5. Apart(first(n), written(n), ids)
    BY <2>3, NotedApart DEF Apart
  <2>. HIDE DEF written
  <2>. QED BY <2>3, <2>4, <2>5, ApartOn
<1>. HIDE DEF next, written, k, ids
<1>7. \A n \in 1..k : points[n].mem = next(n) /\ points[n].disk = written(n)
  BY DEF Point
<1>. HIDE DEF points
<1>8. Touches(points, ids)
  BY <1>5, <1>6, <1>7 DEF Touches
<1>. QED BY <1>1, <1>8 DEF engine, ids

LEMMA LiveIsUsable == ASSUME NEW g \in Live(mem.grants) PROVE ~IsQuarantined(mem.grants[g].state)
  BY DEF Live, IsLive, IsQuarantined

LEMMA RevalidateSpares == ASSUME Inv, Books, Revalidate PROVE Lifted = {}
<1>. DEFINE points == Sweep(mem, disk, Live(mem.grants), AllRevalidated(mem))
<1>1. points \in Seq(SafePoints) /\ Len(points) >= 1
  BY RevalidateWalks DEF Inv, Books
<1>2. Performs(points) /\ up
  BY DEF Revalidate
<1>3. Touches(points, Live(mem.grants))
  <2>1. Apart(mem, mem, Live(mem.grants)) /\ Apart(disk, disk, Live(mem.grants))
    BY RowedTables, ApartSame DEF Inv
  <2>2. Live(mem.grants) \in SUBSET GrantIds
    BY DEF Live
  <2>. QED BY <2>1, <2>2, SweepTouches DEF Touches
<1>. HIDE DEF points
<1>. QED BY <1>1, <1>2, <1>3, PerformsAmong, LiveIsUsable

LEMMA AdvanceTickSpares ==
  ASSUME Inv, Books, NEW tick \in 0..MaxTick, AdvanceTick(tick)
  PROVE  Lifted = {}
<1>. DEFINE points == Expiry([mem EXCEPT !.tick = tick], disk)
<1>1. CoreInv /\ up /\ Performs(points) /\ tick \in Nat
  BY CoreAssumption DEF Inv, AdvanceTick
<1>2. points \in Seq(SafePoints) /\ Len(points) >= 1
  BY <1>1, TickedSafe
<1>3. Touches(points, Live(mem.grants))
  BY <1>1, ExpiryTouches
<1>. HIDE DEF points
<1>. QED BY <1>1, <1>2, <1>3, PerformsAmong, LiveIsUsable

\* A snapshot of the engine has what the engine has.
LEMMA CompactsSpares ==
  ASSUME Inv, Books, sink = "journal", NEW engine, Compacts(engine),
         Apart(mem, engine, Live(mem.grants))
  PROVE  Lifted = {}
<1>1. disk'.grants = engine.grants
  BY DEF Compacts, Snapshot
<1>2. up' => mem' = engine
  BY DEF Compacts, Falls
<1>3. \A g \in GrantIds : IsQuarantined(disk.grants[g].state) =>
        IsQuarantined(mem.grants[g].state)
  BY DEF Books, Tables, Good, Linked
<1>4. \A g \in GrantIds : IsQuarantined(mem.grants[g].state) =>
        IsQuarantined(engine.grants[g].state)
  BY LiveIsUsable DEF Apart
<1>. QED BY <1>1, <1>2, <1>3, <1>4 DEF Lifted

LEMMA CompactSpares == ASSUME Inv, Books, Compact PROVE Lifted = {}
  BY RowedTables, ApartSame, CompactsSpares DEF Inv, Compact, Full

LEMMA RoundSpares ==
  ASSUME Inv, Books, HousekeepingRound \/ CompactingRound \/ CrashingRound
  PROVE  Lifted = {}
<1>1. CoreInv /\ up /\ RoundPoints \in Seq(SafePoints) /\ Len(RoundPoints) >= 1
  BY RoundPointsSafe DEF Inv, HousekeepingRound, CompactingRound, CrashingRound
<1>2. Touches(RoundPoints, Live(mem.grants))
  <2>. DEFINE tick == mem.tick + 1
  <2>1. RoundPoints = Expiry([mem EXCEPT !.tick = tick], disk)
    BY <1>1 DEF RoundPoints, CoreInv, Engine
  <2>. HIDE DEF tick
  <2>. QED BY <1>1, <2>1, ExpiryTouches
<1>3. CASE Completes(RoundPoints) \/ CrashesIn(RoundPoints)
  BY <1>1, <1>2, <1>3, LiftedAmong, LiveIsUsable
<1>4. CASE CompactingRound
  <2>. DEFINE n == Reached(RoundPoints, sink = "journal")
              engine == RoundPoints[n].mem
  <2>1. sink = "journal" /\ Compacts(engine)
    BY <1>4 DEF CompactingRound, FullAfterRound, Full
  <2>2. n \in 1..Len(RoundPoints)
    BY <1>1, ReachedType DEF CoreInv
  <2>. HIDE DEF n
  <2>3. Apart(mem, engine, Live(mem.grants))
    BY <1>2, <2>2 DEF Touches
  <2>. HIDE DEF engine
  <2>. QED BY <2>1, <2>3, CompactsSpares
<1>. QED BY <1>3, <1>4 DEF HousekeepingRound, CrashingRound

LEMMA CommandApart ==
  ASSUME NEW image \in Image, NEW command \in Command, NEW now \in Nat, NEW ids
  PROVE  Apart(image, WriteCommand(image, command, now), ids)
<1>1. /\ WriteCommand(image, command, now) \in Image
      /\ WriteCommand(image, command, now).grants = image.grants
  BY WriteCommandType
<1>. QED BY <1>1 DEF Apart, Rowed, Image

LEMMA AdministerSpares ==
  ASSUME Inv, Books, NEW command \in Commands, Administer(command)
  PROVE  Lifted = {}
<1>. DEFINE points == CommandPoints(command)
            ids == Live(mem.grants)
            written == WriteCommand(disk, command, mem.tick)
            changed == [mem EXCEPT !.spec = SpecAfter(@, command),
                                   !.contracts = ContractsAfter(@, command)]
            rows == AllRevalidated(changed)
            sweep == Sweep(changed, written, ids, rows)
            first == << Point(mem, disk, None) >>
            ruled == << Point(changed, written, None) >>
            refused == << Point(mem, written, None) >>
<1>1. /\ CoreInv /\ up /\ Performs(points) /\ command \in Command
      /\ points \in Seq(SafePoints) /\ Len(points) >= 1
      /\ disk \in Image /\ mem.tick \in Nat
  BY CommandPointsSafe, CoreAssumption, EngineFields DEF Inv, CoreInv, Administer
<1>2. Rowed(mem) /\ Rowed(disk)
  BY <1>1, RowedTables
<1>3. Apart(mem, mem, ids) /\ Apart(disk, disk, ids) /\ Apart(disk, written, ids)
  BY <1>1, <1>2, ApartSame, CommandApart
<1>4. Apart(mem, changed, ids)
  BY <1>2 DEF Apart, Rowed
<1>5. points = first \o IF ~Accepts(mem.spec, mem.contracts, command) THEN refused
                        ELSE IF ~MovesAuthority(command) THEN ruled ELSE sweep
  BY DEF CommandPoints
<1>6. Touches(sweep, ids) /\ \E S : sweep \in Seq(S)
  <2>1. ids \in SUBSET GrantIds
    BY DEF Live
  <2>2. Touches(sweep, ids)
    BY <1>3, <1>4, <2>1, SweepTouches DEF Touches
  <2>. DEFINE k == Cardinality(ids) + 1
              S == {sweep[n] : n \in 1..k}
  <2>3. k \in Nat
    BY <2>1, CountType
  <2>4. sweep = [n \in 1..k |-> sweep[n]]
    BY DEF Sweep
  <2>. HIDE DEF k, sweep
  <2>5. sweep \in [1..k -> S]
    BY <2>4
  <2>6. sweep \in Seq(S)
    BY <2>3, <2>5, PointSequence
  <2>. QED BY <2>2, <2>6
<1>. HIDE DEF written, changed, sweep, ids
<1>7. Touches(first, ids) /\ Touches(ruled, ids) /\ Touches(refused, ids)
  BY <1>3, <1>4 DEF Touches, Point
<1>8. Touches(points, ids)
  <2>1. ASSUME NEW S, NEW rest \in Seq(S), Touches(rest, ids), points = first \o rest
        PROVE  Touches(points, ids)
    <3>1. \A n \in 1..Len(points) :
            points[n] = IF n = 1 THEN first[1] ELSE rest[n - 1]
      BY <2>1
    <3>2. \A n \in 1..Len(points) : n # 1 => n - 1 \in 1..Len(rest)
      BY <2>1
    <3>. QED BY <1>7, <2>1, <3>1, <3>2 DEF Touches
  <2>2. refused \in Seq({Point(mem, written, None)}) /\ ruled \in Seq({Point(changed, written, None)})
    OBVIOUS
  <2>. HIDE DEF points, first, refused, ruled
  <2>. QED BY <1>5, <1>6, <1>7, <2>1, <2>2
<1>. HIDE DEF points
<1>. QED BY <1>1, <1>8, PerformsAmong, LiveIsUsable DEF ids

\* The id of a new grant is one that no grant has.
LEMMA IssueSpares ==
  ASSUME Inv, Books, NEW request \in Requests, NEW view \in Views, Issue(request, view)
  PROVE  Lifted = {}
<1>. DEFINE decision == Decision(request)
            points   == GrantPoints(request, view, decision)
            id       == mem.serial + 1
            a        == request.attempt
            grant    == NewGrant(request, decision)
            minted   == [mem EXCEPT !.serial = id, !.counter = Greatest(@, id)]
            prepared == WriteGrant(disk, id, [grant EXCEPT !.state = "Prepared",
                                                           !.commit = "Prepared"], mem.tick)
            commit   == WriteGrant(prepared, id, grant, mem.tick)
            attempt  == [NoAttempt EXCEPT !.known = TRUE, !.grant = id,
                                          !.outcome = decision.outcome,
                                          !.digest = [request |-> request, view |-> view]]
            held     == [minted EXCEPT !.grants[id] = grant, !.attempts[a] = attempt]
            noted    == WriteAttempt(commit, a, attempt, mem.tick)
<1>1. /\ CoreInv /\ up /\ mem \in Engine /\ id \in GrantIds
      /\ Answers(points, a) /\ decision.outcome \in Authorising
  BY DEF Inv, CoreInv, Issue
<1>2. points \in Seq(SafePoints) /\ Len(points) >= 1
  BY <1>1, ViewsType, GrantPointsSafe
<1>3. Rowed(mem) /\ Rowed(disk)
  BY <1>1, RowedTables
<1>4. Apart(mem, minted, {id})
  BY <1>3 DEF Apart, Rowed
<1>5. Apart(mem, held, {id})
  BY <1>3 DEF Apart, Rowed
<1>6. Apart(disk, prepared, {id})
  BY <1>3, OneWrittenApart
<1>7. Apart(disk, commit, {id})
  <2>. HIDE DEF prepared, grant
  <2>1. Apart(prepared, commit, {id})
    BY <1>6, OneWrittenApart DEF Apart
  <2>. QED BY <1>6, <2>1, ApartOn
<1>8. Apart(disk, noted, {id})
  <2>. HIDE DEF commit, attempt, id, a
  <2>0. Rowed(commit)
    BY <1>7 DEF Apart
  <2>1. Apart(commit, noted, {id})
    BY <2>0, OneNotedApart
  <2>. QED BY <1>7, <2>1, ApartOn
<1>9. Apart(disk, disk, {id})
  BY <1>3, ApartSame
<1>10. \A n \in 1..Len(points) :
         points[n].mem \in {minted, held} /\ points[n].disk \in {disk, prepared, commit, noted}
  BY DEF GrantPoints, Point
<1>11. Touches(points, {id})
  <2>. HIDE DEF points, minted, held, prepared, commit, noted, id
  <2>. QED BY <1>4, <1>5, <1>6, <1>7, <1>8, <1>9, <1>10, Zenon DEF Touches
<1>12. ~IsQuarantined(mem.grants[id].state)
  <2>1. mem.grants[id].state = "Absent"
    BY <1>1, EngineFields DEF Books, Tables, Good, EngineGood, Minted
  <2>. QED BY <2>1 DEF IsQuarantined
<1>. HIDE DEF points, id
<1>. QED BY <1>1, <1>2, <1>11, <1>12, PerformsAmong

\* A renewal leaves its grant in the engine in the state it was in.
LEMMA RenewSpares ==
  ASSUME Inv, Books, NEW request \in Requests, NEW view, Renew(request, view),
         NEW g \in Lifted
  PROVE  request.renews = g /\ (up' => IsQuarantined(mem'.grants[g].state))
<1>. DEFINE points  == RenewPoints(request, Decision(request))
            id      == request.renews
            renewed == [mem.grants[id] EXCEPT
                          !.requested = request.units, !.units = Decision(request).units,
                          !.expiry = IF request.lease = 0 THEN 0 ELSE mem.tick + request.lease,
                          !.epoch = mem.spec.epoch,
                          !.degraded = Decision(request).outcome = "Degraded"]
            row     == [renewed EXCEPT !.state = "Committed"]
            next    == [mem EXCEPT !.grants[id] = renewed]
            written == WriteGrant(disk, id, row, mem.tick)
<1>1. /\ CoreInv /\ up /\ Performs(points) /\ mem \in Engine /\ Renews(request)
      /\ Decision(request).outcome \in Authorising
  BY DEF Inv, CoreInv, Renew
<1>2. points \in Seq(SafePoints) /\ Len(points) >= 1
  BY <1>1, RenewPointsSafe
<1>3. Rowed(mem) /\ Rowed(disk) /\ id \in GrantIds
  BY <1>1, RowedTables, CoreAssumption DEF Request, Renews
<1>4. points = << Point(mem, disk, "Indeterminate"),
                  Point(next, written, Decision(request).outcome) >>
  BY DEF RenewPoints
<1>5. /\ Apart(mem, mem, {id}) /\ Apart(disk, disk, {id})
      /\ Apart(mem, next, {id}) /\ Apart(disk, written, {id})
  BY <1>3, ApartSame, TurnedApart, OneWrittenApart
<1>6. next.grants[id].state = mem.grants[id].state
  BY <1>1, <1>3, EngineFields DEF Engine, Grant
<1>. HIDE DEF next, written
<1>7. Touches(points, {id})
  BY <1>4, <1>5 DEF Touches, Point
<1>8. \A n \in 1..Len(points) : points[n].mem.grants[id].state = mem.grants[id].state
  BY <1>4, <1>6 DEF Point
<1>. HIDE DEF points
<1>9. g = id /\ IsQuarantined(mem.grants[id].state)
  BY <1>1, <1>2, <1>7, PerformsAmong
<1>10. up' => \E n \in 1..Len(points) : mem' = points[n].mem
  <2>1. Reached(points, sink = "journal") \in 1..Len(points)
    BY <1>1, <1>2, ReachedType DEF CoreInv
  <2>. QED BY <1>1, <2>1 DEF Performs, Completes, CrashesIn, Falls
<1>. QED BY <1>8, <1>9, <1>10

\* Releasing, cancelling and acknowledging touch the grant they reach.
LEMMA ReleaseSpares ==
  ASSUME Inv, Books, NEW id \in GrantIds \cup {0}, NEW attempt \in Attempts \cup {None},
         NEW lease, Release(id, attempt, lease), NEW g \in Lifted
  PROVE  Reaches(id, attempt) = g
<1>. DEFINE target   == Reaches(id, attempt)
            points   == ReleasePoints(target)
            owner    == mem.grants[target].attempt
            grant    == Terminated(mem.grants[target], "Released")
            released == [mem EXCEPT !.grants[target] = grant]
            marked   == [released EXCEPT !.attempts[owner].released = TRUE]
            written  == WriteGrant(disk, target, grant, mem.tick)
            noted    == WriteAttempt(written, owner, marked.attempts[owner], mem.tick)
<1>1. CoreInv /\ up /\ Performs(points) /\ mem \in Engine
  BY DEF Inv, CoreInv, Release
<1>2. target \in GrantIds
  BY <1>1, ReachesType DEF Release
<1>3. points \in Seq(SafePoints) /\ Len(points) >= 1
  BY <1>1, <1>2, ReleasePointsSafe DEF Release
<1>4. Rowed(mem) /\ Rowed(disk)
  BY <1>1, RowedTables
<1>5. /\ points[1] = Point(mem, disk, "Indeterminate")
      /\ \/ /\ Len(points) = 3
            /\ points[2] = Point(marked, written, "Indeterminate")
            /\ points[3] = Point(marked, noted, "Granted")
         \/ /\ Len(points) = 2
            /\ points[2] = Point(released, written, "Granted")
  BY DEF ReleasePoints
<1>. HIDE DEF target, points
<1>6. /\ Apart(mem, mem, {target}) /\ Apart(disk, disk, {target})
      /\ Apart(mem, released, {target}) /\ Apart(disk, written, {target})
  BY <1>2, <1>4, ApartSame, TurnedApart, OneWrittenApart
<1>7. Apart(mem, marked, {target})
  <2>. HIDE DEF released
  <2>1. Apart(released, marked, {target})
    BY <1>6 DEF Apart, Rowed
  <2>. QED BY <1>6, <2>1, ApartOn
<1>8. Apart(disk, noted, {target})
  <2>. HIDE DEF written, marked, owner
  <2>0. Rowed(written)
    BY <1>6 DEF Apart
  <2>1. Apart(written, noted, {target})
    BY <2>0, OneNotedApart
  <2>. HIDE DEF noted
  <2>. QED BY <1>6, <2>1, ApartOn
<1>. HIDE DEF released, marked, written, noted
<1>9. Touches(points, {target})
  BY <1>5, <1>6, <1>7, <1>8 DEF Touches, Point
<1>10. g \in {target}
  BY <1>1, <1>3, <1>9, PerformsAmong
<1>. QED BY <1>10 DEF target

LEMMA CancelSpares ==
  ASSUME Inv, Books, NEW id \in GrantIds \cup {0}, NEW named \in Attempts \cup {None},
         Cancel(id, named), NEW g \in Lifted
  PROVE  Reaches(id, named) = g
<1>. DEFINE points   == CancelPoints(id, named)
            target   == Reaches(id, named)
            grant    == mem.grants[target]
            held     == target # 0 /\ HoldsCapacity(grant.state)
            revoked  == Terminated(grant, "Revoked")
            engine   == IF held THEN [mem EXCEPT !.grants[target] = revoked] ELSE mem
            image    == IF held THEN WriteGrant(disk, target, revoked, mem.tick) ELSE disk
            attempt  == IF named # None /\ mem.attempts[named].known THEN named
                        ELSE grant.attempt
            marked   == [engine EXCEPT !.attempts[attempt].cancelled = TRUE]
            noted    == WriteCancel(image, attempt, mem.tick)
            first    == Point(mem, disk, "Indeterminate")
            revoking == IF held THEN << first >> ELSE << >>
            marking  == IF mem.attempts[attempt].known
                        THEN << Point(engine, image, "Indeterminate"),
                                Point(marked, noted, "Cancelled") >>
                        ELSE << Point(engine, image, "Cancelled") >>
<1>1. CoreInv /\ up /\ mem \in Engine /\ \E a : Answers(points, a)
  BY DEF Inv, CoreInv, Cancel
<1>2. target \in GrantIds \cup {0}
  BY <1>1, ReachesType
<1>3. points \in Seq(SafePoints) /\ Len(points) >= 1
  BY <1>1, CancelPointsSafe
<1>4. Rowed(mem) /\ Rowed(disk)
  BY <1>1, RowedTables
<1>5. points = revoking \o marking
  BY DEF CancelPoints
<1>. HIDE DEF points
<1>6. /\ Apart(mem, mem, {target}) /\ Apart(disk, disk, {target})
      /\ Apart(mem, engine, {target}) /\ Apart(disk, image, {target})
  <2>. HIDE DEF target, revoked, grant
  <2>1. Apart(mem, mem, {target}) /\ Apart(disk, disk, {target})
    BY <1>4, ApartSame
  <2>2. held => Apart(mem, [mem EXCEPT !.grants[target] = revoked], {target})
    BY <1>2, <1>4, TurnedApart
  <2>3. held => Apart(disk, WriteGrant(disk, target, revoked, mem.tick), {target})
    BY <1>2, <1>4, OneWrittenApart
  <2>. QED BY <2>1, <2>2, <2>3
<1>. HIDE DEF engine, image
<1>7. Apart(mem, marked, {target})
  <2>. HIDE DEF attempt, target
  <2>1. Apart(engine, marked, {target})
    BY <1>6 DEF Apart, Rowed
  <2>. HIDE DEF marked
  <2>. QED BY <1>6, <2>1, ApartOn
<1>8. Apart(disk, noted, {target})
  <2>. HIDE DEF attempt, target
  <2>0. Rowed(image)
    BY <1>6 DEF Apart
  <2>1. Apart(image, noted, {target})
    BY <2>0, OneNotedApart DEF WriteCancel
  <2>. HIDE DEF noted
  <2>. QED BY <1>6, <2>1, ApartOn
<1>. HIDE DEF target, marked, noted, held, attempt
<1>9. Touches(points, {target})
  <2>1. Touches(revoking, {target})
    BY <1>6 DEF Touches, Point
  <2>2. Touches(marking, {target})
    BY <1>6, <1>7, <1>8 DEF Touches, Point
  <2>3. revoking \in Seq({first})
    <3>. HIDE DEF first
    <3>1. << first >> \in Seq({first}) /\ << >> \in Seq({first})
      OBVIOUS
    <3>2. revoking \in {<< first >>, << >>}
      OBVIOUS
    <3>. QED BY <3>1, <3>2
  <2>4. \E S : marking \in Seq(S)
    <3>. DEFINE p == Point(engine, image, "Indeterminate")
                q == Point(marked, noted, "Cancelled")
                r == Point(engine, image, "Cancelled")
    <3>1. marking \in {<< p, q >>, << r >>}
      OBVIOUS
    <3>. HIDE DEF marking, p, q, r
    <3>2. << p, q >> \in Seq({p, q, r}) /\ << r >> \in Seq({p, q, r})
      BY TwoPoints
    <3>. QED BY <3>1, <3>2
  <2>. HIDE DEF revoking, marking
  <2>. QED BY <1>5, <2>1, <2>2, <2>3, <2>4, JoinedTouches
<1>10. g \in {target}
  BY <1>1, <1>3, <1>9, PerformsAmong
<1>. QED BY <1>10 DEF target

LEMMA AcknowledgeSpares ==
  ASSUME Inv, Books, NEW id \in GrantIds, NEW lease, Acknowledge(id, lease), NEW g \in Lifted
  PROVE  Acknowledge(g, g)
<1>. DEFINE points  == AcknowledgePoints(id)
            lifted  == IsQuarantined(mem.grants[id].state)
            grant   == IF lifted THEN Revalidated(mem, mem.grants[id]) ELSE mem.grants[id]
            engine  == [mem EXCEPT !.grants[id] = grant]
            image   == IF lifted THEN WriteGrant(disk, id, grant, mem.tick) ELSE disk
            row     == [grant EXCEPT !.acked = TRUE, !.state = "Acknowledged",
                                     !.commit = "Acknowledged"]
            settled == [engine EXCEPT !.grants[id] = row]
            written == WriteGrant(image, id, [grant EXCEPT !.state = "Acknowledged"], mem.tick)
            first   == << Point(mem, disk, "Indeterminate") >>
            waiting == Point(engine, image, "Indeterminate")
            done    == Point(settled, written, GrantOutcome(grant))
            rest    == IF grant.state = "Committed" THEN << waiting, done >>
                       ELSE << Point(engine, image, "Fenced") >>
<1>1. /\ CoreInv /\ up /\ mem \in Engine /\ lease = id
      /\ Completes(points) \/ CrashesIn(points)
  BY DEF Inv, CoreInv, Acknowledge
<1>2. points \in Seq(SafePoints) /\ Len(points) >= 1
  BY <1>1, AcknowledgePointsSafe DEF Acknowledge
<1>3. Rowed(mem) /\ Rowed(disk)
  BY <1>1, RowedTables
<1>4. points = IF ~lifted THEN << waiting, done >> ELSE first \o rest
  BY DEF AcknowledgePoints
<1>. HIDE DEF points
<1>5. /\ Apart(mem, mem, {id}) /\ Apart(disk, disk, {id})
      /\ Apart(mem, engine, {id}) /\ Apart(disk, image, {id})
  <2>. HIDE DEF grant
  <2>1. Apart(mem, mem, {id}) /\ Apart(disk, disk, {id})
    BY <1>3, ApartSame
  <2>2. Apart(mem, engine, {id})
    BY <1>3, TurnedApart
  <2>3. Apart(disk, WriteGrant(disk, id, grant, mem.tick), {id})
    BY <1>3, OneWrittenApart
  <2>. QED BY <2>1, <2>2, <2>3
<1>. HIDE DEF engine, image
<1>6. Apart(mem, settled, {id})
  <2>. HIDE DEF row
  <2>0. Rowed(engine)
    BY <1>5 DEF Apart
  <2>1. Apart(engine, settled, {id})
    BY <2>0, TurnedApart
  <2>. HIDE DEF settled
  <2>. QED BY <1>5, <2>1, ApartOn
<1>7. Apart(disk, written, {id})
  <2>. DEFINE last == [grant EXCEPT !.state = "Acknowledged"]
  <2>. HIDE DEF last
  <2>0. Rowed(image)
    BY <1>5 DEF Apart
  <2>1. Apart(image, written, {id})
    BY <2>0, OneWrittenApart DEF last
  <2>. HIDE DEF written
  <2>. QED BY <1>5, <2>1, ApartOn
<1>. HIDE DEF grant, lifted, settled, written
<1>8. Touches(points, {id})
  <2>1. Touches(<< waiting, done >>, {id}) /\ Touches(first, {id}) /\ Touches(rest, {id})
    BY <1>5, <1>6, <1>7 DEF Touches, Point
  <2>2. first \in Seq({first[1]})
    OBVIOUS
  <2>3. \E S : rest \in Seq(S)
    <3>. DEFINE r == Point(engine, image, "Fenced")
    <3>1. rest \in {<< waiting, done >>, << r >>}
      OBVIOUS
    <3>. HIDE DEF rest, waiting, done, r
    <3>2. << waiting, done >> \in Seq({waiting, done, r}) /\ << r >> \in Seq({waiting, done, r})
      BY TwoPoints
    <3>. QED BY <3>1, <3>2
  <2>. HIDE DEF first, rest, waiting, done
  <2>. QED BY <1>4, <2>1, <2>2, <2>3, JoinedTouches
<1>9. g \in {id}
  BY <1>1, <1>2, <1>8, LiftedAmong
<1>. QED BY <1>1, <1>9

\* An answer, and the end of an engine, touch no grant.
LEMMA IdleSpares ==
  ASSUME disk' = disk, up' => mem' = mem
  PROVE  Lifted = {}
  BY DEF Lifted

LEMMA StopSpares == ASSUME Stop PROVE Lifted = {}
  BY IdleSpares DEF Stop, Falls

LEMMA TellsSpares == ASSUME NEW a, NEW outcome, Tells(a, outcome) PROVE Lifted = {}
  BY IdleSpares DEF Tells

\* A start lifts nothing if none of its points has a record that does.
LEMMA StartsSpares ==
  ASSUME Inv, NEW S, NEW points \in Seq(S), Len(points) >= 1, NEW records, Starts(points, records),
         \A n \in 1..Len(points) : \A g \in GrantIds :
           IsQuarantined(disk.grants[g].state) => IsQuarantined(points[n].disk.grants[g].state)
  PROVE  Lifted = {}
<1>1. ~up
  BY DEF Starts
<1>2. \E k \in 1..Len(points) : Persists(points, k, records)
  <2>1. Reached(points, records) \in 1..Len(points)
    BY ReachedType DEF Inv, CoreInv
  <2>2. \E k \in 1..Reached(points, records) : Persists(points, k, records)
    <3>1. Reached(points, records) \in 1..Reached(points, records)
      BY <2>1
    <3>. QED BY <3>1 DEF Starts
  <2>. QED BY <2>1, <2>2
<1>. QED BY <1>1, <1>2 DEF Lifted, Persists

\* The first start of a log finds no grant in it.
LEMMA InitializeSpares == ASSUME Inv, Books, Initialize PROVE Lifted = {}
<1>1. disk = EmptyImage
  BY DEF Books, Tables, Initialize
<1>2. \A g \in GrantIds : ~IsQuarantined(disk.grants[g].state)
  BY <1>1 DEF EmptyImage, NoGrants, NoGrant, IsQuarantined
<1>3. \E S : InitializePoints \in Seq(S) /\ Len(InitializePoints) >= 1
  <2>. DEFINE p == InitializePoints[1]
              q == InitializePoints[2]
              r == InitializePoints[3]
  <2>1. InitializePoints = << p, q, r >>
    BY DEF InitializePoints
  <2>. HIDE DEF p, q, r
  <2>2. << p, q, r >> \in Seq({p, q, r}) /\ Len(<< p, q, r >>) >= 1
    OBVIOUS
  <2>. QED BY <2>1, <2>2
<1>. QED BY <1>2, <1>3, StartsSpares DEF Initialize

\* What a recovery journals is about live grants.
LEMMA RecoverSpares == ASSUME Inv, Books, Recover PROVE Lifted = {}
<1>. DEFINE engine  == Recovered
            records == RepairOf(engine, Cardinality(GrantIds))
            first   == Point(NoEngine, disk, None)
            points  == RecoverPoints(engine)
<1>1. disk \in Image /\ disk.spec.bound /\ starts \in Nat /\ Starts(points, Options.attaches)
  BY CoreAssumption DEF Inv, CoreInv, Recover
<1>2. engine.grants = disk.grants
  BY <1>1, RecoveredType
<1>3. points = [k \in 1..records + 1 |-> IF k = 1 THEN first
                                         ELSE RecoverPoint(engine, k - 1)]
  BY DEF RecoverPoints
<1>. HIDE DEF engine
<1>4. records \in Nat
  BY RecordsEnough
<1>. HIDE DEF records, first
<1>5. PICK S : \A k \in 1..records + 1 : points[k] \in S
  <2>1. \A k \in 1..records + 1 : points[k] \in {points[j] : j \in 1..records + 1}
    OBVIOUS
  <2>. QED BY <2>1
<1>6. points \in Seq(S) /\ Len(points) = records + 1
  <2>1. points \in [1..records + 1 -> S]
    BY <1>3, <1>5
  <2>2. records + 1 \in Nat
    BY <1>4
  <2>. HIDE DEF points
  <2>. QED BY <2>1, <2>2
<1>7. \A n \in 1..records + 1 : points[n] = first \/ \E k : points[n] = RecoverPoint(engine, k)
  BY <1>3
<1>. HIDE DEF points
<1>8. ASSUME NEW k, NEW g \in GrantIds, IsQuarantined(disk.grants[g].state)
      PROVE  RecoverPoint(engine, k).disk.grants[g] = disk.grants[g]
  <2>. DEFINE live     == Live(engine.grants)
              recorded == {h \in live : AppendOf(engine, h) <= k}
              rows     == [h \in GrantIds |->
                             IF h \in Settles(engine) THEN Settled(engine.grants[h])
                             ELSE Revalidated(engine, engine.grants[h])]
              grants   == Rewritten(engine.grants, recorded \cup Settles(engine), rows)
              settled  == SettledAttempts(engine)
              orphans  == Orphans(engine)
              attempts == [a \in Attempts |->
                             IF a \in AttemptsOf(engine.grants, orphans)
                             THEN Repaired(grants, GrantOf(engine.grants, orphans, a))
                             ELSE settled[a]]
              noted    == {h \in Settles(engine) : AppendOf(engine, h) < k}
                            \cup {h \in orphans : RepairOf(engine, h) <= k}
              begun    == WriteEpoch(disk, engine.tick)
              written  == WriteGrants(begun, recorded, rows, engine.tick)
              last     == WriteAttempts(written, AttemptsOf(engine.grants, noted), attempts,
                                        engine.tick)
  <2>1. RecoverPoint(engine, k).disk = last
    BY DEF RecoverPoint, Point
  <2>2. recorded \subseteq live /\ g \notin live
    BY <1>2, <1>8 DEF Live, IsLive, IsQuarantined
  <2>. HIDE DEF live, recorded, rows, attempts, noted
  <2>3. Rowed(begun) /\ begun.grants = disk.grants
    BY <1>1 DEF WriteEpoch, Rowed, Image
  <2>. HIDE DEF begun
  <2>4. Apart(begun, written, live)
    BY <2>2, <2>3, WrittenApart
  <2>5. Rowed(written)
    BY <2>4 DEF Apart
  <2>. HIDE DEF written
  <2>6. Apart(written, last, live)
    BY <2>5, NotedApart
  <2>. HIDE DEF last
  <2>. QED BY <2>1, <2>2, <2>3, <2>4, <2>6 DEF Apart
<1>9. first.disk = disk
  BY DEF first, Point
<1>10. \A n \in 1..Len(points) : \A g \in GrantIds :
         IsQuarantined(disk.grants[g].state) => IsQuarantined(points[n].disk.grants[g].state)
  BY <1>6, <1>7, <1>8, <1>9
<1>11. Len(points) >= 1
  BY <1>4, <1>6
<1>. QED BY <1>1, <1>6, <1>10, <1>11, StartsSpares

\* What a step may do to a quarantined grant.
LiftedRightly(g) ==
  \/ \E id \in GrantIds \cup {0}, attempt \in Attempts \cup {None},
        lease \in GrantIds \cup {0} :
       Reaches(id, attempt) = g /\ Release(id, attempt, lease)
  \/ \E id \in GrantIds \cup {0}, attempt \in Attempts \cup {None} :
       Reaches(id, attempt) = g /\ Cancel(id, attempt)
  \/ Acknowledge(g, g)
  \/ FenceAll
  \/ /\ \E request \in Requests, view \in Views :
          request.renews = g /\ Renew(request, view)
     /\ up' => IsQuarantined(mem'.grants[g].state)

LEMMA NextLifts == ASSUME Inv, Books, Next, NEW g \in Lifted PROVE LiftedRightly(g)
<1>1. CASE Initialize
  BY <1>1, InitializeSpares
<1>2. CASE Recover
  BY <1>2, RecoverSpares
<1>3. CASE Stop
  BY <1>3, StopSpares
<1>4. CASE \E request \in Requests, view \in Views :
             \/ Replay(request, view) \/ Refuse(request, view)
             \/ Issue(request, view) \/ Renew(request, view)
  <2>1. PICK request \in Requests, view \in Views :
               \/ Replay(request, view) \/ Refuse(request, view)
               \/ Issue(request, view) \/ Renew(request, view)
    BY <1>4
  <2>2. ~Replay(request, view) /\ ~Refuse(request, view)
    BY TellsSpares DEF Replay, Refuse
  <2>3. ~Issue(request, view)
    BY IssueSpares
  <2>4. CASE Renew(request, view)
    BY <2>4, RenewSpares DEF LiftedRightly
  <2>. QED BY <2>1, <2>2, <2>3, <2>4
<1>5. CASE \E id \in GrantIds \cup {0}, attempt \in Attempts \cup {None},
             lease \in GrantIds \cup {0} : Release(id, attempt, lease)
  BY <1>5, ReleaseSpares DEF LiftedRightly
<1>6. CASE \E attempt \in Attempts : Resolve(attempt)
  BY <1>6, TellsSpares DEF Resolve
<1>7. CASE \E id \in GrantIds, lease \in GrantIds : Acknowledge(id, lease)
  BY <1>7, AcknowledgeSpares DEF LiftedRightly
<1>8. CASE \E id \in GrantIds \cup {0}, attempt \in Attempts \cup {None} :
             CancelForm(id, attempt) \in CancelForms /\ Cancel(id, attempt)
  BY <1>8, CancelSpares DEF LiftedRightly
<1>9. CASE \E command \in Commands : Administer(command)
  BY <1>9, AdministerSpares
<1>10. CASE FenceAll
  BY <1>10 DEF LiftedRightly
<1>11. CASE Revalidate
  BY <1>11, RevalidateSpares
<1>12. CASE \E tick \in 0..MaxTick : AdvanceTick(tick)
  BY <1>12, AdvanceTickSpares
<1>13. CASE Compact
  BY <1>13, CompactSpares
<1>14. CASE HousekeepingRound \/ CompactingRound \/ CrashingRound
  BY <1>14, RoundSpares
<1>. QED BY <1>1, <1>2, <1>3, <1>4, <1>5, <1>6, <1>7, <1>8, <1>9, <1>10, <1>11, <1>12,
            <1>13, <1>14 DEF Next

LEMMA StillLifts == ASSUME UNCHANGED vars PROVE Lifted = {}
  BY DEF Lifted, vars

\* A quarantined grant, in the log or in the engine, leaves quarantine only by a
\* release, a cancel or an acknowledgement that reaches it, or by fence_all; a renewal
\* leaves it quarantined in the engine, whatever its record says.
THEOREM WaitsForItsCaller == Spec => QuarantineWaits
<1>1. Inv /\ Books /\ [Next]_vars => [\A g \in Lifted : LiftedRightly(g)]_vars
  BY NextLifts, StillLifts
<1>. QED BY <1>1, Invariance, PTL DEF Spec, QuarantineWaits, LiftedRightly

-------------------------------------------------------------------------------
(* Starts *)

\* Only a start brings the daemon up.
LEMMA OnlyStarts == ASSUME Next, ~up PROVE Initialize \/ Recover
<1>1. /\ ~Stop /\ ~FenceAll /\ ~Revalidate /\ ~Compact
      /\ ~HousekeepingRound /\ ~CompactingRound /\ ~CrashingRound
  BY DEF Stop, FenceAll, Revalidate, Compact, HousekeepingRound, CompactingRound,
         CrashingRound
<1>2. \A request, view :
        /\ ~Replay(request, view) /\ ~Refuse(request, view)
        /\ ~Issue(request, view) /\ ~Renew(request, view)
  BY DEF Replay, Refuse, Issue, Renew
<1>3. \A id, attempt, lease : ~Release(id, attempt, lease)
  BY DEF Release
<1>4. \A attempt : ~Resolve(attempt)
  BY DEF Resolve
<1>5. \A id, lease : ~Acknowledge(id, lease)
  BY DEF Acknowledge
<1>6. \A id, attempt : ~Cancel(id, attempt)
  BY DEF Cancel
<1>7. \A command : ~Administer(command)
  BY DEF Administer
<1>8. \A tick : ~AdvanceTick(tick)
  BY DEF AdvanceTick
<1>. QED BY <1>1, <1>2, <1>3, <1>4, <1>5, <1>6, <1>7, <1>8 DEF Next

LEMMA InitializeFences ==
  ASSUME Inv, Books, Initialize, up'
  PROVE  mem'.spec.epoch > disk.spec.epoch
<1>. DEFINE bound == [disk EXCEPT
                        !.spec = [UnboundSpec EXCEPT !.bound = TRUE, !.policy = 1],
                        !.tick = Greatest(@, 1)]
            points == << Point(NoEngine, disk, None), Point(NoEngine, bound, None),
                         Point(Fresh, WriteEpoch(bound, 1), None) >>
<1>1. InitializePoints = points
  BY DEF InitializePoints
<1>. HIDE DEF bound
<1>2. mem' = points[3].mem
  BY <1>1 DEF Initialize, Starts, Falls
<1>3. points[3] = Point(Fresh, WriteEpoch(bound, 1), None)
  OBVIOUS
<1>4. mem' = Fresh
  BY <1>2, <1>3 DEF Point
<1>5. UnboundSpec \in ClusterSpecs /\ disk.spec = UnboundSpec
  <2>1. disk = EmptyImage /\ disk \in Image
    BY DEF Initialize, Books, Tables, Inv, CoreInv
  <2>2. disk.spec = UnboundSpec
    BY <2>1 DEF EmptyImage
  <2>. QED BY <2>1, <2>2, ImageFields
<1>6. disk.spec.epoch = 0
  BY <1>5 DEF UnboundSpec
<1>7. mem'.spec.epoch = 1
  <2>. DEFINE spec == [UnboundSpec EXCEPT !.bound = TRUE, !.policy = 1,
                                          !.generation = 1, !.epoch = 1]
              incarnation == starts + 1
  <2>1. spec.epoch = 1
    BY <1>5 DEF ClusterSpecs
  <2>2. Fresh = [NoEngine EXCEPT !.spec = spec, !.tick = 1, !.incarnation = incarnation]
    BY DEF Fresh
  <2>. HIDE DEF spec, incarnation
  <2>3. NoEngine \in Engine
    BY NoEngineType
  <2>4. Fresh.spec = spec
    BY <2>2, <2>3 DEF Engine
  <2>. QED BY <1>4, <2>1, <2>4
<1>. QED BY <1>6, <1>7

LEMMA RecoverFences ==
  ASSUME Inv, Books, Recover, Options.attaches, up'
  PROVE  mem'.spec.epoch > disk.spec.epoch
<1>. DEFINE engine  == Recovered
            records == RepairOf(engine, Cardinality(GrantIds))
            first   == Point(NoEngine, disk, None)
            points  == RecoverPoints(engine)
            n       == Reached(points, TRUE)
<1>1. /\ disk \in Image /\ disk.spec.bound /\ disk.replays /\ starts \in Nat
      /\ Options.attaches = TRUE
  BY CoreAssumption, EligibilityAssumption DEF Inv, CoreInv, Recover
<1>2. n > 1 /\ Starts(points, TRUE)
  BY <1>1 DEF Recover
<1>3. mem' = points[n].mem
  BY <1>2 DEF Starts, Falls
<1>4. Resumes(engine)
  BY <1>1, RecoveredResumes
<1>5. points = [k \in 1..records + 1 |-> IF k = 1 THEN first
                                         ELSE RecoverPoint(engine, k - 1)]
  BY DEF RecoverPoints
<1>. HIDE DEF engine
<1>6. records \in Nat
  BY RecordsEnough
<1>. HIDE DEF records, first
<1>7. PICK S : \A k \in 1..records + 1 : points[k] \in S
  <2>1. \A k \in 1..records + 1 : points[k] \in {points[j] : j \in 1..records + 1}
    OBVIOUS
  <2>. QED BY <2>1
<1>8. points \in Seq(S) /\ Len(points) = records + 1
  <2>1. points \in [1..records + 1 -> S]
    BY <1>5, <1>7
  <2>2. records + 1 \in Nat
    BY <1>6
  <2>. HIDE DEF points
  <2>. QED BY <2>1, <2>2
<1>. HIDE DEF points
<1>9. n \in 1..records + 1
  <2>1. Len(points) >= 1
    BY <1>6, <1>8
  <2>2. n \in 1..Len(points)
    BY <1>8, <2>1, ReachedType DEF Inv, CoreInv
  <2>. QED BY <1>8, <2>2
<1>. HIDE DEF n
<1>10. n # 1
  BY <1>2, <1>9
<1>11. points[n] = RecoverPoint(engine, n - 1)
  BY <1>5, <1>9, <1>10
<1>12. Resumed(engine, n - 1, points[n].mem, points[n].disk)
  BY <1>1, <1>4, <1>11, RecoverResumed
<1>13. mem'.spec = EpochBegun(disk.spec)
  BY <1>3, <1>4, <1>12 DEF Resumed, Resumes
<1>14. disk.spec \in ClusterSpecs /\ disk.spec.epoch \in Nat
  BY <1>1, ImageFields DEF ClusterSpecs
<1>15. mem'.spec.epoch = disk.spec.epoch + 1
  BY <1>13, <1>14, EpochBegunType
<1>. QED BY <1>14, <1>15

\* A start that comes up rules in an epoch of its own, which the log has, where the
\* engine writes to the log at all.
THEOREM FencesEveryStart ==
  ASSUME Options.attaches
  PROVE  Spec => StartsAreFenced
<1>1. ASSUME Inv, Books, Inv', Books', [Next]_vars, ~up, up'
      PROVE  /\ mem'.spec.epoch > disk.spec.epoch
             /\ disk'.spec.epoch = mem'.spec.epoch
  <2>1. Next
    BY <1>1 DEF vars
  <2>2. Initialize \/ Recover
    BY <1>1, <2>1, OnlyStarts
  <2>3. mem'.spec.epoch > disk.spec.epoch
    BY <1>1, <2>2, InitializeFences, RecoverFences
  <2>4. sink' = "journal"
    <3>1. sink' # "memory"
      BY <1>1 DEF Books, Words
    <3>2. sink' \in {"journal", "memory"}
      BY <1>1 DEF Inv, CoreInv
    <3>. QED BY <3>1, <3>2
  <2>5. disk'.spec = mem'.spec
    BY <1>1, <2>4 DEF Books, Tables, Good
  <2>. QED BY <2>3, <2>5
<1>2. Inv /\ Books /\ (Inv /\ Books)' /\ [Next]_vars =>
        [~up /\ up' => /\ mem'.spec.epoch > disk.spec.epoch
                       /\ disk'.spec.epoch = mem'.spec.epoch]_vars
  BY <1>1
<1>. QED BY <1>2, Invariance, PTL DEF Spec, StartsAreFenced

-------------------------------------------------------------------------------
(* The ledger *)

LEMMA StatusKinds ==
  \A state : /\ LedgerStatus(state) \in {"free", "offered", "held", "quarantined", "ended"}
             /\ LedgerStatus("Absent") = "free"
BY DEF LedgerStatus

\* Rows that change as Ledgered says are a step of the ledger.
LEMMA LedgerSteps ==
  ASSUME Ledgered(disk.grants, disk'.grants)
  PROVE  [Ledger!LedgerNext]_(Ledger!ledger)
<1>. DEFINE status == [g \in GrantIds |-> LedgerStatus(disk.grants[g].state)]
            owner  == [g \in GrantIds |-> disk.grants[g].attempt]
            status1 == [g \in GrantIds |-> LedgerStatus(disk'.grants[g].state)]
            owner1  == [g \in GrantIds |-> disk'.grants[g].attempt]
            same(g) == status1[g] = status[g] /\ owner1[g] = owner[g]
<1>1. \A g \in GrantIds :
        /\ Status(disk.grants[g]) = status[g] /\ Status(disk'.grants[g]) = status1[g]
        /\ disk.grants[g].attempt = owner[g] /\ disk'.grants[g].attempt = owner1[g]
  BY DEF Status
<1>2. \A g \in GrantIds : SameEntry(disk.grants[g], disk'.grants[g]) <=> same(g)
  BY <1>1 DEF SameEntry
<1>3. CASE Ends(disk.grants, disk'.grants)
  <2>. DEFINE ids == {g \in GrantIds : ~same(g)}
  <2>1. \A g \in GrantIds :
          \/ same(g)
          \/ /\ status[g] \in {"held", "quarantined"} /\ status1[g] = "ended"
             /\ owner1[g] = owner[g]
    BY <1>1, <1>2, <1>3 DEF Ends
  <2>2. \A g \in GrantIds : owner1[g] = owner[g]
    BY <2>1
  <2>3. owner1 = owner
    BY <2>2
  <2>4. CASE ids = {}
    <3>1. \A g \in GrantIds : status1[g] = status[g]
      BY <2>4
    <3>2. status1 = status
      BY <3>1
    <3>. QED BY <2>3, <3>2 DEF Ledger!ledger
  <2>5. CASE ids # {}
    <3>1. \A g \in GrantIds : status1[g] = IF g \in ids THEN "ended" ELSE status[g]
      BY <2>1
    <3>2. status1 = [g \in GrantIds |-> IF g \in ids THEN "ended" ELSE status[g]]
      BY <3>1
    <3>3. \A g \in ids : g \in GrantIds /\ status[g] \in {"held", "quarantined"}
      BY <2>1
    <3>. HIDE DEF ids
    <3>4. ids \in SUBSET (Ledger!In("held") \cup Ledger!In("quarantined"))
      BY <3>3 DEF Ledger!In
    <3>5. Ledger!End(ids)
      BY <2>3, <2>5, <3>2 DEF Ledger!End, Ledger!Move
    <3>. QED BY <3>4, <3>5 DEF Ledger!LedgerNext
  <2>. QED BY <2>4, <2>5
<1>4. CASE Lifts(disk.grants, disk'.grants)
  <2>1. PICK id \in GrantIds :
          /\ status[id] = "quarantined" /\ status1[id] = "held" /\ owner1[id] = owner[id]
          /\ \A g \in GrantIds : g # id => same(g)
    BY <1>1, <1>2, <1>4 DEF Lifts
  <2>2. \A g \in GrantIds :
          owner1[g] = owner[g] /\ status1[g] = IF g \in {id} THEN "held" ELSE status[g]
    BY <2>1
  <2>3. /\ owner1 = owner
        /\ status1 = [g \in GrantIds |-> IF g \in {id} THEN "held" ELSE status[g]]
    BY <2>2
  <2>4. Ledger!Lift(id)
    BY <2>1, <2>3 DEF Ledger!Lift, Ledger!Move
  <2>. QED BY <2>4 DEF Ledger!LedgerNext
<1>5. CASE Enters(disk.grants, disk'.grants)
  <2>1. PICK id \in GrantIds :
          /\ status[id] = "free" /\ status1[id] \in {"offered", "held"}
          /\ owner1[id] \in Attempts
          /\ \A g \in GrantIds : owner[g] # owner1[id]
          /\ \A g \in GrantIds : g # id => same(g)
    BY <1>1, <1>2, <1>5 DEF Enters
  <2>a. PICK a : a = owner1[id]
    OBVIOUS
  <2>b. PICK s : s = status1[id]
    OBVIOUS
  <2>2. status1 = [status EXCEPT ![id] = s] /\ owner1 = [owner EXCEPT ![id] = a]
    <3>1. \A g \in GrantIds : /\ status1[g] = IF g = id THEN s ELSE status[g]
                              /\ owner1[g] = IF g = id THEN a ELSE owner[g]
      BY <2>1, <2>a, <2>b
    <3>2. /\ status1 = [g \in GrantIds |-> IF g = id THEN s ELSE status[g]]
          /\ owner1 = [g \in GrantIds |-> IF g = id THEN a ELSE owner[g]]
      BY <3>1
    <3>3. /\ [status EXCEPT ![id] = s] = [g \in GrantIds |-> IF g = id THEN s ELSE status[g]]
          /\ [owner EXCEPT ![id] = a] = [g \in GrantIds |-> IF g = id THEN a ELSE owner[g]]
      OBVIOUS
    <3>. QED BY <3>2, <3>3
  <2>3. /\ s \in {"offered", "held"} /\ a \in Attempts /\ status[id] = "free"
        /\ \A g \in GrantIds : owner[g] # a
    BY <2>1, <2>a, <2>b
  <2>4. Ledger!Enter(id, a)
    BY <2>2, <2>3 DEF Ledger!Enter
  <2>5. \E g \in GrantIds, b \in Attempts : Ledger!Enter(g, b)
    BY <2>3, <2>4
  <2>. QED BY <2>5 DEF Ledger!LedgerNext
<1>6. CASE Settlements(disk.grants, disk'.grants)
  <2>a. PICK gone : gone = {g \in GrantIds : ~same(g) /\ status1[g] = "free"}
    OBVIOUS
  <2>b. PICK held : held = {g \in GrantIds : ~same(g) /\ status1[g] = "quarantined"}
    OBVIOUS
  <2>c. PICK over : over = {g \in GrantIds : ~same(g) /\ status1[g] = "ended"}
    OBVIOUS
  <2>1. \A g \in GrantIds :
          \/ same(g)
          \/ status[g] = "offered" /\ status1[g] = "free" /\ owner1[g] = None
          \/ status[g] = "offered" /\ status1[g] = "ended" /\ owner1[g] = owner[g]
          \/ /\ status[g] = "held" /\ status1[g] \in {"quarantined", "ended"}
             /\ owner1[g] = owner[g]
    BY <1>1, <1>2, <1>6 DEF Settlements, Settlement
  <2>2. CASE gone \cup held \cup over = {}
    <3>1. \A g \in GrantIds : same(g)
      BY <2>1, <2>2, <2>a, <2>b, <2>c
    <3>2. status1 = status /\ owner1 = owner
      BY <3>1
    <3>. QED BY <3>2 DEF Ledger!ledger
  <2>3. CASE gone \cup held \cup over # {}
    <3>1. \A g \in GrantIds :
            /\ status1[g] = IF g \in gone THEN "free"
                            ELSE IF g \in held THEN "quarantined"
                            ELSE IF g \in over THEN "ended" ELSE status[g]
            /\ owner1[g] = IF g \in gone THEN None ELSE owner[g]
      BY <2>1, <2>a, <2>b, <2>c
    <3>2. /\ gone \in SUBSET {g \in GrantIds : status[g] = "offered"}
          /\ held \in SUBSET {g \in GrantIds : status[g] = "held"}
          /\ over \in SUBSET ({g \in GrantIds : status[g] = "offered"}
                                \cup {g \in GrantIds : status[g] = "held"})
      BY <2>1, <2>a, <2>b, <2>c
    <3>3. /\ status1 = [g \in GrantIds |-> IF g \in gone THEN "free"
                                           ELSE IF g \in held THEN "quarantined"
                                           ELSE IF g \in over THEN "ended" ELSE status[g]]
          /\ owner1 = [g \in GrantIds |-> IF g \in gone THEN None ELSE owner[g]]
      BY <3>1
    <3>4. Ledger!Settle(gone, held, over)
      BY <2>3, <3>3 DEF Ledger!Settle
    <3>5. /\ Ledger!In("offered") = {g \in GrantIds : status[g] = "offered"}
          /\ Ledger!In("held") = {g \in GrantIds : status[g] = "held"}
      BY DEF Ledger!In
    <3>6. /\ gone \in SUBSET Ledger!In("offered") /\ held \in SUBSET Ledger!In("held")
          /\ over \in SUBSET (Ledger!In("offered") \cup Ledger!In("held"))
      BY <3>2, <3>5
    <3>7. \E forgotten \in SUBSET Ledger!In("offered"),
             quarantined \in SUBSET Ledger!In("held"),
             ended \in SUBSET (Ledger!In("offered") \cup Ledger!In("held")) :
            Ledger!Settle(forgotten, quarantined, ended)
      BY <3>4, <3>6
    <3>. QED BY <3>7 DEF Ledger!LedgerNext
  <2>. QED BY <2>2, <2>3
<1>. QED BY <1>3, <1>4, <1>5, <1>6 DEF Ledgered

\* Seen through its log, the engine is a ledger, where its tables can hold every id:
\* one grant for an attempt, quarantine left one grant at a time, and an end for good,
\* whatever crashes and restarts.
THEOREM KeepsALedger ==
  ASSUME TableSuffices
  PROVE  Spec => ImplementsLedger
<1>1. ASSUME Init PROVE Ledger!LedgerInit
  <2>1. disk.grants = NoGrants
    BY <1>1, CoreAssumption DEF Init
  <2>2. \A g \in GrantIds : NoGrants[g].state = "Absent" /\ NoGrants[g].attempt = None
    BY DEF NoGrants, NoGrant
  <2>3. \A g \in GrantIds : /\ LedgerStatus(disk.grants[g].state) = "free"
                            /\ disk.grants[g].attempt = None
    BY <2>1, <2>2, StatusKinds
  <2>. QED BY <2>3 DEF Ledger!LedgerInit
<1>2. ASSUME Inv, Books, [Next]_vars PROVE [Ledger!LedgerNext]_(Ledger!ledger)
  BY <1>2, StepBooks, LedgerSteps DEF StepKeeps
<1>3. Init => Ledger!LedgerInit
  BY <1>1
<1>4. Inv /\ Books /\ [Next]_vars => [Ledger!LedgerNext]_(Ledger!ledger)
  BY <1>2
<1>. QED BY <1>3, <1>4, Invariance, PTL DEF Spec, ImplementsLedger, Ledger!LedgerSpec
===============================================================================
