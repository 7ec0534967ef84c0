----------------------------- MODULE AuthorityCore -----------------------------
(***************************************************************************)
(* The authority engine (src/authority.cpp) over the log it writes ahead to*)
(* (src/journal.cpp), started, recovered and ticked by the daemon          *)
(* (src/server.cpp).  The engine is a single-threaded reducer, so a handler*)
(* is one action; what can come between the steps of a handler is a refused*)
(* append, which takes the error path of the code, and a crash, which      *)
(* leaves what was appended so far.  A handler is therefore described by   *)
(* its points: point i is the engine, the log and the reply after i - 1 of *)
(* its appends.  A run of it completes at the last point the log has room  *)
(* for, or crashes at one of the points on the way.                        *)
(*                                                                         *)
(* "disk" is what replay_journal makes of the log: every record is folded  *)
(* into it as it is appended.                                              *)
(***************************************************************************)
EXTENDS Eligibility

CONSTANTS
  Requests,       \* the requests callers submit, each of well-formed shape
  Commands,       \* the administrative commands operators send
  InitialImages,  \* the logs the first start may find
  CancelForms,    \* what a cancel names: "attempt", "grant" or "both"
  TableLimit,     \* kMaxGrants and kMaxAttempts
  JournalBound,   \* appends the log takes between compactions; 0: never full
  MaxTick, MaxGeneration, MaxStarts  \* bounds on what the model explores

VARIABLES
  up,         \* the daemon runs
  sink,       \* where journal_entry goes: "journal", "memory", "none" if down
  mem,        \* the state of the engine
  disk,       \* the state the log replays to
  used,       \* appends the log holds, counted only if JournalBound # 0
  starts,     \* starts so far; each draws a fresh incarnation
  answered,   \* history: the last outcome told of an attempt
  acks        \* history: of each grant, whether its caller acknowledged it

vars == <<up, sink, mem, disk, used, starts, answered, acks>>

-------------------------------------------------------------------------------
(* State *)

Grant ==
  [state : GrantStates, commit : CommitStates, acked : BOOLEAN,
   degraded : BOOLEAN, attempt : Attempts \cup {None},
   contract : ContractIds \cup {None}, source : MemberIds \cup {None},
   target : MemberIds \cup {None}, sourceGen : Nat, targetGen : Nat,
   sourceDigest : Names \cup {None}, targetDigest : Names \cup {None},
   service : Names \cup {None}, path : PathIds \cup {0}, pathGen : Nat,
   resource : ResourceIds \cup {None}, units : Nat, requested : Nat,
   expiry : Nat, epoch : Nat]

NoGrant ==
  [state |-> "Absent", commit |-> "None", acked |-> FALSE,
   degraded |-> FALSE, attempt |-> None, contract |-> None, source |-> None,
   target |-> None, sourceGen |-> 0, targetGen |-> 0, sourceDigest |-> None,
   targetDigest |-> None, service |-> None, path |-> 0, pathGen |-> 0,
   resource |-> None, units |-> 0, requested |-> 0, expiry |-> 0, epoch |-> 0]

\* The coordinate a request is made against.  "cluster" tells whether it names
\* the cluster this controller rules.
View ==
  [cluster : BOOLEAN, generation : Nat, epoch : Nat, incarnation : Nat,
   policy : Nat]

\* The request digest binds every field, the coordinate included; None is the
\* zero digest of a reconstructed record.
Digest == [request : Requests, view : View] \cup {None}

Attempt ==
  [known : BOOLEAN, grant : GrantIds \cup {0}, outcome : Outcomes,
   released : BOOLEAN, cancelled : BOOLEAN, digest : Digest]

NoAttempt ==
  [known |-> FALSE, grant |-> 0, outcome |-> "Invalid", released |-> FALSE,
   cancelled |-> FALSE, digest |-> None]

\* AuthorityCore's fields.  counter is counters_.grants, serial grant_serial_;
\* lease_serial_ moves with it.
Engine ==
  [spec : ClusterSpecs, contracts : Table(ContractIds, Contract),
   grants : [GrantIds -> Grant], attempts : [Attempts -> Attempt],
   tick : Nat, counter : Nat, serial : Nat, incarnation : Nat]

\* RecoveredState; replays is FALSE once the log holds a record whose replay
\* returns an error.
Image ==
  [spec : ClusterSpecs, contracts : Table(ContractIds, Contract),
   grants : [GrantIds -> Grant], attempts : [Attempts -> Attempt],
   tick : Nat, counter : Nat, replays : BOOLEAN]

NoGrants == [g \in GrantIds |-> NoGrant]

NoAttempts == [a \in Attempts |-> NoAttempt]

EmptyImage ==
  [spec |-> UnboundSpec, contracts |-> EmptyTable(ContractIds), grants |-> NoGrants,
   attempts |-> NoAttempts, tick |-> 0, counter |-> 0, replays |-> TRUE]

NoEngine ==
  [spec |-> UnboundSpec, contracts |-> EmptyTable(ContractIds), grants |-> NoGrants,
   attempts |-> NoAttempts, tick |-> 0, counter |-> 0, serial |-> 0,
   incarnation |-> 0]

ASSUME CoreAssumption ==
  /\ GrantIds = 1..Cardinality(GrantIds)
  /\ Requests \subseteq Request
  /\ Commands \subseteq Command
  /\ \A image \in InitialImages :
       /\ image \in Image
       /\ image.grants = NoGrants /\ image.attempts = NoAttempts
       /\ image.counter = 0 /\ image.replays
       /\ ~image.spec.bound => image = EmptyImage
  /\ None \notin Outcomes \cup [request : Requests, view : View]
  /\ CancelForms \subseteq {"attempt", "grant", "both"}
  /\ {TableLimit, JournalBound, MaxTick, MaxGeneration, MaxStarts} \subseteq Nat

Present(grants) == {g \in GrantIds : grants[g].state # "Absent"}

Live(grants) == {g \in GrantIds : IsLive(grants[g].state)}

Known(attempts) == {a \in Attempts : attempts[a].known}

-------------------------------------------------------------------------------
(* Records and their replay *)

\* The k least members of a set of grant ids: loops run in id order.
Earliest(ids, k) == {g \in ids : Cardinality({h \in ids : h < g}) < k}

Rewritten(rows, ids, new) ==
  [x \in DOMAIN rows |-> IF x \in ids THEN new[x] ELSE rows[x]]

\* One grant record for each id, replayed in any order.
WriteGrants(image, ids, rows, now) ==
  IF ids = {} THEN image
  ELSE [image EXCEPT
          !.grants = Rewritten(@, ids, rows),
          !.tick = Greatest(@, now),
          !.replays = @ /\ Cardinality(Present(image.grants) \cup ids) <= TableLimit]

WriteGrant(image, id, grant, now) ==
  WriteGrants(image, {id}, [g \in GrantIds |-> grant], now)

WriteAttempts(image, ids, rows, now) ==
  IF ids = {} THEN image
  ELSE [image EXCEPT
          !.attempts = Rewritten(@, ids, rows),
          !.tick = Greatest(@, now),
          !.replays = @ /\ Cardinality(Known(image.attempts) \cup ids) <= TableLimit]

WriteAttempt(image, id, attempt, now) ==
  WriteAttempts(image, {id}, [a \in Attempts |-> attempt], now)

\* Mutant of WriteCommand: replay forgets the contracts.
WriteCommandToSpec(image, command, now) ==
  IF Accepts(image.spec, image.contracts, command)
  THEN [image EXCEPT !.spec = SpecAfter(@, command), !.tick = Greatest(@, now)]
  ELSE [image EXCEPT !.tick = Greatest(@, now), !.replays = FALSE]

\* A journaled command is applied again by replay, with the same validation.
WriteCommand(image, command, now) ==
  IF Accepts(image.spec, image.contracts, command)
  THEN [image EXCEPT !.spec = SpecAfter(@, command),
                     !.contracts = ContractsAfter(@, command),
                     !.tick = Greatest(@, now)]
  ELSE [image EXCEPT !.tick = Greatest(@, now), !.replays = FALSE]

WriteEpoch(image, now) ==
  [image EXCEPT !.spec = EpochBegun(@), !.tick = Greatest(@, now)]

\* make_snapshot, as the whole content of a compacted log.
Snapshot(engine) ==
  [spec |-> engine.spec, contracts |-> engine.contracts,
   grants |-> engine.grants, attempts |-> engine.attempts,
   tick |-> engine.tick, counter |-> engine.counter, replays |-> TRUE]

-------------------------------------------------------------------------------
(* Running a handler *)

Point(engine, image, reply) ==
  [mem |-> engine, disk |-> image, reply |-> reply]

\* Journal::append refuses from the bound on.  The in-memory sink never does.
Full(count) == JournalBound # 0 /\ sink = "journal" /\ count >= JournalBound

\* The point a handler comes to when each append that fits succeeds.
Reached(points, records) ==
  IF JournalBound = 0 \/ ~records THEN Len(points)
  ELSE Least(Len(points), 1 + JournalBound - Least(used, JournalBound))

Recorded(n) == IF JournalBound = 0 THEN used ELSE used + n - 1

\* The log after the first n - 1 appends; none arrives through the in-memory sink.
Persists(points, n, records) ==
  /\ disk' = IF records THEN points[n].disk ELSE disk
  /\ used' = IF records THEN Recorded(n) ELSE used

\* A crash loses the engine.
Falls ==
  /\ up' = FALSE
  /\ sink' = "none"
  /\ mem' = NoEngine
  /\ UNCHANGED answered

Completes(points) ==
  LET n == Reached(points, sink = "journal")
  IN  /\ mem' = points[n].mem
      /\ Persists(points, n, sink = "journal")
      /\ UNCHANGED <<up, sink, starts>>

CrashesIn(points) ==
  /\ \E n \in 1..Reached(points, sink = "journal") :
       Persists(points, n, sink = "journal")
  /\ Falls
  /\ UNCHANGED starts

\* A handler whose reply speaks of no attempt.
Performs(points) ==
  \/ Completes(points) /\ UNCHANGED <<answered, acks>>
  \/ CrashesIn(points) /\ UNCHANGED acks

\* A handler that tells its caller the outcome of an attempt.
Answers(points, attempt) ==
  \/ /\ Completes(points)
     /\ answered' = [answered EXCEPT
                       ![attempt] = points[Reached(points, sink = "journal")].reply]
     /\ UNCHANGED acks
  \/ CrashesIn(points) /\ UNCHANGED acks

\* A handler that only answers.
Tells(attempt, outcome) ==
  /\ answered' = [answered EXCEPT ![attempt] = outcome]
  /\ UNCHANGED <<up, sink, mem, disk, used, starts, acks>>

-------------------------------------------------------------------------------
(* Grants *)

\* terminate_grant.
Terminated(grant, state) == [grant EXCEPT !.state = state]

Acknowledged(grant) == grant.acked \/ grant.state = "Acknowledged"

Participants(grant) == {grant.source, grant.target}

\* What the participants' lifecycles do to a live grant; exclusions do nothing.
GrantEffects(engine, grant) ==
  {LifecycleEffect(engine.contracts[grant.contract],
                   MemberAt(engine.spec, m).lifecycle) : m \in Participants(grant)}

MemberUnchanged(spec, id, generation, digest) ==
  /\ MemberAt(spec, id).lifecycle # "Removed"
  /\ MemberAt(spec, id).generation = generation
  /\ MemberAt(spec, id).digest \in {None, digest}

\* The conditions of revalidate_grant.
Sound(engine, grant) ==
  /\ MemberUnchanged(engine.spec, grant.source, grant.sourceGen, grant.sourceDigest)
  /\ MemberUnchanged(engine.spec, grant.target, grant.targetGen, grant.targetDigest)
  /\ grant.path \in Ids(engine.spec.paths)
  /\ LET path == engine.spec.paths[grant.path]
     IN  /\ path.generation = grant.pathGen
         /\ path.state \notin {"Down", "Unknown"}
         /\ grant.units <= path.capacity
  /\ grant.contract \in Ids(engine.contracts)
  /\ "fails" \notin GrantEffects(engine, grant)

\* revalidate_grant with allow_reissue, as every caller calls it: the grant is
\* reissued under the current epoch, or revoked.
Revalidated(engine, grant) ==
  IF Sound(engine, grant)
  THEN [grant EXCEPT !.state = "Committed", !.commit = "Committed",
                     !.epoch = engine.spec.epoch,
                     !.degraded = @ \/ "degrades" \in GrantEffects(engine, grant)]
  ELSE Terminated(grant, "Revoked")

AllRevalidated(engine) ==
  [g \in GrantIds |-> Revalidated(engine, engine.grants[g])]

AllTerminated(engine, state) ==
  [g \in GrantIds |-> Terminated(engine.grants[g], state)]

\* Mutant of Sweep: the last grant journaled is not changed in the engine.
SweepLate(engine, image, targets, rows) ==
  [n \in 1..Cardinality(targets) + 1 |->
     Point([engine EXCEPT !.grants = Rewritten(@, Earliest(targets, n - 2), rows)],
           WriteGrants(image, Earliest(targets, n - 1), rows, engine.tick), None)]

\* A loop that journals one grant record per target, in id order, and stops at
\* the first append that fails.
Sweep(engine, image, targets, rows) ==
  [n \in 1..Cardinality(targets) + 1 |->
     LET done == Earliest(targets, n - 1)
     IN  Point([engine EXCEPT !.grants = Rewritten(@, done, rows)],
               WriteGrants(image, done, rows, engine.tick), None)]

\* Mutant of Expired: only grants that nobody acknowledged run out.
ExpiredUnheard(engine) ==
  {g \in Live(engine.grants) :
     ~engine.grants[g].acked /\ ExpiredAt(engine.grants[g], engine.tick)}

\* expire_leases: a grant record and an attempt record for each expired lease.
Expired(engine) ==
  {g \in Live(engine.grants) : ExpiredAt(engine.grants[g], engine.tick)}

GrantOf(grants, ids, attempt) ==
  CHOOSE g \in ids : grants[g].attempt = attempt

AttemptsOf(grants, ids) == {grants[g].attempt : g \in ids} \ {None}

\* The attempt record of each grant in ids, bound to that grant.
Rebound(engine, ids) ==
  [a \in Attempts |->
     IF a \in AttemptsOf(engine.grants, ids)
     THEN [engine.attempts[a] EXCEPT
             !.known = TRUE, !.grant = GrantOf(engine.grants, ids, a)]
     ELSE engine.attempts[a]]

Expiry(engine, image) ==
  LET expired == Expired(engine)
      grants  == AllTerminated(engine, "Expired")
  IN  [n \in 1..2 * Cardinality(expired) + 1 |->
         LET ended   == Earliest(expired, n \div 2)
             noted   == Earliest(expired, (n - 1) \div 2)
             rebound == Rebound(engine, noted)
         IN  Point([engine EXCEPT !.grants = Rewritten(@, ended, grants),
                                  !.attempts = rebound],
                   WriteAttempts(WriteGrants(image, ended, grants, engine.tick),
                                 AttemptsOf(engine.grants, noted), rebound,
                                 engine.tick),
                   None)]

-------------------------------------------------------------------------------
(* Starting *)

Init ==
  /\ up = FALSE
  /\ sink = "none"
  /\ mem = NoEngine
  /\ disk \in InitialImages
  /\ used \in {n \in 0..JournalBound : JournalBound # 0 => n < JournalBound}
  /\ starts = 0
  /\ answered = [a \in Attempts |-> None]
  /\ acks = [g \in GrantIds |-> "none"]

\* A start comes up at the last point, or crashes on the way; the incarnation it
\* drew is spent either way.
Starts(points, records) ==
  LET n == Reached(points, records)
  IN  /\ ~up /\ starts < MaxStarts
      /\ starts' = starts + 1
      /\ \/ /\ up' = TRUE
            /\ sink' = IF records THEN "journal" ELSE "memory"
            /\ mem' = points[n].mem
            /\ Persists(points, n, records)
            /\ UNCHANGED <<answered, acks>>
         \/ /\ \E k \in 1..n : Persists(points, k, records)
            /\ Falls
            /\ UNCHANGED acks

\* open_state on a log without a controller binding: SetController, EpochBegin.
Fresh ==
  [NoEngine EXCEPT
     !.spec = [UnboundSpec EXCEPT !.bound = TRUE, !.policy = 1,
                                  !.generation = 1, !.epoch = 1],
     !.tick = 1, !.incarnation = starts + 1]

InitializePoints ==
  LET bound == [disk EXCEPT
                  !.spec = [UnboundSpec EXCEPT !.bound = TRUE, !.policy = 1],
                  !.tick = Greatest(@, 1)]
  IN  << Point(NoEngine, disk, None), Point(NoEngine, bound, None),
         Point(Fresh, WriteEpoch(bound, 1), None) >>

Initialize ==
  /\ ~disk.spec.bound
  /\ Reached(InitializePoints, TRUE) = 3
  /\ Starts(InitializePoints, TRUE)

\* Mutant of Recovered: allocation of grant ids starts over.
RecoveredFromZero ==
  LET serials == Present(disk.grants)
      serial  == IF serials = {} THEN 0
                 ELSE CHOOSE s \in serials : \A t \in serials : s >= t
  IN  [spec |-> EpochBegun(disk.spec), contracts |-> disk.contracts,
       grants |-> disk.grants, attempts |-> disk.attempts,
       tick |-> disk.tick + 1, counter |-> Greatest(disk.counter, serial),
       serial |-> 0, incarnation |-> starts + 1]

\* Mutant of Recovered: rules on in the epoch it finds.
RecoveredUnfenced ==
  LET serials == Present(disk.grants)
      serial  == IF serials = {} THEN 0
                 ELSE CHOOSE s \in serials : \A t \in serials : s >= t
  IN  [spec |-> disk.spec, contracts |-> disk.contracts,
       grants |-> disk.grants, attempts |-> disk.attempts,
       tick |-> disk.tick + 1, counter |-> Greatest(disk.counter, serial),
       serial |-> serial, incarnation |-> starts + 1]

\* Mutant of Recovered: the clock starts over.
RecoveredEarly ==
  LET serials == Present(disk.grants)
      serial  == IF serials = {} THEN 0
                 ELSE CHOOSE s \in serials : \A t \in serials : t <= s
  IN  [spec |-> EpochBegun(disk.spec), contracts |-> disk.contracts,
       grants |-> disk.grants, attempts |-> disk.attempts,
       tick |-> 1, counter |-> Greatest(disk.counter, serial),
       serial |-> serial, incarnation |-> starts + 1]

\* open_state on a bound log: what recover starts from, before any record of its
\* own.  Logical time resumes one past the last durable record.
Recovered ==
  LET serials == Present(disk.grants)
      serial  == IF serials = {} THEN 0
                 ELSE CHOOSE s \in serials : \A t \in serials : t <= s
  IN  [spec |-> EpochBegun(disk.spec), contracts |-> disk.contracts,
       grants |-> disk.grants, attempts |-> disk.attempts,
       tick |-> disk.tick + 1, counter |-> Greatest(disk.counter, serial),
       serial |-> serial, incarnation |-> starts + 1]

\* Mutant of Reissues: takes a commit record for an acknowledgement.
ReissuesEvery(engine) ==
  {g \in Live(engine.grants) :
     engine.grants[g].commit # "Prepared" /\ ~Options.fenceAll}

\* The two ways apply_recovery_policy takes a live grant: reissued if its
\* acknowledgement is on record, else settled without the caller.
Reissues(engine) ==
  {g \in Live(engine.grants) :
     /\ engine.grants[g].commit # "Prepared"
     /\ Acknowledged(engine.grants[g])
     /\ ~Options.fenceAll}

Settles(engine) == Live(engine.grants) \ Reissues(engine)

\* Mutant of Settled: a lone prepare is quarantined like a commit.
SettledAmbiguous(grant) ==
  [grant EXCEPT !.state = "Ambiguous", !.commit = "Ambiguous"]

\* A lone prepare was never authorised; an unacknowledged commit is ambiguous.
Settled(grant) ==
  IF grant.commit = "Prepared" THEN Terminated(grant, "Released")
  ELSE [grant EXCEPT !.state = "Ambiguous", !.commit = "Ambiguous"]

SettledAttempts(engine) ==
  LET rebound == Rebound(engine, Settles(engine))
  IN  [a \in Attempts |->
         IF a \in AttemptsOf(engine.grants, Settles(engine))
         THEN [rebound[a] EXCEPT
                 !.outcome = GrantAnswer(Settled(engine.grants[rebound[a].grant]))]
         ELSE rebound[a]]

\* Mutant of Orphans: only grants that still hold something are looked at.
OrphansHolding(engine) ==
  {g \in Holders(engine.grants) \ Settles(engine) :
     engine.grants[g].attempt \notin Known(engine.attempts) \cup {None}}

\* reconcile_attempts: a grant whose attempt record never became durable gets one
\* that describes the grant and has a zero digest.
Orphans(engine) ==
  {g \in Present(engine.grants) \ Settles(engine) :
     engine.grants[g].attempt \notin Known(engine.attempts) \cup {None}}

Repaired(grants, id) ==
  [NoAttempt EXCEPT !.known = TRUE, !.grant = id,
                    !.outcome = GrantAnswer(grants[id]),
                    !.released = grants[id].state \in {"Released", "Prepared"}]

\* The appends of recover: EpochBegin, then for each live grant in id order its
\* record and, if it is settled, its attempt, then the repaired attempts.
AppendOf(engine, id) ==
  1 + Cardinality({h \in Live(engine.grants) : h <= id})
    + Cardinality({h \in Settles(engine) : h < id})

RepairOf(engine, id) ==
  1 + Cardinality(Live(engine.grants)) + Cardinality(Settles(engine))
    + Cardinality({h \in Orphans(engine) : h <= id})

\* Only the EpochBegin append is checked: from then on the engine goes ahead
\* whether or not its records fit, except that a reissue needs its own.
RecoverPoint(engine, records) ==
  LET live     == Live(engine.grants)
      recorded == {g \in live : AppendOf(engine, g) <= records}
      rows     == [g \in GrantIds |->
                     IF g \in Settles(engine) THEN Settled(engine.grants[g])
                     ELSE Revalidated(engine, engine.grants[g])]
      grants   == Rewritten(engine.grants, recorded \cup Settles(engine), rows)
      settled  == SettledAttempts(engine)
      orphans  == Orphans(engine)
      attempts == [a \in Attempts |->
                     IF a \in AttemptsOf(engine.grants, orphans)
                     THEN Repaired(grants, GrantOf(engine.grants, orphans, a))
                     ELSE settled[a]]
      noted    == {g \in Settles(engine) : AppendOf(engine, g) < records}
                    \cup {g \in orphans : RepairOf(engine, g) <= records}
  IN  Point([engine EXCEPT !.grants = grants, !.attempts = attempts],
            WriteAttempts(
              WriteGrants(WriteEpoch(disk, engine.tick), recorded, rows, engine.tick),
              AttemptsOf(engine.grants, noted), attempts, engine.tick),
            None)

RecoverPoints(engine) ==
  LET records == RepairOf(engine, Cardinality(GrantIds))
  IN  [n \in 1..records + 1 |->
         IF n = 1 THEN Point(NoEngine, disk, None)
         ELSE RecoverPoint(engine, n - 1)]

\* Without an attached journal the engine keeps its default in-memory sink, as
\* the daemon does: open_state recovers without attach_sink.
Recover ==
  /\ disk.spec.bound
  /\ disk.replays
  /\ disk.spec.generation < MaxGeneration /\ disk.tick < MaxTick
  /\ Reached(RecoverPoints(Recovered), Options.attaches) > 1
  /\ Starts(RecoverPoints(Recovered), Options.attaches)

\* The daemon stops or is killed between two requests.
Stop ==
  /\ up
  /\ Falls
  /\ UNCHANGED <<disk, used, starts, acks>>

-------------------------------------------------------------------------------
(* Submitting *)

CurrentView ==
  [cluster |-> TRUE, generation |-> mem.spec.generation, epoch |-> mem.spec.epoch,
   incarnation |-> mem.incarnation, policy |-> mem.spec.policy]

\* The coordinates callers present: the current one, one that runs ahead or
\* behind in one counter, one of another cluster or of another incarnation.
Views ==
  {CurrentView}
    \cup {[CurrentView EXCEPT !.cluster = FALSE]}
    \cup {[CurrentView EXCEPT !.generation = g] :
            g \in {mem.spec.generation - 1, mem.spec.generation + 1} \cap Nat}
    \cup {[CurrentView EXCEPT !.epoch = e] :
            e \in {mem.spec.epoch - 1, mem.spec.epoch + 1} \cap Nat}
    \cup {[CurrentView EXCEPT !.incarnation = i] :
            i \in {mem.incarnation - 1} \cap Nat}
    \cup {[CurrentView EXCEPT !.policy = p] :
            p \in {mem.spec.policy - 1, mem.spec.policy + 1} \cap Nat}

\* The coordinate fence.  It comes before everything else, replays included, and
\* a request it turns away changes nothing.
CoordinateOutcome(view) ==
  FirstFailure(<<
    <<~view.cluster, "Unknown">>,
    <<view.generation > mem.spec.generation, "Invalid">>,
    <<view.generation < mem.spec.generation, "Stale">>,
    <<view.epoch > mem.spec.epoch, "Invalid">>,
    <<view.epoch < mem.spec.epoch, "Fenced">>,
    <<view.incarnation # mem.incarnation, "Fenced">>,
    <<view.policy # mem.spec.policy, "Stale">> >>)

Current(view) == CoordinateOutcome(view) = "Granted"

Renews(request) == request.renews # 0

\* replay_attempt: what a repeated submit of a known attempt is told.
ReplayOutcome(request, view) ==
  LET attempt == mem.attempts[request.attempt]
      granted == attempt.grant # 0 /\ mem.grants[attempt.grant].state # "Absent"
      grant   == mem.grants[attempt.grant]
  IN  CASE attempt.digest = None /\ granted /\ IsQuarantined(grant.state) ->
             "Indeterminate"
        [] attempt.digest = None /\ ~(granted /\ IsQuarantined(grant.state)) ->
             "Conflicting"
        [] attempt.digest \notin {None, [request |-> request, view |-> view]} ->
             "Conflicting"
        [] OTHER -> IF attempt.cancelled THEN "Cancelled"
                    ELSE IF attempt.released THEN "Refused"
                    ELSE IF granted THEN GrantAnswer(grant) ELSE attempt.outcome

\* The contract gates, then evaluate.
Decision(request) ==
  LET contract == mem.contracts[request.contract]
      gate     == IF request.contract \notin Ids(mem.contracts) THEN "Unknown"
                  ELSE FirstFailure(<<
                    <<request.contractGen # contract.generation, "Stale">>,
                    <<~contract.enabled, "Refused">>,
                    <<Options.capabilities /\ ~contract.supported, "Unsupported">> >>)
  IN  IF gate = "Granted" THEN Evaluate(mem, request, contract)
      ELSE [outcome |-> gate, units |-> 0, path |-> 0]

Replay(request, view) ==
  /\ up /\ Current(view) /\ ~Renews(request)
  /\ mem.attempts[request.attempt].known
  /\ Tells(request.attempt, ReplayOutcome(request, view))

\* A request that is new and that the engine turns down leaves no record.
Refuse(request, view) ==
  /\ up /\ Current(view) /\ ~Renews(request)
  /\ ~mem.attempts[request.attempt].known
  /\ Decision(request).outcome \notin Authorising
  /\ Tells(request.attempt, Decision(request).outcome)

LeaseTicks(request) ==
  IF request.lease = 0 THEN Options.defaultLease ELSE request.lease

\* The grant submit builds, as its commit record carries it.
NewGrant(request, decision) ==
  LET contract == mem.contracts[request.contract]
      source   == MemberAt(mem.spec, request.source)
      target   == MemberAt(mem.spec, request.target)
  IN  [state |-> "Committed", commit |-> "Committed", acked |-> FALSE,
       degraded |-> decision.outcome = "Degraded",
       attempt |-> request.attempt, contract |-> request.contract,
       source |-> request.source, target |-> request.target,
       sourceGen |-> source.generation, targetGen |-> target.generation,
       sourceDigest |-> source.digest, targetDigest |-> target.digest,
       service |-> contract.target, path |-> decision.path,
       pathGen |-> PathAt(mem.spec, decision.path).generation,
       resource |-> request.resource, units |-> decision.units,
       requested |-> IF request.units = 0 THEN contract.minUnits ELSE request.units,
       expiry |-> mem.tick + LeaseTicks(request), epoch |-> mem.spec.epoch]

\* Mutant of GrantPoints: answers without a commit record.
GrantPointsUncommitted(request, view, decision) ==
  LET id       == mem.serial + 1
      minted   == [mem EXCEPT !.serial = id, !.counter = Greatest(@, id)]
      grant    == NewGrant(request, decision)
      prepared == WriteGrant(disk, id, [grant EXCEPT !.state = "Prepared",
                                                     !.commit = "Prepared"], mem.tick)
      commit   == WriteGrant(prepared, id, grant, mem.tick)
      attempt  == [NoAttempt EXCEPT !.known = TRUE, !.grant = id,
                                    !.outcome = decision.outcome,
                                    !.digest = [request |-> request, view |-> view]]
      held     == [minted EXCEPT !.grants[id] = grant]
      recorded == [held EXCEPT !.attempts[request.attempt] = attempt]
  IN  << Point(minted, disk, "Indeterminate"), Point(minted, prepared, "Indeterminate"),
         Point(recorded, WriteAttempt(prepared, request.attempt, attempt, mem.tick),
               decision.outcome) >>

\* Mutant of GrantPoints: knows of the attempt only once its record is appended.
GrantPointsUnrecorded(request, view, decision) ==
  LET id       == mem.serial + 1
      minted   == [mem EXCEPT !.serial = id, !.counter = Greatest(@, id)]
      grant    == NewGrant(request, decision)
      prepared == WriteGrant(disk, id, [grant EXCEPT !.state = "Prepared",
                                                     !.commit = "Prepared"], mem.tick)
      commit   == WriteGrant(prepared, id, grant, mem.tick)
      attempt  == [NoAttempt EXCEPT !.known = TRUE, !.grant = id,
                                    !.outcome = decision.outcome,
                                    !.digest = [request |-> request, view |-> view]]
      held     == [minted EXCEPT !.grants[id] = grant]
      recorded == [held EXCEPT !.attempts[request.attempt] = attempt]
  IN  << Point(minted, disk, "Indeterminate"), Point(minted, prepared, "Indeterminate"),
         Point(held, commit, "Refused"),
         Point(recorded, WriteAttempt(commit, request.attempt, attempt, mem.tick),
               decision.outcome) >>

\* submit up to commit_grant: the ids are minted before the lease is checked, the
\* prepare and the commit are appended before the tables change, the attempt
\* record after.
GrantPoints(request, view, decision) ==
  LET id       == mem.serial + 1
      minted   == [mem EXCEPT !.serial = id, !.counter = Greatest(@, id)]
      grant    == NewGrant(request, decision)
      prepared == WriteGrant(disk, id, [grant EXCEPT !.state = "Prepared",
                                                     !.commit = "Prepared"], mem.tick)
      commit   == WriteGrant(prepared, id, grant, mem.tick)
      attempt  == [NoAttempt EXCEPT !.known = TRUE, !.grant = id,
                                    !.outcome = decision.outcome,
                                    !.digest = [request |-> request, view |-> view]]
      held     == [minted EXCEPT !.grants[id] = grant,
                                 !.attempts[request.attempt] = attempt]
      begun    == << Point(minted, disk, "Indeterminate"),
                     Point(minted, prepared, "Indeterminate") >>
  IN  IF LeaseTicks(request) > Options.maxLease
      THEN << Point(minted, disk, "Refused") >>
      ELSE IF Cardinality(Present(mem.grants)) >= TableLimit
      THEN begun \o << Point(minted, commit, "Refused") >>
      ELSE begun \o
           << Point(held, commit, "Refused"),
              Point(held, WriteAttempt(commit, request.attempt, attempt, mem.tick),
                    decision.outcome) >>

\* Mutant of Issue: does not look the attempt up.
IssueRepeatedly(request, view) ==
  /\ up /\ Current(view) /\ ~Renews(request)
  /\ Decision(request).outcome \in Authorising
  /\ mem.serial + 1 \in GrantIds
  /\ Answers(GrantPoints(request, view, Decision(request)), request.attempt)

Issue(request, view) ==
  /\ up /\ Current(view) /\ ~Renews(request)
  /\ ~mem.attempts[request.attempt].known
  /\ Decision(request).outcome \in Authorising
  /\ mem.serial + 1 \in GrantIds
  /\ Answers(GrantPoints(request, view, Decision(request)), request.attempt)

\* Mutant of RenewPoints: journals the grant as it was before the renewal.
RenewPointsUnchanged(request, decision) ==
  LET id      == request.renews
      renewed == [mem.grants[id] EXCEPT
                    !.requested = request.units, !.units = decision.units,
                    !.expiry = IF request.lease = 0 THEN 0 ELSE mem.tick + request.lease,
                    !.epoch = mem.spec.epoch,
                    !.degraded = decision.outcome = "Degraded"]
  IN  << Point(mem, disk, "Indeterminate"),
         Point([mem EXCEPT !.grants[id] = renewed],
               WriteGrant(disk, id, [mem.grants[id] EXCEPT !.state = "Committed"],
                          mem.tick),
               decision.outcome) >>

\* renew: the record says Committed, the engine keeps the state the grant had,
\* and lease 0 means no expiry.
RenewPoints(request, decision) ==
  LET id      == request.renews
      renewed == [mem.grants[id] EXCEPT
                    !.requested = request.units, !.units = decision.units,
                    !.expiry = IF request.lease = 0 THEN 0 ELSE mem.tick + request.lease,
                    !.epoch = mem.spec.epoch,
                    !.degraded = decision.outcome = "Degraded"]
  IN  << Point(mem, disk, "Indeterminate"),
         Point([mem EXCEPT !.grants[id] = renewed],
               WriteGrant(disk, id, [renewed EXCEPT !.state = "Committed"], mem.tick),
               decision.outcome) >>

Renew(request, view) ==
  /\ up /\ Current(view) /\ Renews(request)
  /\ Decision(request).outcome \in Authorising
  /\ Performs(RenewPoints(request, Decision(request)))

-------------------------------------------------------------------------------
(* Releasing, resolving, acknowledging, cancelling *)

\* The grant a release or a cancel reaches: the one named, else the attempt's; 0
\* if there is none.
Reaches(id, attempt) ==
  IF id # 0 /\ mem.grants[id].state # "Absent" THEN id
  ELSE IF attempt # None /\ mem.attempts[attempt].known
  THEN mem.attempts[attempt].grant ELSE 0

\* The attempt is marked released in memory before its record is appended.
ReleasePoints(id) ==
  LET owner    == mem.grants[id].attempt
      grant    == Terminated(mem.grants[id], "Released")
      released == [mem EXCEPT !.grants[id] = grant]
      marked   == [released EXCEPT !.attempts[owner].released = TRUE]
      written  == WriteGrant(disk, id, grant, mem.tick)
  IN  IF mem.attempts[owner].known
      THEN << Point(mem, disk, "Indeterminate"), Point(marked, written, "Indeterminate"),
              Point(marked, WriteAttempt(written, owner, marked.attempts[owner], mem.tick),
                    "Granted") >>
      ELSE << Point(mem, disk, "Indeterminate"), Point(released, written, "Granted") >>

\* Mutant of Release: does not ask whether the grant has ended already.
ReleaseAgain(id, attempt, lease) ==
  LET target == Reaches(id, attempt)
  IN  /\ up
      /\ target # 0
      /\ mem.grants[target].state # "Absent"
      /\ lease \in {0, target}
      /\ Performs(ReleasePoints(target))

\* lease 0 stands for an empty lease, or for an administrative release.
Release(id, attempt, lease) ==
  LET target == Reaches(id, attempt)
  IN  /\ up
      /\ target # 0
      /\ mem.grants[target].state # "Absent"
      /\ lease \in {0, target}
      /\ ~IsTerminal(mem.grants[target].state)
      /\ Performs(ReleasePoints(target))

\* resolve is not fenced by the coordinate: it is how a caller recovers from one.
ResolveOutcome(attempt) ==
  LET record == mem.attempts[attempt]
  IN  IF ~record.known THEN "Unknown"
      ELSE IF record.cancelled THEN "Cancelled"
      ELSE IF record.released THEN "Refused"
      ELSE IF record.grant # 0 /\ mem.grants[record.grant].state # "Absent"
      THEN GrantAnswer(mem.grants[record.grant])
      ELSE record.outcome

Resolve(attempt) == up /\ Tells(attempt, ResolveOutcome(attempt))

\* A quarantined grant is revalidated first, and reissued or revoked; the record
\* of the acknowledgement carries the flag of the grant before it.
AcknowledgePoints(id) ==
  LET lifted  == IsQuarantined(mem.grants[id].state)
      grant   == IF lifted THEN Revalidated(mem, mem.grants[id]) ELSE mem.grants[id]
      engine  == [mem EXCEPT !.grants[id] = grant]
      image   == IF lifted THEN WriteGrant(disk, id, grant, mem.tick) ELSE disk
      waiting == Point(engine, image, "Indeterminate")
      done    == Point([engine EXCEPT !.grants[id] =
                          [grant EXCEPT !.acked = TRUE, !.state = "Acknowledged",
                                        !.commit = "Acknowledged"]],
                       WriteGrant(image, id, [grant EXCEPT !.state = "Acknowledged"],
                                  mem.tick),
                       GrantOutcome(grant))
  IN  IF ~lifted THEN << waiting, done >>
      ELSE << Point(mem, disk, "Indeterminate") >> \o
           IF grant.state = "Committed" THEN << waiting, done >>
           ELSE << Point(engine, image, "Fenced") >>

Acknowledge(id, lease) ==
  LET points == AcknowledgePoints(id)
  IN  /\ up
      /\ mem.grants[id].state # "Absent"
      /\ lease = id
      /\ ~IsTerminal(mem.grants[id].state)
      /\ ~(mem.grants[id].acked /\ mem.grants[id].state = "Acknowledged")
      /\ \/ /\ Completes(points)
            /\ acks' = [acks EXCEPT
                 ![id] = IF points[Reached(points, sink = "journal")].reply \in Authorising
                         THEN "accepted" ELSE IF @ = "none" THEN "sent" ELSE @]
            /\ UNCHANGED answered
         \/ /\ CrashesIn(points)
            /\ acks' = [acks EXCEPT ![id] = IF @ = "none" THEN "sent" ELSE @]

\* The record of a cancel names the attempt only; replay marks what it has of it.
WriteCancel(image, attempt, now) ==
  WriteAttempt(image, attempt,
               [image.attempts[attempt] EXCEPT !.known = TRUE, !.cancelled = TRUE], now)

\* Mutant of CancelPoints: marks the attempt before it revokes the grant.
CancelPointsEarly(id, named) ==
  LET target   == Reaches(id, named)
      grant    == mem.grants[target]
      held     == target # 0 /\ HoldsCapacity(grant.state)
      revoked  == Terminated(grant, "Revoked")
      engine   == IF held THEN [mem EXCEPT !.grants[target] = revoked] ELSE mem
      image    == IF held THEN WriteGrant(disk, target, revoked, mem.tick) ELSE disk
      attempt  == IF named # None /\ mem.attempts[named].known THEN named
                  ELSE grant.attempt
      marked   == [engine EXCEPT !.attempts[attempt].cancelled = TRUE]
      early    == [mem EXCEPT !.attempts[attempt].cancelled = TRUE]
  IN  << Point(early, disk, "Indeterminate"),
         Point(early, WriteCancel(disk, attempt, mem.tick), "Indeterminate"),
         Point(marked, WriteCancel(image, attempt, mem.tick), "Cancelled") >>

CancelPoints(id, named) ==
  LET target   == Reaches(id, named)
      grant    == mem.grants[target]
      held     == target # 0 /\ HoldsCapacity(grant.state)
      revoked  == Terminated(grant, "Revoked")
      engine   == IF held THEN [mem EXCEPT !.grants[target] = revoked] ELSE mem
      image    == IF held THEN WriteGrant(disk, target, revoked, mem.tick) ELSE disk
      attempt  == IF named # None /\ mem.attempts[named].known THEN named
                  ELSE grant.attempt
      marked   == [engine EXCEPT !.attempts[attempt].cancelled = TRUE]
      revoking == IF held THEN << Point(mem, disk, "Indeterminate") >> ELSE << >>
  IN  revoking \o
      IF mem.attempts[attempt].known
      THEN << Point(engine, image, "Indeterminate"),
              Point(marked, WriteCancel(image, attempt, mem.tick), "Cancelled") >>
      ELSE << Point(engine, image, "Cancelled") >>

\* The attempt whose outcome a cancel's caller learns: the one it named, else the
\* one of the grant it named.
Cancel(id, named) ==
  LET known  == named # None /\ mem.attempts[named].known
      target == Reaches(id, named)
      found  == target # 0 /\ mem.grants[target].state # "Absent"
  IN  /\ up
      /\ known \/ found
      /\ known => ~mem.attempts[named].cancelled
      /\ Answers(CancelPoints(id, named),
                 IF known THEN named ELSE mem.grants[target].attempt)

CancelForm(id, attempt) ==
  CASE id = 0 /\ attempt # None -> "attempt"
    [] id # 0 /\ attempt = None -> "grant"
    [] id # 0 /\ attempt # None -> "both"
    [] OTHER -> None

-------------------------------------------------------------------------------
(* Administration and housekeeping *)

\* Mutant of CommandPoints: revalidates quarantined grants along with live ones.
CommandPointsHeld(command) ==
  LET written == WriteCommand(disk, command, mem.tick)
      changed == [mem EXCEPT !.spec = SpecAfter(@, command),
                             !.contracts = ContractsAfter(@, command)]
  IN  << Point(mem, disk, None) >> \o
      IF ~Accepts(mem.spec, mem.contracts, command) THEN << Point(mem, written, None) >>
      ELSE Sweep(changed, written, Holders(mem.grants), AllRevalidated(changed))

\* Every mutator journals the command before it validates it; a change to members
\* or paths then revalidates the live grants.
CommandPoints(command) ==
  LET written == WriteCommand(disk, command, mem.tick)
      changed == [mem EXCEPT !.spec = SpecAfter(@, command),
                             !.contracts = ContractsAfter(@, command)]
  IN  << Point(mem, disk, None) >> \o
      IF ~Accepts(mem.spec, mem.contracts, command) THEN << Point(mem, written, None) >>
      ELSE IF ~MovesAuthority(command) THEN << Point(changed, written, None) >>
      ELSE Sweep(changed, written, Live(mem.grants), AllRevalidated(changed))

\* set_policy_generation alone checks before it journals.
Administer(command) ==
  /\ up
  /\ mem.spec.generation < MaxGeneration
  /\ command.kind = "SetPolicy" => command.policy >= mem.spec.policy
  /\ Performs(CommandPoints(command))

FenceAll ==
  /\ up
  /\ Performs(Sweep(mem, disk, Holders(mem.grants), AllTerminated(mem, "Fenced")))

Revalidate ==
  /\ up
  /\ Performs(Sweep(mem, disk, Live(mem.grants), AllRevalidated(mem)))

\* AdvanceTick, and ExpireLeases for the tick that already is.
AdvanceTick(tick) ==
  /\ up
  /\ tick >= mem.tick
  /\ Performs(Expiry([mem EXCEPT !.tick = tick], disk))

\* Compaction replaces the log by a snapshot, in one step, and appends the
\* counters; a crash finds the log with either or both.
Compacts(engine) ==
  /\ disk' = Snapshot(engine)
  /\ \/ /\ mem' = engine
        /\ used' = Least(2, JournalBound)
        /\ UNCHANGED <<up, sink, starts, answered, acks>>
     \/ /\ used' \in {1, Least(2, JournalBound)}
        /\ Falls
        /\ UNCHANGED <<starts, acks>>

Compact == up /\ Full(used) /\ Compacts(mem)

\* A round of housekeeping: the next tick, the leases it ends, and compaction of
\* a log that is full.
RoundPoints == Expiry([mem EXCEPT !.tick = @ + 1], disk)

FullAfterRound == Full(Recorded(Reached(RoundPoints, sink = "journal")))

HousekeepingRound ==
  /\ up /\ mem.tick < MaxTick
  /\ ~FullAfterRound
  /\ Completes(RoundPoints)
  /\ UNCHANGED <<answered, acks>>

CompactingRound ==
  /\ up /\ mem.tick < MaxTick
  /\ FullAfterRound
  /\ Compacts(RoundPoints[Reached(RoundPoints, sink = "journal")].mem)

CrashingRound ==
  /\ up /\ mem.tick < MaxTick
  /\ CrashesIn(RoundPoints)
  /\ UNCHANGED acks

-------------------------------------------------------------------------------
Next ==
  \/ Initialize
  \/ Recover
  \/ Stop
  \/ \E request \in Requests, view \in Views :
       \/ Replay(request, view)
       \/ Refuse(request, view)
       \/ Issue(request, view)
       \/ Renew(request, view)
  \/ \E id \in GrantIds \cup {0}, attempt \in Attempts \cup {None},
        lease \in GrantIds \cup {0} : Release(id, attempt, lease)
  \/ \E attempt \in Attempts : Resolve(attempt)
  \/ \E id \in GrantIds, lease \in GrantIds : Acknowledge(id, lease)
  \/ \E id \in GrantIds \cup {0}, attempt \in Attempts \cup {None} :
       CancelForm(id, attempt) \in CancelForms /\ Cancel(id, attempt)
  \/ \E command \in Commands : Administer(command)
  \/ FenceAll
  \/ Revalidate
  \/ \E tick \in 0..MaxTick : AdvanceTick(tick)
  \/ Compact
  \/ HousekeepingRound
  \/ CompactingRound
  \/ CrashingRound

Spec == Init /\ [][Next]_vars

-------------------------------------------------------------------------------
(* Types *)

EngineOK ==
  /\ mem \in Engine
  /\ disk \in Image

TypeOK ==
  /\ up \in BOOLEAN
  /\ sink \in IF up THEN {"journal", "memory"} ELSE {"none"}
  /\ EngineOK
  /\ used \in 0..JournalBound /\ starts \in 0..MaxStarts
  /\ answered \in [Attempts -> Outcomes \cup {None}]
  /\ acks \in [GrantIds -> {"none", "sent", "accepted"}]

-------------------------------------------------------------------------------
(* What the log owes the engine *)

SameReservation(grant, logged) ==
  /\ grant.attempt = logged.attempt
  /\ grant.path = logged.path
  /\ grant.resource = logged.resource
  /\ grant.units = logged.units

\* The engine writes a transition before it changes its state (include/cif/authority.hpp,
\* commit_grant, terminate_grant, revalidate_grant): while the journal is the sink,
\* capacity the engine holds is held in the log by the same reservation, and a
\* grant it has ended is ended in the log, or was never more than prepared there.
WriteAhead ==
  sink = "journal" =>
    \A g \in GrantIds :
      LET grant == mem.grants[g]
          logged == disk.grants[g]
      IN  /\ HoldsCapacity(grant.state) =>
               HoldsCapacity(logged.state) /\ SameReservation(grant, logged)
          /\ IsTerminal(grant.state) =>
               logged.state \in {grant.state, "Prepared"}

\* What the log has ended is ended in the engine: no record outlives the grant it
\* ends, whatever append failed on the way (terminate_grant, apply_recovery_policy).
EndedInLogMeansEnded ==
  sink = "journal" =>
    \A g \in GrantIds :
      IsTerminal(disk.grants[g].state) => mem.grants[g].state = disk.grants[g].state

\* The log replays to the cluster and the contracts the engine rules, unless it
\* no longer replays at all (replay_journal against the mutators of ClusterSpec).
SpecReplays ==
  sink = "journal" /\ disk.replays =>
    disk.spec = mem.spec /\ disk.contracts = mem.contracts

\* A caller told that an attempt was granted finds it in the log, whatever crash
\* or restart came since (submit answers after its commit is durable).
ToldGrantsAreDurable ==
  \A a \in Attempts :
    answered[a] \in Authorising =>
      \E g \in GrantIds : /\ disk.grants[g].attempt = a
                          /\ disk.grants[g].state \notin {"Absent", "Prepared"}

\* A cluster, once ruled, can be ruled again: what the log holds replays, and a
\* daemon that stopped can start.
RestartReplays == ~up => disk.replays

-------------------------------------------------------------------------------
(* What attempts and grants promise *)

\* A log whose grants can be read.  Where a table can hold every id, only a refused
\* command spoils a log, and that spoils no grant.
TableSuffices == Cardinality(GrantIds) <= TableLimit

Intact(image) == image.replays \/ TableSuffices

Single(grants) ==
  \A g, h \in GrantIds :
    /\ grants[g].state # "Absent" /\ grants[h].state # "Absent"
    /\ grants[g].attempt = grants[h].attempt
    => g = h

\* An attempt yields at most one grant, in the engine and in a log whose grants can
\* be read: retries, restarts and lost replies never duplicate it (find_attempt
\* before evaluate).
OneGrantPerAttempt == Single(mem.grants) /\ (Intact(disk) => Single(disk.grants))

\* resolve and the grant table tell one story: an attempt is reported as granted
\* exactly if a live grant is its, and as indeterminate exactly if a quarantined
\* one is.
AnswersMatchAuthority ==
  up => \A a \in Attempts :
    LET states == {mem.grants[g].state : g \in {h \in GrantIds : mem.grants[h].attempt = a}}
    IN  /\ ResolveOutcome(a) \in Authorising <=> \E s \in states : IsLive(s)
        /\ ResolveOutcome(a) = "Indeterminate" <=> \E s \in states : IsQuarantined(s)

\* A caller told that an attempt is cancelled knows that nothing is held for it.
CancelledHoldsNothing ==
  up => \A g \in Holders(mem.grants) :
    mem.grants[g].attempt # None => ~mem.attempts[mem.grants[g].attempt].cancelled

\* A live grant belongs to the current epoch and fits the cluster as declared now:
\* every change of members or paths and every restart revalidates, ends or
\* quarantines it (revalidate_live_grants, apply_recovery_policy).
LiveGrantsAreCurrent ==
  up => \A g \in Live(mem.grants) :
    /\ mem.grants[g].epoch = mem.spec.epoch
    /\ Sound(mem, mem.grants[g])

\* A grant of an earlier epoch is live only if its caller acknowledged it: a restart
\* reissues nothing a caller may not know of (apply_recovery_policy).  The attempt
\* record tells the epoch of the request; one without a digest was rebuilt by a
\* start, so its grant is of an earlier one, and its caller the least likely to know.
ReissueNeedsAcknowledgement ==
  up => \A g \in Live(mem.grants) :
    LET digest == mem.attempts[mem.grants[g].attempt].digest
    IN  digest = None \/ digest.view.epoch < mem.spec.epoch => acks[g] # "none"

\* What self_check asks of one grant, ended ones included.
GrantAgrees(engine, grant) ==
  /\ HoldsCapacity(grant.state) /\ grant.units = 0 => grant.resource = None
  /\ grant.requested > 0 => grant.units <= grant.requested
  /\ grant.source # None => grant.source \in Ids(engine.spec.members)
  /\ grant.attempt # None => engine.attempts[grant.attempt].known

\* And of a resource: who has it has enough of it.
ResourceFits(engine, resource) ==
  LET holders == ResourceHolders(engine.grants, resource)
      owners  == {m \in Ids(engine.spec.members) :
                    resource \in Ids(engine.spec.members[m].resources)}
  IN  holders # {} =>
        /\ owners # {}
        /\ \A m \in owners :
             UnitsOf(engine.grants, holders) <= engine.spec.members[m].resources[resource].total

\* Whatever was refused, cut short or recovered, the grants pass self_check: each has
\* its member, its attempt record and no more than it asked for, and no resource is
\* over-committed.
GrantsPassSelfCheck ==
  up => /\ \A g \in Present(mem.grants) : GrantAgrees(mem, mem.grants[g])
        /\ \A resource \in ResourceIds : ResourceFits(mem, resource)

\* A restart forgets ticks, but none at which a grant or a renewal was recorded: no live
\* grant ever has more of its lease left than the longest lease (recover, resume_tick).
LeasesAreInReach ==
  up => \A g \in Live(mem.grants) :
    mem.grants[g].expiry <= mem.tick + Options.maxLease

\* No pool is promised twice: the grants that hold capacity, quarantined ones
\* included, fit their paths and their sources' resources, and an exclusive path
\* has one attempt (evaluate, steps 9 and 10).
CapacityIsHonoured ==
  up => \A g \in Holders(mem.grants) :
    LET grant == mem.grants[g]
        path  == PathAt(mem.spec, grant.path)
        pools == MemberAt(mem.spec, grant.source).resources
    IN  /\ UnitsOf(mem.grants, PathHolders(mem.grants, grant.path)) <= path.capacity
        /\ grant.resource # None =>
             /\ grant.resource \in Ids(pools)
             /\ UnitsOf(mem.grants, ResourceHolders(mem.grants, grant.resource))
                  <= pools[grant.resource].total
        /\ path.exclusive =>
             \A h \in PathHolders(mem.grants, grant.path) :
               mem.grants[h].attempt = grant.attempt

-------------------------------------------------------------------------------
(* What a step may never do *)

\* A grant that has ended in the log never comes back (grant.hpp, is_terminal).
TerminalIsFinal ==
  [][\A g \in GrantIds :
       IsTerminal(disk.grants[g].state) =>
         disk'.grants[g].state = disk.grants[g].state]_vars

\* A committed grant that can be read keeps its id, its attempt and what it joins for
\* good: serials are not reused, whatever restarts and compactions come in between.
IdentityIsKept ==
  [][\A g \in GrantIds :
       Intact(disk) /\ disk.grants[g].state \notin {"Absent", "Prepared"} =>
         /\ disk'.grants[g].state \notin {"Absent", "Prepared"}
         /\ \A field \in {"attempt", "contract", "source", "target", "path",
                          "resource", "sourceGen", "targetGen", "pathGen"} :
              disk'.grants[g][field] = disk.grants[g][field]]_vars

\* The grants a step takes out of quarantine, in the log or in the engine.
Lifted ==
  {g \in GrantIds :
     \/ /\ IsQuarantined(disk.grants[g].state)
        /\ ~IsQuarantined(disk'.grants[g].state)
     \/ /\ up /\ IsQuarantined(mem.grants[g].state)
        /\ up' /\ ~IsQuarantined(mem'.grants[g].state)}

\* Quarantined capacity waits for its caller or for the operator who fences all: a
\* grant leaves quarantine by a release, a cancel or an acknowledgement that reaches
\* it, or by fence_all.  No expiry, revalidation, change of the cluster, housekeeping,
\* compaction or restart lifts or ends it (expire_leases, revalidate_live_grants,
\* apply_recovery_policy).  A renewal is taken of a quarantined grant too; its record
\* calls the grant committed, but the engine keeps it quarantined.
QuarantineWaits ==
  [][\A g \in Lifted :
       \/ \E id \in GrantIds \cup {0}, attempt \in Attempts \cup {None},
             lease \in GrantIds \cup {0} :
            Reaches(id, attempt) = g /\ Release(id, attempt, lease)
       \/ \E id \in GrantIds \cup {0}, attempt \in Attempts \cup {None} :
            Reaches(id, attempt) = g /\ Cancel(id, attempt)
       \/ Acknowledge(g, g)
       \/ FenceAll
       \/ /\ \E request \in Requests, view \in Views :
               request.renews = g /\ Renew(request, view)
          /\ up' => IsQuarantined(mem'.grants[g].state)]_vars

\* The live grants whose lease is over.
Overdue(engine) ==
  {g \in Live(engine.grants) :
     engine.grants[g].expiry # 0 /\ engine.tick >= engine.grants[g].expiry}

\* A lease ends at its tick: while the daemon runs, no step that moves the clock
\* leaves a grant live past its lease, and of the others only the end of a
\* quarantine makes such a grant, for the next tick to end.  A log that fills up
\* cuts the sweep short (advance_tick, expire_leases, housekeeping).
LeasesEndOnTime ==
  [][up /\ up' =>
       \A g \in Overdue(mem') :
         \/ /\ mem'.tick = mem.tick
            /\ g \in Overdue(mem) \/ IsQuarantined(mem.grants[g].state)
         \/ Full(used')
         \/ CompactingRound]_vars

\* A start that comes up has recorded an epoch no earlier start ever ruled in.
StartsAreFenced ==
  [][~up /\ up' => /\ mem'.spec.epoch > disk.spec.epoch
                   /\ disk'.spec.epoch = mem'.spec.epoch]_vars

\* An accepted acknowledgement settles the question: no later restart makes the
\* grant ambiguous again (README, "Recovery").
AcknowledgedIsSettled ==
  up => \A g \in GrantIds :
    acks[g] = "accepted" => ~IsQuarantined(mem.grants[g].state)

-------------------------------------------------------------------------------
(* What the whole promises *)

LedgerStatus(state) ==
  CASE state = "Absent"   -> "free"
    [] state = "Prepared" -> "offered"
    [] state \in {"Committed", "Acknowledged"} -> "held"
    [] state = "Ambiguous" -> "quarantined"
    [] OTHER -> "ended"

Ledger ==
  INSTANCE GrantLedger WITH
    status <- [g \in GrantIds |-> LedgerStatus(disk.grants[g].state)],
    owner  <- [g \in GrantIds |-> disk.grants[g].attempt]

\* Seen through its log, the engine is a ledger: across crashes, restarts and
\* compaction no attempt gets a second grant, quarantine is left one grant at a
\* time, and nothing that has ended comes back.
ImplementsLedger == Ledger!LedgerSpec

===============================================================================
