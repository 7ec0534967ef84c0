---------------------------- MODULE AuthorityLemmas ----------------------------
(***************************************************************************)
(* Lemmas about the data AuthorityCore works on: what its operators on     *)
(* grants, engines, images and decisions return for arguments of their     *)
(* types.  AuthorityCoreProofs rests on them.                              *)
(***************************************************************************)
EXTENDS AuthorityCore, TLAPS, SequenceTheorems, FiniteSetTheorems,
        WellFoundedInduction, NaturalsInduction

-------------------------------------------------------------------------------
(* Grants *)

\* The entry of a grant by its fields; what a field may hold besides a name has a name
\* of its own, so that the provers need not look into it.
LEMMA GrantFields ==
  \E attempts, contracts, members, names, paths, resources :
    Grant = [state : GrantStates, commit : CommitStates, acked : BOOLEAN,
             degraded : BOOLEAN, attempt : attempts, contract : contracts,
             source : members, target : members, sourceGen : Nat, targetGen : Nat,
             sourceDigest : names, targetDigest : names, service : names,
             path : paths, pathGen : Nat, resource : resources, units : Nat,
             requested : Nat, expiry : Nat, epoch : Nat]
  BY Zenon DEF Grant

\* What the actions write into the entry of a grant leaves an entry of a grant.
LEMMA GrantUpdates ==
  ASSUME NEW grant \in Grant
  PROVE  /\ \A state \in GrantStates :
             [grant EXCEPT !.state = state] \in Grant
         /\ \A state \in GrantStates, commit \in CommitStates :
             [grant EXCEPT !.state = state, !.commit = commit] \in Grant
         /\ \A state \in GrantStates, commit \in CommitStates, flag \in BOOLEAN :
             [grant EXCEPT !.acked = flag, !.state = state, !.commit = commit] \in Grant
         /\ \A state \in GrantStates, commit \in CommitStates, epoch \in Nat, flag \in BOOLEAN :
             [grant EXCEPT !.state = state, !.commit = commit, !.epoch = epoch,
                            !.degraded = flag] \in Grant
         /\ \A requested \in Nat, units \in Nat, expiry \in Nat, epoch \in Nat, flag \in BOOLEAN :
             [grant EXCEPT !.requested = requested, !.units = units, !.expiry = expiry,
                            !.epoch = epoch, !.degraded = flag] \in Grant
<1>1. PICK attempts, contracts, members, names, paths, resources :
        Grant = [state : GrantStates, commit : CommitStates, acked : BOOLEAN,
                 degraded : BOOLEAN, attempt : attempts, contract : contracts,
                 source : members, target : members, sourceGen : Nat, targetGen : Nat,
                 sourceDigest : names, targetDigest : names, service : names,
                 path : paths, pathGen : Nat, resource : resources, units : Nat,
                 requested : Nat, expiry : Nat, epoch : Nat]
  BY GrantFields
<1>2. \A state \in GrantStates :
       [grant EXCEPT !.state = state] \in Grant
  BY <1>1
<1>3. \A state \in GrantStates, commit \in CommitStates :
       [grant EXCEPT !.state = state, !.commit = commit] \in Grant
  BY <1>1
<1>4. \A state \in GrantStates, commit \in CommitStates, flag \in BOOLEAN :
       [grant EXCEPT !.acked = flag, !.state = state, !.commit = commit] \in Grant
  BY <1>1
<1>5. \A state \in GrantStates, commit \in CommitStates, epoch \in Nat, flag \in BOOLEAN :
       [grant EXCEPT !.state = state, !.commit = commit, !.epoch = epoch,
                      !.degraded = flag] \in Grant
  BY <1>1
<1>6. \A requested \in Nat, units \in Nat, expiry \in Nat, epoch \in Nat, flag \in BOOLEAN :
       [grant EXCEPT !.requested = requested, !.units = units, !.expiry = expiry,
                      !.epoch = epoch, !.degraded = flag] \in Grant
  BY <1>1
<1>. QED BY <1>2, <1>3, <1>4, <1>5, <1>6

LEMMA TerminatedType ==
  ASSUME NEW grant \in Grant, NEW state \in GrantStates
  PROVE  /\ Terminated(grant, state) \in Grant
         /\ Terminated(grant, state).state = state
         /\ Terminated(grant, state).commit = grant.commit
         /\ SameReservation(Terminated(grant, state), grant)
<1>1. Terminated(grant, state) \in Grant
  BY DEF Terminated, Grant
<1>2. Terminated(grant, state).state = state
  BY DEF Terminated, Grant
<1>3. Terminated(grant, state).commit = grant.commit
  BY DEF Terminated, Grant
<1>4. SameReservation(Terminated(grant, state), grant)
  BY DEF Terminated, Grant, SameReservation
<1>. QED BY <1>1, <1>2, <1>3, <1>4

LEMMA EngineFields ==
  ASSUME NEW engine \in Engine
  PROVE  /\ engine.grants \in [GrantIds -> Grant]
         /\ engine.attempts \in [Attempts -> Attempt]
         /\ engine.spec \in ClusterSpecs
         /\ engine.contracts \in Table(ContractIds, Contract)
         /\ engine.tick \in Nat /\ engine.counter \in Nat
         /\ engine.serial \in Nat /\ engine.incarnation \in Nat
  BY DEF Engine

LEMMA RevalidatedType ==
  ASSUME NEW engine \in Engine, NEW grant \in Grant
  PROVE  /\ Revalidated(engine, grant) \in Grant
         /\ \/ /\ Revalidated(engine, grant).state = "Committed"
               /\ Revalidated(engine, grant).commit = "Committed"
            \/ Revalidated(engine, grant).state = "Revoked"
         /\ SameReservation(Revalidated(engine, grant), grant)
<1>1. CASE Sound(engine, grant)
  <2>1. engine.spec.epoch \in Nat
    BY EngineFields DEF ClusterSpecs
  <2>. DEFINE degraded == grant.degraded \/ "degrades" \in GrantEffects(engine, grant)
              new == [grant EXCEPT !.state = "Committed", !.commit = "Committed",
                                   !.epoch = engine.spec.epoch,
                                   !.degraded = degraded]
  <2>2. Revalidated(engine, grant) = new
    BY <1>1 DEF Revalidated, Grant
  <2>3. degraded \in BOOLEAN
    OBVIOUS
  <2>. HIDE DEF degraded
  <2>0. "Committed" \in GrantStates /\ "Committed" \in CommitStates
    BY DEF GrantStates, CommitStates
  <2>4. new \in Grant
    BY <2>0, <2>1, <2>3, GrantUpdates
  <2>5. new.state = "Committed"
    BY Zenon DEF Grant
  <2>6. new.commit = "Committed"
    BY Zenon DEF Grant
  <2>7. SameReservation(new, grant)
    BY DEF Grant, SameReservation
  <2>. QED BY <2>2, <2>4, <2>5, <2>6, <2>7
<1>2. CASE ~Sound(engine, grant)
  BY <1>2, TerminatedType DEF Revalidated, GrantStates
<1>. QED BY <1>1, <1>2

LEMMA SettledType ==
  ASSUME NEW grant \in Grant
  PROVE  /\ Settled(grant) \in Grant
         /\ grant.commit = "Prepared" => Settled(grant).state = "Released"
         /\ grant.commit # "Prepared" => /\ Settled(grant).state = "Ambiguous"
                                         /\ Settled(grant).commit = "Ambiguous"
         /\ SameReservation(Settled(grant), grant)
<1>1. CASE grant.commit = "Prepared"
  BY <1>1, TerminatedType DEF Settled, GrantStates
<1>2. CASE grant.commit # "Prepared"
  <2>. DEFINE new == [grant EXCEPT !.state = "Ambiguous", !.commit = "Ambiguous"]
  <2>1. Settled(grant) = new
    BY <1>2 DEF Settled
  <2>0. "Ambiguous" \in GrantStates /\ "Ambiguous" \in CommitStates
    BY DEF GrantStates, CommitStates
  <2>2. new \in Grant
    BY <2>0, GrantUpdates
  <2>3. new.state = "Ambiguous"
    BY Zenon DEF Grant
  <2>4. new.commit = "Ambiguous"
    BY Zenon DEF Grant
  <2>5. SameReservation(new, grant)
    BY DEF Grant, SameReservation
  <2>. QED BY <1>2, <2>1, <2>2, <2>3, <2>4, <2>5
<1>. QED BY <1>1, <1>2

LEMMA RewrittenType ==
  ASSUME NEW X, NEW S, NEW rows \in [X -> S], NEW ids, NEW new \in [X -> S]
  PROVE  /\ Rewritten(rows, ids, new) \in [X -> S]
         /\ \A x \in X : Rewritten(rows, ids, new)[x] =
                           IF x \in ids THEN new[x] ELSE rows[x]
  BY DEF Rewritten

-------------------------------------------------------------------------------
(* Engines and images *)

LEMMA EngineGrants ==
  ASSUME NEW engine \in Engine, NEW grants \in [GrantIds -> Grant]
  PROVE  /\ [engine EXCEPT !.grants = grants] \in Engine
         /\ [engine EXCEPT !.grants = grants].grants = grants
         /\ [engine EXCEPT !.grants = grants].serial = engine.serial
         /\ [engine EXCEPT !.grants = grants].spec = engine.spec
         /\ [engine EXCEPT !.grants = grants].attempts = engine.attempts
         /\ [engine EXCEPT !.grants = grants].tick = engine.tick
  BY DEF Engine

LEMMA EngineAttempts ==
  ASSUME NEW engine \in Engine, NEW attempts \in [Attempts -> Attempt]
  PROVE  /\ [engine EXCEPT !.attempts = attempts] \in Engine
         /\ [engine EXCEPT !.attempts = attempts].grants = engine.grants
         /\ [engine EXCEPT !.attempts = attempts].serial = engine.serial
         /\ [engine EXCEPT !.attempts = attempts].spec = engine.spec
         /\ [engine EXCEPT !.attempts = attempts].attempts = attempts
  BY DEF Engine

LEMMA EngineTables ==
  ASSUME NEW engine \in Engine, NEW grants \in [GrantIds -> Grant],
         NEW attempts \in [Attempts -> Attempt]
  PROVE  LET new == [engine EXCEPT !.grants = grants, !.attempts = attempts]
         IN  /\ new \in Engine
             /\ new.grants = grants
             /\ new.serial = engine.serial
             /\ new.spec = engine.spec
  BY DEF Engine

LEMMA ImageFields ==
  ASSUME NEW image \in Image
  PROVE  /\ image.grants \in [GrantIds -> Grant]
         /\ image.attempts \in [Attempts -> Attempt]
         /\ image.spec \in ClusterSpecs
         /\ image.contracts \in Table(ContractIds, Contract)
         /\ image.tick \in Nat /\ image.counter \in Nat /\ image.replays \in BOOLEAN
  BY DEF Image

LEMMA WriteGrantsType ==
  ASSUME NEW image \in Image, NEW ids \in SUBSET GrantIds,
         NEW rows \in [GrantIds -> Grant], NEW now \in Nat
  PROVE  LET new == WriteGrants(image, ids, rows, now)
         IN  /\ new \in Image
             /\ \A g \in GrantIds :
                  new.grants[g] = IF g \in ids THEN rows[g] ELSE image.grants[g]
             /\ new.spec = image.spec
             /\ new.attempts = image.attempts
<1>1. CASE ids = {}
  BY <1>1 DEF WriteGrants
<1>2. CASE ids # {}
  <2>. DEFINE grants  == Rewritten(image.grants, ids, rows)
              tick    == Greatest(image.tick, now)
              replays == image.replays /\
                         Cardinality(Present(image.grants) \cup ids) <= TableLimit
              new     == [image EXCEPT !.grants = grants, !.tick = tick,
                                       !.replays = replays]
  <2>1. /\ grants \in [GrantIds -> Grant]
        /\ \A g \in GrantIds : grants[g] = IF g \in ids THEN rows[g]
                                           ELSE image.grants[g]
    <3>1. image.grants \in [GrantIds -> Grant]
      BY ImageFields
    <3>. QED BY <3>1 DEF Rewritten
  <2>2. tick \in Nat
    BY ImageFields DEF Greatest
  <2>3. replays \in BOOLEAN
    BY ImageFields
  <2>4. WriteGrants(image, ids, rows, now) = new
    BY <1>2 DEF WriteGrants, Image
  <2>. HIDE DEF grants, tick, replays
  <2>5. new \in Image
    BY <2>1, <2>2, <2>3 DEF Image
  <2>6. new.grants = grants /\ new.spec = image.spec /\ new.attempts = image.attempts
    BY DEF Image
  <2>. HIDE DEF new
  <2>. QED BY <2>1, <2>4, <2>5, <2>6
<1>. QED BY <1>1, <1>2

LEMMA WriteAttemptsType ==
  ASSUME NEW image \in Image, NEW ids, NEW rows, NEW now \in Nat,
         \A a \in Attempts : a \in ids => rows[a] \in Attempt
  PROVE  LET new == WriteAttempts(image, ids, rows, now)
         IN  /\ new \in Image
             /\ new.grants = image.grants
             /\ new.spec = image.spec
<1>1. CASE ids = {}
  BY <1>1 DEF WriteAttempts
<1>2. CASE ids # {}
  <2>. DEFINE attempts == Rewritten(image.attempts, ids, rows)
              tick     == Greatest(image.tick, now)
              replays  == image.replays /\
                          Cardinality(Known(image.attempts) \cup ids) <= TableLimit
              new      == [image EXCEPT !.attempts = attempts, !.tick = tick,
                                        !.replays = replays]
  <2>1. attempts \in [Attempts -> Attempt]
    BY ImageFields DEF Rewritten
  <2>2. tick \in Nat
    BY ImageFields DEF Greatest
  <2>3. replays \in BOOLEAN
    BY ImageFields
  <2>4. WriteAttempts(image, ids, rows, now) = new
    BY <1>2 DEF WriteAttempts, Image
  <2>. HIDE DEF attempts, tick, replays
  <2>5. new \in Image
    BY <2>1, <2>2, <2>3 DEF Image
  <2>6. new.grants = image.grants /\ new.spec = image.spec
    BY DEF Image
  <2>. QED BY <2>4, <2>5, <2>6
<1>. QED BY <1>1, <1>2

LEMMA EpochBegunType ==
  ASSUME NEW spec \in ClusterSpecs
  PROVE  /\ EpochBegun(spec) \in ClusterSpecs
         /\ EpochBegun(spec).bound = spec.bound
         /\ EpochBegun(spec).epoch = spec.epoch + 1
<1>1. spec.epoch + 1 \in Nat /\ spec.generation + 1 \in Nat
  BY DEF ClusterSpecs
<1>. DEFINE e == spec.epoch + 1
            n == spec.generation + 1
            new == [spec EXCEPT !.epoch = e, !.generation = n]
<1>2. EpochBegun(spec) = new
  BY DEF EpochBegun, ClusterSpecs
<1>3. e \in Nat /\ n \in Nat
  BY <1>1
<1>. HIDE DEF e, n
<1>4. new \in ClusterSpecs
  BY <1>3 DEF ClusterSpecs
<1>5. new.bound = spec.bound /\ new.epoch = e
  BY DEF ClusterSpecs
<1>. HIDE DEF new
<1>. QED BY <1>2, <1>4, <1>5 DEF e

LEMMA WriteEpochType ==
  ASSUME NEW image \in Image, NEW now \in Nat
  PROVE  /\ WriteEpoch(image, now) \in Image
         /\ WriteEpoch(image, now).grants = image.grants
         /\ WriteEpoch(image, now).attempts = image.attempts
         /\ WriteEpoch(image, now).spec.bound = image.spec.bound
<1>. DEFINE spec == EpochBegun(image.spec)
            tick == Greatest(image.tick, now)
            new  == [image EXCEPT !.spec = spec, !.tick = tick]
<1>1. spec \in ClusterSpecs /\ spec.bound = image.spec.bound
  BY ImageFields, EpochBegunType
<1>2. tick \in Nat
  BY ImageFields DEF Greatest
<1>3. WriteEpoch(image, now) = new
  BY DEF WriteEpoch, Image
<1>. HIDE DEF spec, tick
<1>4. new \in Image
  BY <1>1, <1>2 DEF Image
<1>5. new.grants = image.grants /\ new.attempts = image.attempts /\ new.spec = spec
  BY DEF Image
<1>. HIDE DEF new
<1>. QED BY <1>1, <1>3, <1>4, <1>5

-------------------------------------------------------------------------------
(* Least and greatest members *)

LEMMA LeastExists ==
  ASSUME NEW S, S \subseteq Nat, S # {}
  PROVE  \E x \in S : \A y \in S : x <= y
<1>. DEFINE R == OpToRel(<, Nat)
<1>1. IsWellFoundedOn(R, Nat)
  BY NatLessThanWellFounded
<1>2. \A x \in S, y \in S : y < x => <<y, x>> \in R
  BY DEF OpToRel
<1>. HIDE DEF R
<1>3. PICK x \in S : \A y \in S : ~ (<<y, x>> \in R)
  BY <1>1, WFMin
<1>4. \A y \in S : ~(y < x)
  BY <1>2, <1>3
<1>5. \A y \in S : x <= y
  BY <1>4
<1>. QED BY <1>5

LEMMA GreatestExists ==
  ASSUME NEW n \in Nat, NEW S, S \subseteq 0..n, S # {}
  PROVE  \E x \in S : \A y \in S : y <= x
<1>. DEFINE T == {k \in Nat : \A y \in S : y <= k}
<1>1. T \subseteq Nat /\ T # {}
  <2>1. n \in T
    OBVIOUS
  <2>. QED BY <2>1
<1>2. PICK k \in T : \A j \in T : k <= j
  BY <1>1, LeastExists
<1>3. PICK s \in S : TRUE
  OBVIOUS
<1>4. ASSUME k \notin S PROVE FALSE
  <2>1. k # 0
    BY <1>2, <1>3, <1>4
  <2>2. k - 1 \in Nat /\ \A y \in S : y <= k - 1
    BY <2>1, <1>2, <1>4
  <2>3. k - 1 \in T
    BY <2>2
  <2>4. k <= k - 1
    BY <2>3, <1>2
  <2>. QED BY <2>4, <1>2
<1>. QED BY <1>2, <1>4

-------------------------------------------------------------------------------
(* Decisions *)

Refusals == Outcomes \ Authorising

\* The first failing check decides; if none fails the outcome is "Granted".
LEMMA FirstFailureDecides ==
  ASSUME NEW checks \in Seq(BOOLEAN \X Refusals)
  PROVE  /\ FirstFailure(checks) \in Outcomes
         /\ FirstFailure(checks) \in Authorising => FirstFailure(checks) = "Granted"
         /\ FirstFailure(checks) \in Authorising =>
              \A i \in DOMAIN checks : ~checks[i][1]
<1>. DEFINE failing == {i \in DOMAIN checks : checks[i][1]}
            least   == CHOOSE i \in failing : \A j \in failing : i <= j
<1>1. CASE failing = {}
  <2>1. FirstFailure(checks) = "Granted"
    BY <1>1 DEF FirstFailure
  <2>. QED BY <2>1, <1>1 DEF Outcomes
<1>2. CASE failing # {}
  <2>1. failing \subseteq Nat
    OBVIOUS
  <2>2. \E i \in failing : \A j \in failing : i <= j
    BY <1>2, <2>1, LeastExists
  <2>3. least \in failing
    BY <2>2
  <2>4. checks[least] \in BOOLEAN \X Refusals
    BY <2>3
  <2>5. FirstFailure(checks) = checks[least][2]
    BY <1>2 DEF FirstFailure
  <2>. QED BY <2>4, <2>5 DEF Refusals
<1>. QED BY <1>1, <1>2

LEMMA SelectPathType ==
  ASSUME NEW spec \in ClusterSpecs, NEW request \in Request
  PROVE  SelectPath(spec, request) \in PathIds \cup {0}
<1>. DEFINE usable == {p \in Ids(spec.paths) :
                         /\ Joins(spec.paths[p], request)
                         /\ spec.paths[p].state \notin {"Down", "Unknown"}
                         /\ EndsMatch(spec.paths[p], request)}
<1>1. spec.paths \in Table(PathIds, Path)
  BY DEF ClusterSpecs
<1>2. Ids(spec.paths) \subseteq PathIds
  BY <1>1 DEF Table, Ids
<1>3. usable \subseteq PathIds /\ usable \subseteq Nat
  BY <1>2, IdsAssumption
<1>4. usable # {} => \E p \in usable : \A q \in usable : p <= q
  BY <1>3, LeastExists
<1>5. SelectPath(spec, request) =
        IF usable = {} THEN 0 ELSE CHOOSE p \in usable : \A q \in usable : p <= q
  BY DEF SelectPath
<1>. HIDE DEF usable
<1>. QED BY <1>3, <1>4, <1>5

LEMMA BoundPathType ==
  ASSUME NEW spec \in ClusterSpecs, NEW request \in Request
  PROVE  BoundPath(spec, request) \in PathIds \cup {0}
<1>1. request.path \in PathIds \cup {0}
  BY DEF Request
<1>. QED BY <1>1, SelectPathType DEF BoundPath

LEMMA MemberChecksType ==
  ASSUME NEW spec, NEW request, NEW contract
  PROVE  MemberChecks(spec, request, contract) \in Seq(BOOLEAN \X Refusals)
<1>. DEFINE S == BOOLEAN \X Refusals
            c == MemberChecks(spec, request, contract)
<1>1. {"Unknown", "Refused", "Fenced", "Incomplete"} \subseteq Refusals
  BY DEF Refusals, Outcomes, Authorising
<1>2. c[1] \in S /\ c[2] \in S /\ c[3] \in S
  BY <1>1 DEF MemberChecks
<1>3. c[4] \in S /\ c[5] \in S /\ c[6] \in S
  BY <1>1 DEF MemberChecks
<1>4. c[7] \in S /\ c[8] \in S /\ c[9] \in S
  BY <1>1 DEF MemberChecks
<1>5. c[10] \in S /\ c[11] \in S /\ c[12] \in S
  BY <1>1 DEF MemberChecks
<1>6. c = <<c[1], c[2], c[3], c[4], c[5], c[6], c[7], c[8], c[9], c[10], c[11], c[12]>>
  BY DEF MemberChecks
<1>. HIDE DEF S, c
<1>7. <<c[1], c[2], c[3], c[4], c[5], c[6], c[7], c[8], c[9], c[10], c[11], c[12]>>
        \in Seq(S)
  BY <1>2, <1>3, <1>4, <1>5
<1>8. c \in Seq(S)
  BY <1>6, <1>7, Zenon
<1>. QED BY <1>8 DEF c, S

LEMMA PathChecksType ==
  ASSUME NEW spec, NEW request
  PROVE  PathChecks(spec, request) \in Seq(BOOLEAN \X Refusals)
<1>. DEFINE S == BOOLEAN \X Refusals
            c == PathChecks(spec, request)
<1>1. {"Unknown", "Refused", "Stale"} \subseteq Refusals
  BY DEF Refusals, Outcomes, Authorising
<1>2. c[1] \in S /\ c[2] \in S /\ c[3] \in S /\ c[4] \in S
  BY <1>1 DEF PathChecks
<1>3. c = <<c[1], c[2], c[3], c[4]>>
  BY DEF PathChecks
<1>. HIDE DEF S, c
<1>4. <<c[1], c[2], c[3], c[4]>> \in Seq(S)
  BY <1>2
<1>5. c \in Seq(S)
  BY <1>3, <1>4, Zenon
<1>. QED BY <1>5 DEF c, S

LEMMA WantedUnitsType ==
  ASSUME NEW request \in Request, NEW contract \in Contract
  PROVE  WantedUnits(request, contract) \in Nat
<1>1. request.units \in Nat
  BY DEF Request
<1>2. contract.minUnits \in Nat /\ contract.maxUnits \in Nat
  BY DEF Contract
<1>. QED BY <1>1, <1>2 DEF WantedUnits, Least

LEMMA CapacityChecksType ==
  ASSUME NEW state, NEW request \in Request, NEW contract \in Contract
  PROVE  CapacityChecks(state, request, contract) \in Seq(BOOLEAN \X Refusals)
<1>. DEFINE S == BOOLEAN \X Refusals
            c == CapacityChecks(state, request, contract)
<1>0. {"Unknown", "Refused", "Stale", "Conflicting", "Incomplete"} \subseteq Refusals
  BY DEF Refusals, Outcomes, Authorising
<1>. DEFINE tooFew == WantedUnits(request, contract) < contract.minUnits
            narrow == contract.minDomains > DistinctDomains(state.spec, request, contract)
<1>a. contract.minUnits \in Nat /\ contract.minDomains \in Nat
  BY DEF Contract
<1>b. narrow \in BOOLEAN
  BY <1>a DEF DistinctDomains
<1>c. tooFew \in BOOLEAN
  BY <1>a, WantedUnitsType
<1>d. c[1] = <<narrow, "Refused">> /\ c[2] = <<tooFew, "Refused">>
  BY DEF CapacityChecks
<1>. HIDE DEF narrow, tooFew
<1>1. c[1] \in S
  <2>. HIDE DEF c
  <2>. QED BY <1>0, <1>b, <1>d
<1>2. c[2] \in S
  <2>. HIDE DEF c
  <2>. QED BY <1>0, <1>c, <1>d
<1>3. c[3] \in S
  BY <1>0 DEF CapacityChecks
<1>4. c[4] \in S
  BY <1>0 DEF CapacityChecks
<1>5. c[5] \in S
  BY <1>0 DEF CapacityChecks
<1>6. c[6] \in S
  BY <1>0 DEF CapacityChecks
<1>7. c[7] \in S
  BY <1>0 DEF CapacityChecks
<1>8. c[8] \in S
  BY <1>0 DEF CapacityChecks
<1>9. c[9] \in S
  BY <1>0 DEF CapacityChecks
<1>10. c = <<c[1], c[2], c[3], c[4], c[5], c[6], c[7], c[8], c[9]>>
  BY DEF CapacityChecks
<1>. HIDE DEF S, c
<1>11. <<c[1], c[2], c[3], c[4], c[5], c[6], c[7], c[8], c[9]>> \in Seq(S)
  BY <1>1, <1>2, <1>3, <1>4, <1>5, <1>6, <1>7, <1>8, <1>9
<1>12. c \in Seq(S)
  BY <1>10, <1>11, Zenon
<1>. QED BY <1>12 DEF c, S

LEMMA EffectCheckType ==
  ASSUME NEW effects
  PROVE  EffectCheck(effects) \in Seq(BOOLEAN \X Refusals)
<1>1. "Refused" \in Refusals
  BY DEF Refusals, Outcomes, Authorising
<1>2. ("fails" \in effects) \in BOOLEAN
  OBVIOUS
<1>3. <<"fails" \in effects, "Refused">> \in BOOLEAN \X Refusals
  BY <1>1, <1>2
<1>. QED BY <1>3 DEF EffectCheck

LEMMA RenewalChecksType ==
  ASSUME NEW state, NEW request
  PROVE  /\ RenewalChecks(state, request) \in Seq(BOOLEAN \X Refusals)
         /\ request.renews # 0 =>
              /\ Len(RenewalChecks(state, request)) = 4
              /\ RenewalChecks(state, request)[1][1] =
                   (state.grants[request.renews].state = "Absent")
              /\ RenewalChecks(state, request)[4][1] =
                   IsTerminal(state.grants[request.renews].state)
<1>. DEFINE S == BOOLEAN \X Refusals
            c == RenewalChecks(state, request)
            present == state.grants[request.renews].state = "Absent"
            ended   == IsTerminal(state.grants[request.renews].state)
<1>1. {"Unknown", "Refused", "Conflicting"} \subseteq Refusals
  BY DEF Refusals, Outcomes, Authorising
<1>2. CASE request.renews = 0
  BY <1>2 DEF RenewalChecks
<1>3. CASE request.renews # 0
  <2>1. c[1] \in S
    BY <1>1, <1>3 DEF RenewalChecks
  <2>2. c[2] \in S
    BY <1>1, <1>3 DEF RenewalChecks
  <2>3. c[3] \in S
    BY <1>1, <1>3 DEF RenewalChecks
  <2>4. ended \in BOOLEAN
    BY DEF IsTerminal
  <2>5. c[4] \in S
    <3>. HIDE DEF ended
    <3>1. c[4] = <<ended, "Refused">>
      BY <1>3 DEF RenewalChecks, ended
    <3>. HIDE DEF c
    <3>. QED BY <1>1, <2>4, <3>1
  <2>6. c = <<c[1], c[2], c[3], c[4]>>
    BY <1>3 DEF RenewalChecks
  <2>7. c[1][1] = present
    BY <1>3 DEF RenewalChecks
  <2>8. c[4][1] = ended
    BY <1>3 DEF RenewalChecks
  <2>. HIDE DEF S, c, present, ended
  <2>9. <<c[1], c[2], c[3], c[4]>> \in Seq(S) /\ Len(<<c[1], c[2], c[3], c[4]>>) = 4
    BY <2>1, <2>2, <2>3, <2>5
  <2>10. c \in Seq(S) /\ Len(c) = 4
    BY <2>6, <2>9, Zenon
  <2>11. c \in Seq(S) /\ (request.renews # 0 => Len(c) = 4 /\ c[1][1] = present /\ c[4][1] = ended)
    BY <2>7, <2>8, <2>10
  <2>. QED BY <2>11, Zenon DEF c, S, present, ended
<1>. QED BY <1>2, <1>3

LEMMA ConcatPasses ==
  ASSUME NEW S, NEW s \in Seq(S), NEW t \in Seq(S),
         \A i \in DOMAIN (s \o t) : ~(s \o t)[i][1]
  PROVE  \A i \in 1..Len(t) : ~t[i][1]
<1>1. \A i \in 1..Len(t) : /\ Len(s) + i \in DOMAIN (s \o t)
                           /\ (s \o t)[Len(s) + i] = t[i]
  OBVIOUS
<1>. QED
  <2>. SUFFICES ASSUME NEW i \in 1..Len(t) PROVE ~t[i][1]
    OBVIOUS
  <2>1. ~(s \o t)[Len(s) + i][1]
    BY <1>1
  <2>2. (s \o t)[Len(s) + i] = t[i]
    BY <1>1
  <2>. QED BY <2>1, <2>2

\* A request that may be granted fails no check; a renewal that may be granted
\* names a grant that is present and has not ended.
LEMMA ChecksPass ==
  ASSUME NEW state, NEW request \in Request, NEW contract \in Contract,
         FirstFailure(Checks(state, request, contract)) \in Authorising,
         request.renews # 0
  PROVE  /\ state.grants[request.renews].state # "Absent"
         /\ ~IsTerminal(state.grants[request.renews].state)
<1>. DEFINE S == BOOLEAN \X Refusals
            a == MemberChecks(state.spec, request, contract)
            b == EffectCheck(MemberEffects(state, request, contract))
            c == PathChecks(state.spec, request)
            d == EffectCheck(BoundPathEffects(state, request, contract))
            e == CapacityChecks(state, request, contract)
            f == EffectCheck(Duties(state, request, contract))
            z == RenewalChecks(state, request)
            s == a \o b \o c \o d \o e \o f
<1>1. a \in Seq(S) /\ b \in Seq(S) /\ c \in Seq(S) /\ d \in Seq(S) /\ e \in Seq(S) /\ f \in Seq(S)
  BY MemberChecksType, EffectCheckType, PathChecksType, CapacityChecksType
<1>2. z \in Seq(S) /\ Len(z) = 4
  BY RenewalChecksType
<1>3. Checks(state, request, contract) = s \o z
  BY DEF Checks
<1>. HIDE DEF a, b, c, d, e, f, z
<1>4. s \in Seq(S)
  BY <1>1
<1>. HIDE DEF s
<1>5. s \o z \in Seq(S)
  BY <1>2, <1>4
<1>6. \A i \in DOMAIN (s \o z) : ~(s \o z)[i][1]
  BY <1>3, <1>5, FirstFailureDecides
<1>. HIDE DEF S
<1>7. \A i \in 1..Len(z) : ~z[i][1]
  BY <1>2, <1>4, <1>6, ConcatPasses
<1>8. ~z[1][1] /\ ~z[4][1]
  BY <1>2, <1>7
<1>. QED BY <1>8, RenewalChecksType DEF z

LEMMA MemberAtType ==
  ASSUME NEW spec \in ClusterSpecs, NEW id
  PROVE  MemberAt(spec, id) \in Member
<1>1. spec.members \in Table(MemberIds, Member)
  BY DEF ClusterSpecs
<1>2. CASE id \in Ids(spec.members)
  <2>1. MemberAt(spec, id) = spec.members[id]
    BY <1>2 DEF MemberAt
  <2>2. spec.members[id] \in Member
    BY <1>1, <1>2 DEF Ids, Table
  <2>. QED BY <2>1, <2>2
<1>3. CASE id \notin Ids(spec.members)
  <2>1. MemberAt(spec, id) = NoMember
    BY <1>3 DEF MemberAt
  <2>2. EmptyTable(ResourceIds) \in Table(ResourceIds, Resource)
    BY DEF EmptyTable, Table
  <2>3. << >> \in Seq(Names)
    OBVIOUS
  <2>4. NoMember \in Member
    BY <2>2, <2>3 DEF NoMember, Member, Lifecycles
  <2>. QED BY <2>1, <2>4
<1>. QED BY <1>2, <1>3

LEMMA PathAtType ==
  ASSUME NEW spec \in ClusterSpecs, NEW id
  PROVE  PathAt(spec, id).generation \in Nat /\ PathAt(spec, id).capacity \in Nat
<1>1. spec.paths \in Table(PathIds, Path)
  BY DEF ClusterSpecs
<1>2. CASE id \in Ids(spec.paths)
  <2>1. PathAt(spec, id) = spec.paths[id]
    BY <1>2 DEF PathAt
  <2>2. spec.paths[id] \in Path
    BY <1>1, <1>2 DEF Ids, Table
  <2>. QED BY <2>1, <2>2 DEF Path
<1>3. CASE id \notin Ids(spec.paths)
  BY <1>3 DEF PathAt, NoPath
<1>. QED BY <1>2, <1>3

LEMMA PoolOfType ==
  ASSUME NEW spec \in ClusterSpecs, NEW request
  PROVE  PoolOf(spec, request).total \in Nat
<1>. DEFINE pools == MemberAt(spec, request.source).resources
<1>1. MemberAt(spec, request.source) \in Member
  BY MemberAtType
<1>2. pools \in Table(ResourceIds, Resource)
  BY <1>1 DEF Member
<1>. HIDE DEF pools
<1>3. CASE request.resource \in Ids(pools)
  <2>1. pools[request.resource] \in Resource
    BY <1>2, <1>3 DEF Ids, Table
  <2>2. PoolOf(spec, request) = pools[request.resource]
    BY <1>3 DEF PoolOf, pools
  <2>. QED BY <2>1, <2>2 DEF Resource
<1>4. CASE request.resource \notin Ids(pools)
  <2>1. PoolOf(spec, request) = NoResource
    BY <1>4 DEF PoolOf, pools
  <2>. QED BY <2>1 DEF NoResource
<1>. QED BY <1>3, <1>4

LEMMA FreeUnitsType ==
  ASSUME NEW pool \in Nat, NEW grants, NEW holders, NEW request
  PROVE  FreeUnits(pool, grants, holders, request) \in Nat
<1>1. \A ids : UnitsOf(grants, ids) \in Nat
  BY EligibilityAssumption DEF UnitsOf
<1>. QED BY <1>1 DEF FreeUnits

LEMMA AuthorisedUnitsType ==
  ASSUME NEW engine \in Engine, NEW request \in Request, NEW contract \in Contract
  PROVE  AuthorisedUnits(engine, request, contract) \in Nat
<1>1. engine.spec \in ClusterSpecs
  BY EngineFields
<1>2. FreeOnPath(engine, request) \in Nat
  BY <1>1, PathAtType, FreeUnitsType DEF FreeOnPath
<1>3. FreeInPool(engine, request) \in Nat
  BY <1>1, PoolOfType, FreeUnitsType DEF FreeInPool
<1>4. UnitsOnPath(engine, request, contract) \in Nat
  BY <1>2, WantedUnitsType DEF UnitsOnPath
<1>. QED BY <1>3, <1>4 DEF AuthorisedUnits

\* The sequence of the checks is well typed, so it always decides an outcome.
LEMMA ChecksType ==
  ASSUME NEW state, NEW request \in Request, NEW contract \in Contract
  PROVE  Checks(state, request, contract) \in Seq(BOOLEAN \X Refusals)
<1>. DEFINE S == BOOLEAN \X Refusals
            a == MemberChecks(state.spec, request, contract)
            b == EffectCheck(MemberEffects(state, request, contract))
            c == PathChecks(state.spec, request)
            d == EffectCheck(BoundPathEffects(state, request, contract))
            e == CapacityChecks(state, request, contract)
            f == EffectCheck(Duties(state, request, contract))
            z == RenewalChecks(state, request)
<1>1. a \in Seq(S) /\ b \in Seq(S) /\ c \in Seq(S) /\ d \in Seq(S) /\ e \in Seq(S) /\ f \in Seq(S)
  BY MemberChecksType, EffectCheckType, PathChecksType, CapacityChecksType
<1>2. z \in Seq(S)
  BY RenewalChecksType
<1>3. Checks(state, request, contract) = a \o b \o c \o d \o e \o f \o z
  BY DEF Checks
<1>. HIDE DEF a, b, c, d, e, f, z, S
<1>4. a \o b \o c \o d \o e \o f \o z \in Seq(S)
  BY <1>1, <1>2
<1>. QED BY <1>3, <1>4, Zenon DEF S

LEMMA EvaluateType ==
  ASSUME NEW engine \in Engine, NEW request \in Request, NEW contract \in Contract
  PROVE  LET decision == Evaluate(engine, request, contract)
         IN  /\ decision.outcome \in Outcomes
             /\ decision.units \in Nat
             /\ decision.path \in PathIds \cup {0}
             /\ decision.outcome \in Authorising /\ request.renews # 0 =>
                  /\ engine.grants[request.renews].state # "Absent"
                  /\ ~IsTerminal(engine.grants[request.renews].state)
<1>. DEFINE failure  == FirstFailure(Checks(engine, request, contract))
            decision == Evaluate(engine, request, contract)
<1>1. failure \in Outcomes
  BY ChecksType, FirstFailureDecides
<1>2. decision.outcome \in {failure, "Granted", "Degraded", "Refused"}
  BY DEF Evaluate
<1>3. decision.outcome \in Authorising => failure \in Authorising
  <2>. HIDE DEF failure
  <2>1. failure # "Granted" => decision.outcome = failure
    BY DEF Evaluate, failure
  <2>. QED BY <2>1 DEF Authorising
<1>4. decision.units = AuthorisedUnits(engine, request, contract)
  BY DEF Evaluate
<1>5. decision.path = BoundPath(engine.spec, request)
  BY DEF Evaluate
<1>6. decision.units \in Nat
  BY <1>4, AuthorisedUnitsType
<1>7. decision.path \in PathIds \cup {0}
  BY <1>5, EngineFields, BoundPathType
<1>8. decision.outcome \in Outcomes
  BY <1>1, <1>2 DEF Outcomes
<1>. HIDE DEF failure, decision
<1>9. decision.outcome \in Authorising /\ request.renews # 0 =>
        /\ engine.grants[request.renews].state # "Absent"
        /\ ~IsTerminal(engine.grants[request.renews].state)
  BY <1>3, ChecksPass DEF failure
<1>. QED BY <1>6, <1>7, <1>8, <1>9 DEF decision

\* What the engine decides about a request; a decision that confers authority
\* has a contract, units and a path.
LEMMA DecisionType ==
  ASSUME mem \in Engine, NEW request \in Request
  PROVE  LET decision == Decision(request)
         IN  /\ decision.outcome \in Outcomes
             /\ decision.units \in Nat
             /\ decision.path \in PathIds \cup {0}
             /\ decision.outcome \in Authorising =>
                  /\ mem.contracts[request.contract] \in Contract
                  /\ request.renews # 0 =>
                       /\ mem.grants[request.renews].state # "Absent"
                       /\ ~IsTerminal(mem.grants[request.renews].state)
<1>. DEFINE contract == mem.contracts[request.contract]
            gates == << <<request.contractGen # contract.generation, "Stale">>,
                        <<~contract.enabled, "Refused">>,
                        <<Options.capabilities /\ ~contract.supported, "Unsupported">> >>
            decision == Decision(request)
            refusal(gate) == [outcome |-> gate, units |-> 0, path |-> 0]
<1>1. CASE request.contract \notin Ids(mem.contracts)
  <2>1. decision = refusal("Unknown")
    BY <1>1 DEF Decision
  <2>. QED BY <2>1 DEF Outcomes, Authorising
<1>2. CASE request.contract \in Ids(mem.contracts)
  <2>1. contract \in Contract
    BY <1>2, EngineFields DEF Ids, Table
  <2>2. gates \in Seq(BOOLEAN \X Refusals)
    <3>. HIDE DEF contract
    <3>1. <<request.contractGen # contract.generation, "Stale">> \in BOOLEAN \X Refusals
      BY DEF Refusals, Outcomes, Authorising
    <3>2. <<~contract.enabled, "Refused">> \in BOOLEAN \X Refusals
      BY DEF Refusals, Outcomes, Authorising
    <3>3. <<Options.capabilities /\ ~contract.supported, "Unsupported">> \in BOOLEAN \X Refusals
      BY DEF Refusals, Outcomes, Authorising
    <3>. QED BY <3>1, <3>2, <3>3
  <2>3. FirstFailure(gates) \in Outcomes
    BY <2>2, FirstFailureDecides
  <2>4. FirstFailure(gates) = "Granted" \/ FirstFailure(gates) \notin Authorising
    BY <2>2, FirstFailureDecides
  <2>5. CASE FirstFailure(gates) = "Granted"
    <3>1. decision = Evaluate(mem, request, contract)
      BY <1>2, <2>5 DEF Decision
    <3>. HIDE DEF decision, contract
    <3>2. /\ Evaluate(mem, request, contract).outcome \in Outcomes
          /\ Evaluate(mem, request, contract).units \in Nat
          /\ Evaluate(mem, request, contract).path \in PathIds \cup {0}
          /\ Evaluate(mem, request, contract).outcome \in Authorising /\ request.renews # 0 =>
                  /\ mem.grants[request.renews].state # "Absent"
                  /\ ~IsTerminal(mem.grants[request.renews].state)
      BY <2>1, EvaluateType
    <3>. QED BY <2>1, <3>1, <3>2 DEF decision, contract
  <2>6. CASE FirstFailure(gates) # "Granted"
    <3>1. decision = refusal(FirstFailure(gates))
      BY <1>2, <2>6 DEF Decision
    <3>. HIDE DEF gates
    <3>. QED BY <2>3, <2>4, <2>6, <3>1
  <2>. QED BY <2>5, <2>6
<1>. QED BY <1>1, <1>2

-------------------------------------------------------------------------------
(* Commands *)

LEMMA CommandKinds ==
  ASSUME NEW command \in Command
  PROVE  /\ command.kind = "UpsertMember" =>
              command.id \in MemberIds /\ command.row \in Member
         /\ command.kind = "RemoveMember" => command.id \in MemberIds
         /\ command.kind = "SetMemberLifecycle" =>
              command.id \in MemberIds /\ command.lifecycle \in Lifecycles
         /\ command.kind = "UpsertPath" =>
              command.id \in PathIds /\ command.row \in Path
         /\ command.kind = "RemovePath" => command.id \in PathIds
         /\ command.kind = "SetPathState" =>
              command.id \in PathIds /\ command.state \in PathStates
         /\ command.kind = "UpsertExclusion" =>
              command.id \in ExclusionIds /\ command.row \in Exclusion
         /\ command.kind = "RemoveExclusion" => command.id \in ExclusionIds
         /\ command.kind = "UpsertObligation" =>
              command.id \in ObligationIds /\ command.row \in Obligation
         /\ command.kind = "RemoveObligation" => command.id \in ObligationIds
         /\ command.kind = "UpsertContract" =>
              command.id \in ContractIds /\ command.row \in Contract
         /\ command.kind = "RemoveContract" => command.id \in ContractIds
         /\ command.kind = "SetPolicy" => command.policy \in Nat
<1>. USE DEF MemberUpserts, MemberRemovals, LifecycleChanges, PathUpserts,
             PathRemovals, PathChanges, ExclusionUpserts, ExclusionRemovals,
             ObligationUpserts, ObligationRemovals, ContractUpserts,
             ContractRemovals, PolicyChanges
<1>1. CASE command \in MemberUpserts
  BY <1>1
<1>2. CASE command \in MemberRemovals
  BY <1>2
<1>3. CASE command \in LifecycleChanges
  BY <1>3
<1>4. CASE command \in PathUpserts
  BY <1>4
<1>5. CASE command \in PathRemovals
  BY <1>5
<1>6. CASE command \in PathChanges
  BY <1>6
<1>7. CASE command \in ExclusionUpserts
  BY <1>7
<1>8. CASE command \in ExclusionRemovals
  BY <1>8
<1>9. CASE command \in ObligationUpserts
  BY <1>9
<1>10. CASE command \in ObligationRemovals
  BY <1>10
<1>11. CASE command \in ContractUpserts
  BY <1>11
<1>12. CASE command \in ContractRemovals
  BY <1>12
<1>13. CASE command \in PolicyChanges
  BY <1>13
<1>. QED BY <1>1, <1>2, <1>3, <1>4, <1>5, <1>6, <1>7, <1>8, <1>9, <1>10, <1>11,
            <1>12, <1>13 DEF Command

LEMMA MembersAfterType ==
  ASSUME NEW spec \in ClusterSpecs, NEW contracts, NEW command \in Command,
         Accepts(spec, contracts, command)
  PROVE  MembersAfter(spec.members, command) \in Table(MemberIds, Member)
<1>. DEFINE members == spec.members
<1>1. members \in Table(MemberIds, Member)
  BY DEF ClusterSpecs
<1>2. CASE command.kind = "UpsertMember"
  <2>1. command.id \in MemberIds /\ command.row \in Member
    BY <1>2, CommandKinds
  <2>2. MembersAfter(members, command) = [members EXCEPT ![command.id] = command.row]
    BY <1>2 DEF MembersAfter
  <2>. QED BY <1>1, <2>1, <2>2 DEF Table
<1>3. CASE command.kind = "RemoveMember"
  <2>1. command.id \in Ids(members)
    BY <1>3 DEF Accepts
  <2>2. members[command.id] \in Member
    BY <1>1, <2>1 DEF Ids, Table
  <2>3. EmptyTable(ResourceIds) \in Table(ResourceIds, Resource)
    BY DEF EmptyTable, Table
  <2>4. Retired(members[command.id]) \in Member
    BY <2>2, <2>3 DEF Retired, Member, Lifecycles
  <2>5. MembersAfter(members, command) =
          [members EXCEPT ![command.id] = Retired(members[command.id])]
    BY <1>3 DEF MembersAfter
  <2>. QED BY <1>1, <2>4, <2>5 DEF Table
<1>4. CASE command.kind = "SetMemberLifecycle"
  <2>1. command.id \in Ids(members) /\ command.lifecycle \in Lifecycles
    BY <1>4, CommandKinds DEF Accepts, LifecycleAdmissible
  <2>2. members[command.id] \in Member
    BY <1>1, <2>1 DEF Ids, Table
  <2>3. [members[command.id] EXCEPT !.lifecycle = command.lifecycle] \in Member
    BY <2>1, <2>2 DEF Member
  <2>4. MembersAfter(members, command) =
          [members EXCEPT ![command.id] =
             [members[command.id] EXCEPT !.lifecycle = command.lifecycle]]
    BY <1>4 DEF MembersAfter
  <2>. QED BY <1>1, <2>3, <2>4 DEF Table
<1>5. CASE command.kind \notin {"UpsertMember", "RemoveMember", "SetMemberLifecycle"}
  BY <1>1, <1>5 DEF MembersAfter
<1>. QED BY <1>2, <1>3, <1>4, <1>5

LEMMA PathsAfterType ==
  ASSUME NEW spec \in ClusterSpecs, NEW contracts, NEW command \in Command,
         Accepts(spec, contracts, command)
  PROVE  PathsAfter(spec.paths, command) \in Table(PathIds, Path)
<1>. DEFINE paths == spec.paths
<1>1. paths \in Table(PathIds, Path)
  BY DEF ClusterSpecs
<1>2. CASE command.kind = "UpsertPath"
  <2>1. command.id \in PathIds /\ command.row \in Path
    BY <1>2, CommandKinds
  <2>2. PathsAfter(paths, command) = [paths EXCEPT ![command.id] = command.row]
    BY <1>2 DEF PathsAfter
  <2>. QED BY <1>1, <2>1, <2>2 DEF Table
<1>3. CASE command.kind = "RemovePath"
  <2>1. PathsAfter(paths, command) = [paths EXCEPT ![command.id] = None]
    BY <1>3 DEF PathsAfter
  <2>. QED BY <1>1, <2>1 DEF Table
<1>4. CASE command.kind = "SetPathState"
  <2>1. command.id \in Ids(paths) /\ command.state \in PathStates
    BY <1>4, CommandKinds DEF Accepts
  <2>2. paths[command.id] \in Path
    BY <1>1, <2>1 DEF Ids, Table
  <2>3. [paths[command.id] EXCEPT !.state = command.state] \in Path
    BY <2>1, <2>2 DEF Path
  <2>4. PathsAfter(paths, command) =
          [paths EXCEPT ![command.id] = [paths[command.id] EXCEPT !.state = command.state]]
    BY <1>4 DEF PathsAfter
  <2>. QED BY <1>1, <2>3, <2>4 DEF Table
<1>5. CASE command.kind \notin {"UpsertPath", "RemovePath", "SetPathState"}
  BY <1>1, <1>5 DEF PathsAfter
<1>. QED BY <1>2, <1>3, <1>4, <1>5

LEMMA TablesAfterType ==
  ASSUME NEW spec \in ClusterSpecs, NEW contracts \in Table(ContractIds, Contract),
         NEW command \in Command
  PROVE  /\ ExclusionsAfter(spec.exclusions, command) \in Table(ExclusionIds, Exclusion)
         /\ ObligationsAfter(spec.obligations, command) \in Table(ObligationIds, Obligation)
         /\ ContractsAfter(contracts, command) \in Table(ContractIds, Contract)
<1>1. /\ spec.exclusions \in Table(ExclusionIds, Exclusion)
      /\ spec.obligations \in Table(ObligationIds, Obligation)
  BY DEF ClusterSpecs
<1>2. ExclusionsAfter(spec.exclusions, command) \in Table(ExclusionIds, Exclusion)
  BY <1>1, CommandKinds DEF ExclusionsAfter, Table
<1>3. ObligationsAfter(spec.obligations, command) \in Table(ObligationIds, Obligation)
  BY <1>1, CommandKinds DEF ObligationsAfter, Table
<1>4. ContractsAfter(contracts, command) \in Table(ContractIds, Contract)
  BY CommandKinds DEF ContractsAfter, Table
<1>. QED BY <1>2, <1>3, <1>4

\* What an accepted command makes of the cluster and the contracts.
LEMMA CommandType ==
  ASSUME NEW spec \in ClusterSpecs, NEW contracts \in Table(ContractIds, Contract),
         NEW command \in Command, Accepts(spec, contracts, command)
  PROVE  /\ SpecAfter(spec, command) \in ClusterSpecs
         /\ SpecAfter(spec, command).bound = spec.bound
         /\ ContractsAfter(contracts, command) \in Table(ContractIds, Contract)
<1>. DEFINE generation  == IF KeepsGeneration(command) THEN spec.generation
                           ELSE spec.generation + 1
            policy      == IF command.kind = "SetPolicy" THEN command.policy
                           ELSE spec.policy
            members     == MembersAfter(spec.members, command)
            paths       == PathsAfter(spec.paths, command)
            exclusions  == ExclusionsAfter(spec.exclusions, command)
            obligations == ObligationsAfter(spec.obligations, command)
            new == [spec EXCEPT !.generation = generation, !.policy = policy,
                                !.members = members, !.paths = paths,
                                !.exclusions = exclusions, !.obligations = obligations]
<1>1. spec.generation \in Nat /\ spec.policy \in Nat
  BY DEF ClusterSpecs
<1>2. generation \in Nat
  BY <1>1
<1>3. policy \in Nat
  BY <1>1, CommandKinds
<1>4. members \in Table(MemberIds, Member)
  BY MembersAfterType
<1>5. paths \in Table(PathIds, Path)
  BY PathsAfterType
<1>6. /\ exclusions \in Table(ExclusionIds, Exclusion)
      /\ obligations \in Table(ObligationIds, Obligation)
      /\ ContractsAfter(contracts, command) \in Table(ContractIds, Contract)
  BY TablesAfterType
<1>7. SpecAfter(spec, command) = new
  BY DEF SpecAfter, ClusterSpecs
<1>. HIDE DEF generation, policy, members, paths, exclusions, obligations
<1>8. new \in ClusterSpecs
  BY <1>2, <1>3, <1>4, <1>5, <1>6 DEF ClusterSpecs
<1>9. new.bound = spec.bound
  BY DEF ClusterSpecs
<1>. HIDE DEF new
<1>. QED BY <1>6, <1>7, <1>8, <1>9

\* Replay of a command: typed, and the grants and attempts are left alone.
LEMMA WriteCommandType ==
  ASSUME NEW image \in Image, NEW command \in Command, NEW now \in Nat
  PROVE  LET new == WriteCommand(image, command, now)
         IN  /\ new \in Image
             /\ new.grants = image.grants
             /\ new.spec.bound = image.spec.bound
<1>. DEFINE tick == Greatest(image.tick, now)
<1>1. tick \in Nat
  BY ImageFields DEF Greatest
<1>2. CASE Accepts(image.spec, image.contracts, command)
  <2>. DEFINE spec == SpecAfter(image.spec, command)
              contracts == ContractsAfter(image.contracts, command)
              new == [image EXCEPT !.spec = spec, !.contracts = contracts, !.tick = tick]
  <2>1. image.spec \in ClusterSpecs /\ image.contracts \in Table(ContractIds, Contract)
    BY ImageFields
  <2>2. /\ spec \in ClusterSpecs
        /\ spec.bound = image.spec.bound
        /\ contracts \in Table(ContractIds, Contract)
    BY <1>2, <2>1, CommandType
  <2>3. WriteCommand(image, command, now) = new
    BY <1>2 DEF WriteCommand, Image
  <2>. HIDE DEF spec, contracts, tick
  <2>4. new \in Image
    BY <1>1, <2>2 DEF Image
  <2>5. new.grants = image.grants /\ new.spec = spec
    BY DEF Image
  <2>. HIDE DEF new
  <2>. QED BY <2>2, <2>3, <2>4, <2>5
<1>3. CASE ~Accepts(image.spec, image.contracts, command)
  <2>. DEFINE new == [image EXCEPT !.tick = tick, !.replays = FALSE]
  <2>1. WriteCommand(image, command, now) = new
    BY <1>3 DEF WriteCommand, Image
  <2>. HIDE DEF tick
  <2>2. new \in Image
    BY <1>1 DEF Image
  <2>3. new.grants = image.grants /\ new.spec = image.spec
    BY DEF Image
  <2>. HIDE DEF new
  <2>. QED BY <2>1, <2>2, <2>3
<1>. QED BY <1>2, <1>3

\* What an accepted command makes of the engine, before it revalidates.
LEMMA CommandedType ==
  ASSUME NEW engine \in Engine, NEW command \in Command,
         Accepts(engine.spec, engine.contracts, command)
  PROVE  LET new == [engine EXCEPT !.spec = SpecAfter(@, command),
                                   !.contracts = ContractsAfter(@, command)]
         IN  /\ new \in Engine
             /\ new.grants = engine.grants
             /\ new.attempts = engine.attempts
             /\ new.serial = engine.serial
             /\ new.tick = engine.tick
             /\ new.spec.bound = engine.spec.bound
<1>. DEFINE spec == SpecAfter(engine.spec, command)
            contracts == ContractsAfter(engine.contracts, command)
            new == [engine EXCEPT !.spec = spec, !.contracts = contracts]
<1>1. engine.spec \in ClusterSpecs /\ engine.contracts \in Table(ContractIds, Contract)
  BY EngineFields
<1>2. /\ spec \in ClusterSpecs
      /\ spec.bound = engine.spec.bound
      /\ contracts \in Table(ContractIds, Contract)
  BY <1>1, CommandType
<1>3. [engine EXCEPT !.spec = SpecAfter(@, command),
                     !.contracts = ContractsAfter(@, command)] = new
  BY DEF Engine
<1>. HIDE DEF spec, contracts
<1>4. new \in Engine
  BY <1>2 DEF Engine
<1>5. /\ new.grants = engine.grants
      /\ new.attempts = engine.attempts
      /\ new.serial = engine.serial
      /\ new.tick = engine.tick
      /\ new.spec = spec
  BY DEF Engine
<1>. HIDE DEF new
<1>. QED BY <1>2, <1>3, <1>4, <1>5

-------------------------------------------------------------------------------
(* Single records and rows *)

LEMMA WriteGrantType ==
  ASSUME NEW image \in Image, NEW id \in GrantIds, NEW grant \in Grant, NEW now \in Nat
  PROVE  LET new == WriteGrant(image, id, grant, now)
         IN  /\ new \in Image
             /\ \A g \in GrantIds :
                  new.grants[g] = IF g \in {id} THEN grant ELSE image.grants[g]
             /\ new.spec = image.spec
             /\ new.attempts = image.attempts
<1>. DEFINE rows == [g \in GrantIds |-> grant]
<1>1. rows \in [GrantIds -> Grant] /\ {id} \in SUBSET GrantIds
  OBVIOUS
<1>2. WriteGrant(image, id, grant, now) = WriteGrants(image, {id}, rows, now)
  BY DEF WriteGrant
<1>3. \A g \in GrantIds : rows[g] = grant
  OBVIOUS
<1>. HIDE DEF rows
<1>4. LET new == WriteGrants(image, {id}, rows, now)
      IN  /\ new \in Image
          /\ \A g \in GrantIds :
               new.grants[g] = IF g \in {id} THEN rows[g] ELSE image.grants[g]
          /\ new.spec = image.spec
          /\ new.attempts = image.attempts
  BY <1>1, WriteGrantsType
<1>. QED BY <1>2, <1>3, <1>4

LEMMA WriteAttemptType ==
  ASSUME NEW image \in Image, NEW id, NEW attempt, NEW now \in Nat,
         id \in Attempts => attempt \in Attempt
  PROVE  LET new == WriteAttempt(image, id, attempt, now)
         IN  /\ new \in Image
             /\ new.grants = image.grants
             /\ new.spec = image.spec
<1>. DEFINE rows == [a \in Attempts |-> attempt]
<1>1. \A a \in Attempts : a \in {id} => rows[a] \in Attempt
  OBVIOUS
<1>2. WriteAttempt(image, id, attempt, now) = WriteAttempts(image, {id}, rows, now)
  BY DEF WriteAttempt
<1>. HIDE DEF rows
<1>3. LET new == WriteAttempts(image, {id}, rows, now)
      IN  /\ new \in Image
          /\ new.grants = image.grants
          /\ new.spec = image.spec
  BY <1>1, WriteAttemptsType
<1>. QED BY <1>2, <1>3

WithGrant(engine, id, grant) == [engine EXCEPT !.grants[id] = grant]

LEMMA EngineGrant ==
  ASSUME NEW engine \in Engine, NEW id \in GrantIds, NEW grant \in Grant
  PROVE  LET new == WithGrant(engine, id, grant)
         IN  /\ new \in Engine
             /\ \A g \in GrantIds :
                  new.grants[g] = IF g \in {id} THEN grant ELSE engine.grants[g]
             /\ new.serial = engine.serial
             /\ new.spec = engine.spec
             /\ new.attempts = engine.attempts
             /\ new.tick = engine.tick
<1>. DEFINE grants == [engine.grants EXCEPT ![id] = grant]
<1>1. engine.grants \in [GrantIds -> Grant]
  BY EngineFields
<1>2. /\ grants \in [GrantIds -> Grant]
      /\ \A g \in GrantIds : grants[g] = IF g \in {id} THEN grant ELSE engine.grants[g]
  BY <1>1
<1>. DEFINE new == [engine EXCEPT !.grants = grants]
<1>3. WithGrant(engine, id, grant) = new
  BY DEF Engine, WithGrant
<1>. HIDE DEF grants
<1>4. /\ new \in Engine
      /\ new.grants = grants
      /\ new.serial = engine.serial
      /\ new.spec = engine.spec
      /\ new.attempts = engine.attempts
      /\ new.tick = engine.tick
  <2>1. grants \in [GrantIds -> Grant]
    BY <1>2
  <2>. QED BY <2>1 DEF Engine
<1>. HIDE DEF new
<1>5. \A g \in GrantIds : new.grants[g] = IF g \in {id} THEN grant ELSE engine.grants[g]
  BY <1>2, <1>4
<1>. QED BY <1>3, <1>4, <1>5

WithAttempt(engine, id, attempt) == [engine EXCEPT !.attempts[id] = attempt]

LEMMA EngineAttempt ==
  ASSUME NEW engine \in Engine, NEW id, NEW attempt, id \in Attempts => attempt \in Attempt
  PROVE  LET new == WithAttempt(engine, id, attempt)
         IN  /\ new \in Engine
             /\ new.grants = engine.grants
             /\ new.serial = engine.serial
             /\ new.spec = engine.spec
<1>. DEFINE attempts == [engine.attempts EXCEPT ![id] = attempt]
<1>1. engine.attempts \in [Attempts -> Attempt]
  BY EngineFields
<1>2. attempts \in [Attempts -> Attempt]
  BY <1>1
<1>. DEFINE new == [engine EXCEPT !.attempts = attempts]
<1>3. WithAttempt(engine, id, attempt) = new
  BY DEF Engine, WithAttempt
<1>. HIDE DEF attempts
<1>4. /\ new \in Engine
      /\ new.grants = engine.grants
      /\ new.serial = engine.serial
      /\ new.spec = engine.spec
  BY <1>2 DEF Engine
<1>. HIDE DEF new
<1>. QED BY <1>3, <1>4

-------------------------------------------------------------------------------
(* Requests *)

LEMMA ViewsType == ASSUME mem \in Engine PROVE Views \subseteq View
<1>1. CurrentView \in View
  <2>1. mem.spec \in ClusterSpecs /\ mem.incarnation \in Nat
    BY EngineFields
  <2>. QED BY <2>1 DEF CurrentView, View, ClusterSpecs
<1>2. \A n \in Nat : /\ [CurrentView EXCEPT !.generation = n] \in View
                     /\ [CurrentView EXCEPT !.epoch = n] \in View
                     /\ [CurrentView EXCEPT !.incarnation = n] \in View
                     /\ [CurrentView EXCEPT !.policy = n] \in View
  BY <1>1 DEF View
<1>3. [CurrentView EXCEPT !.cluster = FALSE] \in View
  BY <1>1 DEF View
<1>. QED BY <1>1, <1>2, <1>3 DEF Views

LEMMA NewGrantType ==
  ASSUME mem \in Engine, NEW request \in Request,
         Decision(request).outcome \in Authorising
  PROVE  LET grant == NewGrant(request, Decision(request))
         IN  /\ grant \in Grant
             /\ grant.state = "Committed" /\ grant.commit = "Committed"
<1>. DEFINE decision == Decision(request)
            contract == mem.contracts[request.contract]
            source   == MemberAt(mem.spec, request.source)
            target   == MemberAt(mem.spec, request.target)
            pathGen  == PathAt(mem.spec, decision.path).generation
            degraded == decision.outcome = "Degraded"
            requested == IF request.units = 0 THEN contract.minUnits ELSE request.units
            expiry   == mem.tick + LeaseTicks(request)
            epoch    == mem.spec.epoch
<1>1. /\ decision.units \in Nat /\ decision.path \in PathIds \cup {0}
      /\ contract \in Contract
  BY DecisionType
<1>2. mem.spec \in ClusterSpecs /\ mem.tick \in Nat
  BY EngineFields
<1>3. source \in Member /\ target \in Member
  BY <1>2, MemberAtType
<1>4. /\ source.generation \in Nat /\ target.generation \in Nat
      /\ source.digest \in Names \cup {None} /\ target.digest \in Names \cup {None}
  BY <1>3 DEF Member
<1>5. pathGen \in Nat
  BY <1>2, PathAtType
<1>6. contract.minUnits \in Nat /\ contract.target \in Names
  BY <1>1 DEF Contract
<1>7. /\ request.attempt \in Attempts /\ request.contract \in ContractIds
      /\ request.source \in MemberIds /\ request.target \in MemberIds
      /\ request.resource \in ResourceIds \cup {None}
      /\ request.units \in Nat /\ request.lease \in Nat
  BY DEF Request
<1>8. requested \in Nat
  BY <1>6, <1>7
<1>9. expiry \in Nat
  BY <1>2, <1>7, EligibilityAssumption DEF LeaseTicks
<1>10. epoch \in Nat
  BY <1>2 DEF ClusterSpecs
<1>11. degraded \in BOOLEAN
  OBVIOUS
<1>12. NewGrant(request, decision) =
        [state |-> "Committed", commit |-> "Committed", acked |-> FALSE,
         degraded |-> degraded, attempt |-> request.attempt,
         contract |-> request.contract, source |-> request.source,
         target |-> request.target, sourceGen |-> source.generation,
         targetGen |-> target.generation, sourceDigest |-> source.digest,
         targetDigest |-> target.digest, service |-> contract.target,
         path |-> decision.path, pathGen |-> pathGen,
         resource |-> request.resource, units |-> decision.units,
         requested |-> requested, expiry |-> expiry, epoch |-> epoch]
  BY DEF NewGrant
<1>. HIDE DEF decision, contract, source, target, pathGen, degraded, requested, expiry, epoch
<1>13. NewGrant(request, decision) \in Grant
  BY <1>1, <1>4, <1>5, <1>6, <1>7, <1>8, <1>9, <1>10, <1>11, <1>12
     DEF Grant, GrantStates, CommitStates
<1>14. /\ NewGrant(request, decision).state = "Committed"
       /\ NewGrant(request, decision).commit = "Committed"
  BY <1>12
<1>. QED BY <1>13, <1>14 DEF decision
===============================================================================
