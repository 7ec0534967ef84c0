------------------------------ MODULE Eligibility ------------------------------
(***************************************************************************)
(* AuthorityCore::evaluate (src/authority.cpp): whether a request may be   *)
(* granted against the declared cluster, its contract and the grants that  *)
(* already hold capacity, and for how many units.  The checks are kept in  *)
(* the order of the code: the first one that fails decides the outcome.    *)
(* "state" is the part of the engine evaluate reads: spec, tick, grants.   *)
(***************************************************************************)
EXTENDS ClusterModel, GrantLifecycle, FiniteSetsExt

CONSTANTS
  GrantIds,     \* grant serials; grant "g-n" and lease "l-n" are both n
  Attempts,     \* attempt ids callers use
  UnitCeiling,  \* UINT64_MAX, where checked_add saturates
  Options       \* AuthorityOptions, and how the embedding program recovers

ASSUME EligibilityAssumption ==
  /\ GrantIds \subseteq Nat \ {0}
  /\ IsFiniteSet(GrantIds)
  /\ None \notin Attempts
  /\ UnitCeiling \in Nat
  /\ Options \in [digests : BOOLEAN,        \* require_member_digests
                  binding : BOOLEAN,        \* require_path_binding
                  capacity : BOOLEAN,       \* enforce_capacity
                  capabilities : BOOLEAN,   \* reject_unknown_capabilities
                  defaultLease : Nat, maxLease : Nat,
                  fenceAll : BOOLEAN,       \* RecoveryPolicy::FenceAll
                  attaches : BOOLEAN]       \* attach_sink before recover

\* AuthorityRequest without its coordinate: 0 is no path or no grant, None no
\* endpoint, resource or digest; renews # 0 makes it a renewal.
Request ==
  [attempt : Attempts, contract : ContractIds, contractGen : Nat,
   source : MemberIds, target : MemberIds, sourceGen : Nat, targetGen : Nat,
   sourceDigest : Names \cup {None}, targetDigest : Names \cup {None},
   sourceEnd : Names \cup {None}, targetEnd : Names \cup {None},
   path : PathIds \cup {0}, pathGen : Nat,
   resource : ResourceIds \cup {None}, resourceGen : Nat,
   units : Nat, lease : Nat, degradable : BOOLEAN,
   renews : GrantIds \cup {0}, renewedLease : GrantIds \cup {0}]

-------------------------------------------------------------------------------
\* The outcome of the first failing check, "Granted" when none fails.  A check
\* is a pair <<fails, outcome>>.
FirstFailure(checks) ==
  LET failing == {i \in DOMAIN checks : checks[i][1]}
  IN  IF failing = {} THEN "Granted"
      ELSE checks[CHOOSE i \in failing : \A j \in failing : i <= j][2]

\* Rows standing for ids that are not declared; no later check is decisive then.
NoMember ==
  [generation |-> 0, digest |-> None, lifecycle |-> "Removed", endpoints |-> {},
   services |-> {}, resources |-> EmptyTable(ResourceIds), locality |-> <<>>]

NoResource == [total |-> 0, reservable |-> FALSE, generation |-> 0]

NoPath ==
  [generation |-> 0, source |-> None, target |-> None, sourceEnd |-> None,
   targetEnd |-> None, state |-> "Operational", capacity |-> 0,
   exclusive |-> FALSE, resources |-> {}]

MemberAt(spec, id) ==
  IF id \in Ids(spec.members) THEN spec.members[id] ELSE NoMember

PathAt(spec, id) == IF id \in Ids(spec.paths) THEN spec.paths[id] ELSE NoPath

\* How a contract takes a member or path that is in a maintenance mode, and a
\* member that is in a lifecycle; evaluate and revalidate_grant agree on both.
ModeEffect(mode) ==
  CASE mode = "Allow"   -> "ok"
    [] mode = "Degrade" -> "degrades"
    [] mode = "Refuse"  -> "fails"

LifecycleEffect(contract, lifecycle) ==
  CASE lifecycle = "Active"      -> "ok"
    [] lifecycle = "Draining"    -> IF contract.draining THEN "degrades" ELSE "fails"
    [] lifecycle = "Maintenance" -> ModeEffect(contract.maintenance)
    [] lifecycle = "Faulted"     -> IF contract.faulted THEN "degrades" ELSE "fails"
    [] lifecycle = "Partitioned" -> IF contract.partitioned THEN "degrades" ELSE "fails"
    [] lifecycle \in {"Enlisted", "Removed"} -> "fails"

PathEffect(contract, pathState) ==
  CASE pathState = "Operational" -> "ok"
    [] pathState = "Degraded"    -> "degrades"
    [] pathState = "Maintenance" -> ModeEffect(contract.maintenance)
    [] pathState \in {"Down", "Unknown"} -> "fails"

-------------------------------------------------------------------------------
MemberChecks(spec, request, contract) ==
  LET source == MemberAt(spec, request.source)
      target == MemberAt(spec, request.target)
  IN  << <<request.source \notin Ids(spec.members), "Unknown">>,
         <<request.target \notin Ids(spec.members), "Unknown">>,
         <<source.lifecycle = "Removed" \/ target.lifecycle = "Removed", "Refused">>,
         <<request.sourceGen # source.generation, "Fenced">>,
         <<request.targetGen # target.generation, "Fenced">>,
         <<Options.digests /\ None \in {request.sourceDigest, request.targetDigest},
           "Incomplete">>,
         <<source.digest \notin {None, request.sourceDigest}, "Fenced">>,
         <<target.digest \notin {None, request.targetDigest}, "Fenced">>,
         <<request.sourceEnd \notin source.endpoints \cup {None}, "Unknown">>,
         <<request.targetEnd \notin target.endpoints \cup {None}, "Unknown">>,
         <<contract.source \notin source.services, "Refused">>,
         <<contract.target \notin target.services, "Refused">> >>

\* The effects of the participants' lifecycles and of the exclusions over them.
MemberEffects(state, request, contract) ==
  UNION {{LifecycleEffect(contract, MemberAt(state.spec, id).lifecycle),
          ModeEffect(MemberMode(state.spec, id, MemberAt(state.spec, id), state.tick))} :
         id \in {request.source, request.target}}

EndsMatch(path, request) ==
  /\ None \in {request.sourceEnd, path.sourceEnd} \/ request.sourceEnd = path.sourceEnd
  /\ None \in {request.targetEnd, path.targetEnd} \/ request.targetEnd = path.targetEnd

Joins(path, request) ==
  path.source = request.source /\ path.target = request.target

\* select_path: the least usable path that joins the members; 0 when there is none.
SelectPath(spec, request) ==
  LET usable == {p \in Ids(spec.paths) :
                   /\ Joins(spec.paths[p], request)
                   /\ spec.paths[p].state \notin {"Down", "Unknown"}
                   /\ EndsMatch(spec.paths[p], request)}
  IN  IF usable = {} THEN 0 ELSE CHOOSE p \in usable : \A q \in usable : p <= q

\* The path the request names, or the one the engine binds; 0 binds none.
BoundPath(spec, request) ==
  IF request.path # 0 THEN request.path
  ELSE IF Options.binding THEN SelectPath(spec, request) ELSE 0

PathChecks(spec, request) ==
  LET path == PathAt(spec, request.path)
  IN  << <<request.path # 0 /\ request.path \notin Ids(spec.paths), "Unknown">>,
         <<request.path # 0 /\ request.pathGen # path.generation, "Stale">>,
         <<request.path # 0 /\ ~(Joins(path, request) /\ EndsMatch(path, request)),
           "Refused">>,
         <<Options.binding /\ BoundPath(spec, request) = 0, "Refused">> >>

PathEffects(state, contract, bound) ==
  IF bound = 0 THEN {}
  ELSE {PathEffect(contract, PathAt(state.spec, bound).state),
        ModeEffect(PathMode(state.spec, bound, state.tick))}

\* The failure domains the relationship spans at the contract's level.
DistinctDomains(spec, request, contract) ==
  IF DomainKey(MemberAt(spec, request.source).locality, contract.level) =
     DomainKey(MemberAt(spec, request.target).locality, contract.level)
  THEN 1 ELSE 2

-------------------------------------------------------------------------------
\* Capacity.

\* checked_add over a loop: the sum, or UINT64_MAX once it would not fit.
UnitsOf(grants, holders) ==
  LET sum == MapThenSumSet(LAMBDA g : grants[g].units, holders)
  IN  IF sum \in 0..UnitCeiling THEN sum ELSE UnitCeiling

Holders(grants) == {g \in GrantIds : HoldsCapacity(grants[g].state)}

\* What a pool still has for this request; a renewal leaves its own grant out.
FreeUnits(pool, grants, holders, request) ==
  LET taken == UnitsOf(grants, holders \ {request.renews})
  IN  IF pool > taken THEN pool - taken ELSE 0

PathHolders(grants, path) == {g \in Holders(grants) : grants[g].path = path}

ResourceHolders(grants, resource) ==
  {g \in Holders(grants) : grants[g].resource = resource}

\* An exclusive path is shared only with the same attempt or the renewed grant.
Occupied(state, path, request) ==
  /\ PathAt(state.spec, path).exclusive
  /\ \E g \in PathHolders(state.grants, path) :
       /\ state.grants[g].attempt # request.attempt
       /\ g # request.renews

WantedUnits(request, contract) ==
  LET asked == IF request.units = 0 THEN contract.minUnits ELSE request.units
  IN  IF contract.maxUnits = 0 THEN asked ELSE Least(asked, contract.maxUnits)

Ceilinged(request, contract) ==
  /\ contract.maxUnits # 0
  /\ contract.maxUnits < IF request.units = 0 THEN contract.minUnits ELSE request.units

CanReduceTo(free, request, contract) ==
  free > 0 /\ free >= contract.minUnits /\ contract.degradable /\ request.degradable

\* The contract's failure domains, and the domains that meet an obligation's
\* floor.  The new grant is counted under the key of the contract's level,
\* whatever the level of the obligation.
DomainUnits(state, obligation, key) ==
  UnitsOf(state.grants,
          {g \in Holders(state.grants) :
             /\ state.grants[g].service = obligation.service
             /\ state.grants[g].target \in Ids(state.spec.members)
             /\ DomainKey(state.spec.members[state.grants[g].target].locality,
                          obligation.level) = key})

DomainsMeeting(state, obligation, ownKey, own) ==
  LET keys == {DomainKey(state.spec.members[m].locality, obligation.level) :
                 m \in Ids(state.spec.members)} \cup {ownKey}
      units(key) == DomainUnits(state, obligation, key) +
                    IF key = ownKey THEN own ELSE 0
  IN  Cardinality({key \in keys : units(key) > 0 /\ units(key) >= obligation.units})

ObligationEffect(state, obligation, request, contract, units) ==
  LET key    == DomainKey(MemberAt(state.spec, request.target).locality, contract.level)
      before == DomainsMeeting(state, obligation, key, 0)
      after  == DomainsMeeting(state, obligation, key, units)
  IN  IF ~obligation.enabled \/ obligation.service # contract.target
         \/ after >= obligation.domains THEN "ok"
      ELSE IF after > before THEN "degrades" ELSE "fails"

ObligationEffects(state, request, contract, units) ==
  {ObligationEffect(state, state.spec.obligations[o], request, contract, units) :
     o \in Ids(state.spec.obligations)}

\* The checks that make a request a renewal of the grant it names.
RenewalChecks(state, request) ==
  LET renewed == state.grants[request.renews]
  IN  IF request.renews = 0 THEN << >>
      ELSE << <<renewed.state = "Absent", "Unknown">>,
              <<request.renewedLease # request.renews, "Conflicting">>,
              <<renewed.attempt # request.attempt, "Conflicting">>,
              <<IsTerminal(renewed.state), "Refused">> >>

\* The pool a request names at its source.
PoolOf(spec, request) ==
  LET pools == MemberAt(spec, request.source).resources
  IN  IF request.resource \in Ids(pools) THEN pools[request.resource] ELSE NoResource

\* Step 9: the units are cut down to what is free on the path ...
FreeOnPath(state, request) ==
  LET bound == BoundPath(state.spec, request)
  IN  FreeUnits(PathAt(state.spec, bound).capacity, state.grants,
                PathHolders(state.grants, bound), request)

Crowded(state, request, contract) ==
  /\ Options.capacity
  /\ BoundPath(state.spec, request) # 0
  /\ WantedUnits(request, contract) > FreeOnPath(state, request)

UnitsOnPath(state, request, contract) ==
  IF Crowded(state, request, contract) THEN FreeOnPath(state, request)
  ELSE WantedUnits(request, contract)

\* ... and, step 10, to what is free in the pool.
FreeInPool(state, request) ==
  FreeUnits(PoolOf(state.spec, request).total, state.grants,
            ResourceHolders(state.grants, request.resource), request)

Drained(state, request, contract) ==
  /\ Options.capacity
  /\ request.resource # None
  /\ UnitsOnPath(state, request, contract) > FreeInPool(state, request)

AuthorisedUnits(state, request, contract) ==
  IF Drained(state, request, contract) THEN FreeInPool(state, request)
  ELSE UnitsOnPath(state, request, contract)

\* What makes the units asked for fail; the first row is the rule on failure
\* domains that comes before them.
CapacityChecks(state, request, contract) ==
  LET bound == BoundPath(state.spec, request)
      pool  == PoolOf(state.spec, request)
      pools == MemberAt(state.spec, request.source).resources
  IN  << <<contract.minDomains > DistinctDomains(state.spec, request, contract),
           "Refused">>,
         <<WantedUnits(request, contract) < contract.minUnits, "Refused">>,
         <<Options.capacity /\ bound # 0 /\ Occupied(state, bound, request),
           "Conflicting">>,
         <<Crowded(state, request, contract)
             /\ ~CanReduceTo(FreeOnPath(state, request), request, contract), "Refused">>,
         <<request.resource \notin Ids(pools) \cup {None}, "Unknown">>,
         <<request.resource # None /\ request.resourceGen # pool.generation, "Stale">>,
         <<request.resource # None /\ ~pool.reservable, "Refused">>,
         <<Drained(state, request, contract)
             /\ ~CanReduceTo(FreeInPool(state, request), request, contract), "Refused">>,
         <<Options.capacity /\ request.resource = None /\ request.units > 0
             /\ PathAt(state.spec, bound).resources # {}, "Incomplete">> >>

\* The effects of what the request stands on; "fails" refuses it.
EffectCheck(effects) == << <<"fails" \in effects, "Refused">> >>

BoundPathEffects(state, request, contract) ==
  PathEffects(state, contract, BoundPath(state.spec, request))

Duties(state, request, contract) ==
  ObligationEffects(state, request, contract, AuthorisedUnits(state, request, contract))

Checks(state, request, contract) ==
  MemberChecks(state.spec, request, contract)
    \o EffectCheck(MemberEffects(state, request, contract))
    \o PathChecks(state.spec, request)
    \o EffectCheck(BoundPathEffects(state, request, contract))
    \o CapacityChecks(state, request, contract)
    \o EffectCheck(Duties(state, request, contract))
    \o RenewalChecks(state, request)

\* The degradations evaluate collects.
Reduced(state, request, contract) ==
  \/ Ceilinged(request, contract)
  \/ Crowded(state, request, contract)
  \/ Drained(state, request, contract)
  \/ "degrades" \in MemberEffects(state, request, contract)
                      \cup BoundPathEffects(state, request, contract)
                      \cup Duties(state, request, contract)

\* evaluate, followed by the test submit and renew both make of its degradations:
\* what the request would be granted, or why not.
Evaluate(state, request, contract) ==
  LET failure == FirstFailure(Checks(state, request, contract))
  IN  [outcome |-> IF failure # "Granted" THEN failure
                   ELSE IF ~Reduced(state, request, contract) THEN "Granted"
                   ELSE IF contract.degradable /\ request.degradable THEN "Degraded"
                   ELSE "Refused",
       units   |-> AuthorisedUnits(state, request, contract),
       path    |-> BoundPath(state.spec, request)]
===============================================================================
