----------------------------- MODULE ClusterModel -----------------------------
(***************************************************************************)
(* The declared cluster: ClusterSpec (src/model.cpp) with its members,     *)
(* paths, maintenance exclusions and capacity obligations, and the contract*)
(* table (src/contract.cpp).  A table is a function of all its ids, None   *)
(* at those it has no row for.  An administrative command is a record; the *)
(* operators Accepts, SpecAfter and ContractsAfter serve both the engine,  *)
(* which applies a command to its state, and replay, which applies the     *)
(* journaled command to the state it rebuilds.                             *)
(***************************************************************************)
EXTENDS Naturals, Sequences, FiniteSets

CONSTANTS
  MemberIds,      \* member ids
  PathIds,        \* path ids, positive naturals: the code picks the least id
  ExclusionIds,   \* exclusion ids, naturals: the code scans them in id order
  ObligationIds,  \* capacity obligation ids
  ContractIds,    \* contract ids
  ResourceIds,    \* ids of the reservable resources members declare
  Names,          \* digests, services, endpoints and locality labels
  None            \* an empty id, a zero digest, or no row

ASSUME IdsAssumption ==
  /\ PathIds \subseteq Nat \ {0}
  /\ ExclusionIds \subseteq Nat
  /\ None \notin MemberIds \cup ContractIds \cup ResourceIds \cup Names

Lifecycles ==
  {"Enlisted", "Active", "Draining", "Maintenance", "Faulted", "Partitioned",
   "Removed"}

PathStates == {"Operational", "Degraded", "Maintenance", "Down", "Unknown"}

\* MaintenanceMode, of exclusions and of contracts.
Modes == {"Refuse", "Degrade", "Allow"}

Resource == [total : Nat, reservable : BOOLEAN, generation : Nat]

Table(ids, Row) == [ids -> Row \cup {None}]

EmptyTable(ids) == [id \in ids |-> None]

Ids(table) == {id \in DOMAIN table : table[id] # None}

Member ==
  [generation : Nat, digest : Names \cup {None}, lifecycle : Lifecycles,
   endpoints : SUBSET Names, services : SUBSET Names,
   resources : Table(ResourceIds, Resource), locality : Seq(Names)]

Path ==
  [generation : Nat, source : MemberIds, target : MemberIds,
   sourceEnd : Names \cup {None}, targetEnd : Names \cup {None},
   state : PathStates, capacity : Nat, exclusive : BOOLEAN,
   resources : SUBSET ResourceIds]

Exclusion ==
  [enabled : BOOLEAN, from : Nat, to : Nat, members : SUBSET MemberIds,
   paths : SUBSET PathIds, prefix : Seq(Names), mode : Modes]

Obligation ==
  [enabled : BOOLEAN, service : Names, level : Nat, units : Nat, domains : Nat]

Contract ==
  [generation : Nat, enabled : BOOLEAN, supported : BOOLEAN,
   source : Names, target : Names, minUnits : Nat, maxUnits : Nat,
   level : Nat, minDomains : Nat, draining : BOOLEAN, faulted : BOOLEAN,
   partitioned : BOOLEAN, maintenance : Modes, degradable : BOOLEAN]

\* ClusterSpec.  "bound" says that the cluster id is set.  The tick and the
\* incarnation, which ClusterSpec also carries, are fields of the engine here.
ClusterSpecs ==
  [bound : BOOLEAN, generation : Nat, epoch : Nat, policy : Nat,
   members : Table(MemberIds, Member), paths : Table(PathIds, Path),
   exclusions : Table(ExclusionIds, Exclusion),
   obligations : Table(ObligationIds, Obligation)]

UnboundSpec ==
  [bound |-> FALSE, generation |-> 0, epoch |-> 0, policy |-> 0,
   members |-> EmptyTable(MemberIds), paths |-> EmptyTable(PathIds),
   exclusions |-> EmptyTable(ExclusionIds),
   obligations |-> EmptyTable(ObligationIds)]

\* A row of a table is never mistaken for a row that is not there.
ASSUME RowsAssumption == None \notin Member \cup Path

-------------------------------------------------------------------------------
Least(a, b) == IF a <= b THEN a ELSE b

Greatest(a, b) == IF a >= b THEN a ELSE b

\* LocalityPath::domain_key: the labels down to a level name a failure domain.
DomainKey(locality, level) == SubSeq(locality, 1, Least(level, Len(locality)))

\* MaintenanceExclusion::active_at; to = 0 leaves the window open.
ActiveAt(exclusion, now) ==
  /\ exclusion.enabled
  /\ now >= exclusion.from
  /\ exclusion.to # 0 => now <= exclusion.to

\* An exclusion that names no member covers every member, whatever paths it
\* names.
CoversMember(exclusion, id, member, now) ==
  /\ ActiveAt(exclusion, now)
  /\ exclusion.members # {} => id \in exclusion.members
  /\ Len(exclusion.prefix) <= Len(member.locality)
  /\ \A i \in DOMAIN exclusion.prefix : exclusion.prefix[i] = member.locality[i]

CoversPath(exclusion, id, now) ==
  /\ ActiveAt(exclusion, now)
  /\ exclusion.paths # {} => id \in exclusion.paths

\* exclusion_for_member and exclusion_for_path return the first exclusion in id
\* order that covers their argument; none covering it permits like "Allow".
FirstMode(exclusions, covering) ==
  IF covering = {} THEN "Allow"
  ELSE exclusions[CHOOSE x \in covering : \A y \in covering : x <= y].mode

MemberMode(spec, id, member, now) ==
  FirstMode(spec.exclusions,
            {x \in Ids(spec.exclusions) :
               CoversMember(spec.exclusions[x], id, member, now)})

PathMode(spec, id, now) ==
  FirstMode(spec.exclusions,
            {x \in Ids(spec.exclusions) :
               CoversPath(spec.exclusions[x], id, now)})

-------------------------------------------------------------------------------
\* Administrative commands.

MemberUpserts == [kind : {"UpsertMember"}, id : MemberIds, row : Member]
MemberRemovals == [kind : {"RemoveMember"}, id : MemberIds]
LifecycleChanges ==
  [kind : {"SetMemberLifecycle"}, id : MemberIds, lifecycle : Lifecycles]
PathUpserts == [kind : {"UpsertPath"}, id : PathIds, row : Path]
PathRemovals == [kind : {"RemovePath"}, id : PathIds]
PathChanges == [kind : {"SetPathState"}, id : PathIds, state : PathStates]
ExclusionUpserts ==
  [kind : {"UpsertExclusion"}, id : ExclusionIds, row : Exclusion]
ExclusionRemovals == [kind : {"RemoveExclusion"}, id : ExclusionIds]
ObligationUpserts ==
  [kind : {"UpsertObligation"}, id : ObligationIds, row : Obligation]
ObligationRemovals == [kind : {"RemoveObligation"}, id : ObligationIds]
ContractUpserts == [kind : {"UpsertContract"}, id : ContractIds, row : Contract]
ContractRemovals == [kind : {"RemoveContract"}, id : ContractIds]
PolicyChanges == [kind : {"SetPolicy"}, policy : Nat]

Command ==
  MemberUpserts \cup MemberRemovals \cup LifecycleChanges \cup PathUpserts
    \cup PathRemovals \cup PathChanges \cup ExclusionUpserts
    \cup ExclusionRemovals \cup ObligationUpserts \cup ObligationRemovals
    \cup ContractUpserts \cup ContractRemovals \cup PolicyChanges

\* Mutant of MovesAuthority: changes of paths revalidate nothing.
MovesMembers(command) ==
  command.kind \in {"UpsertMember", "RemoveMember", "SetMemberLifecycle"}

\* The commands after which the engine revalidates every live grant.
MovesAuthority(command) ==
  command.kind \in {"UpsertMember", "RemoveMember", "SetMemberLifecycle",
                    "UpsertPath", "RemovePath", "SetPathState"}

\* ClusterSpec::upsert_member: neither the generation nor a published digest may
\* move back, and a retired member stays retired.
MemberAdmissible(members, id, row) ==
  id \in Ids(members) =>
    LET existing == members[id]
    IN  /\ row.generation >= existing.generation
        /\ \/ row.generation # existing.generation
           \/ row.digest = existing.digest
           \/ existing.digest = None
        /\ existing.lifecycle = "Removed" => row.lifecycle = "Removed"

\* ClusterSpec::set_member_lifecycle.
LifecycleAdmissible(members, id, lifecycle) ==
  /\ id \in Ids(members)
  /\ members[id].lifecycle = "Removed" => lifecycle = "Removed"

\* ClusterSpec::upsert_path.
PathAdmissible(paths, id, row) ==
  id \in Ids(paths) => row.generation >= paths[id].generation

\* ClusterSpec::upsert_exclusion.
ExclusionAdmissible(row) == row.to # 0 => row.to >= row.from

\* ContractSet::upsert with CommunicationContract::validate.
ContractAdmissible(contracts, id, row) ==
  /\ row.enabled
  /\ row.maxUnits # 0 => row.minUnits <= row.maxUnits
  /\ id \in Ids(contracts) => row.generation >= contracts[id].generation

\* Whether the mutator the command reaches returns success.
Accepts(spec, contracts, command) ==
  CASE command.kind = "UpsertMember" ->
         MemberAdmissible(spec.members, command.id, command.row)
    [] command.kind = "RemoveMember" -> command.id \in Ids(spec.members)
    [] command.kind = "SetMemberLifecycle" ->
         LifecycleAdmissible(spec.members, command.id, command.lifecycle)
    [] command.kind = "UpsertPath" ->
         PathAdmissible(spec.paths, command.id, command.row)
    [] command.kind \in {"RemovePath", "SetPathState"} ->
         command.id \in Ids(spec.paths)
    [] command.kind = "UpsertExclusion" -> ExclusionAdmissible(command.row)
    [] command.kind = "RemoveExclusion" -> command.id \in Ids(spec.exclusions)
    [] command.kind = "RemoveObligation" ->
         command.id \in Ids(spec.obligations)
    [] command.kind = "UpsertContract" ->
         ContractAdmissible(contracts, command.id, command.row)
    [] command.kind = "RemoveContract" -> command.id \in Ids(contracts)
    [] OTHER -> TRUE

\* ClusterSpec::remove_member keeps the record: an identity is never reused.
Retired(member) ==
  [member EXCEPT !.lifecycle = "Removed", !.endpoints = {}, !.services = {},
                 !.resources = EmptyTable(ResourceIds)]

MembersAfter(members, command) ==
  CASE command.kind = "UpsertMember" -> [members EXCEPT ![command.id] = command.row]
    [] command.kind = "RemoveMember" ->
         [members EXCEPT ![command.id] = Retired(@)]
    [] command.kind = "SetMemberLifecycle" ->
         [members EXCEPT ![command.id].lifecycle = command.lifecycle]
    [] OTHER -> members

PathsAfter(paths, command) ==
  CASE command.kind = "UpsertPath" -> [paths EXCEPT ![command.id] = command.row]
    [] command.kind = "RemovePath" -> [paths EXCEPT ![command.id] = None]
    [] command.kind = "SetPathState" ->
         [paths EXCEPT ![command.id].state = command.state]
    [] OTHER -> paths

ExclusionsAfter(exclusions, command) ==
  CASE command.kind = "UpsertExclusion" ->
         [exclusions EXCEPT ![command.id] = command.row]
    [] command.kind = "RemoveExclusion" -> [exclusions EXCEPT ![command.id] = None]
    [] OTHER -> exclusions

ObligationsAfter(obligations, command) ==
  CASE command.kind = "UpsertObligation" ->
         [obligations EXCEPT ![command.id] = command.row]
    [] command.kind = "RemoveObligation" -> [obligations EXCEPT ![command.id] = None]
    [] OTHER -> obligations

\* The commands that leave the generation of the cluster alone.
KeepsGeneration(command) ==
  command.kind \in {"UpsertContract", "RemoveContract", "SetPolicy"}

\* bump_generation follows every accepted change of the spec; the policy is
\* append-only.
SpecAfter(spec, command) ==
  [spec EXCEPT
     !.generation = IF KeepsGeneration(command) THEN @ ELSE @ + 1,
     !.policy = IF command.kind = "SetPolicy" THEN command.policy ELSE @,
     !.members = MembersAfter(@, command),
     !.paths = PathsAfter(@, command),
     !.exclusions = ExclusionsAfter(@, command),
     !.obligations = ObligationsAfter(@, command)]

ContractsAfter(contracts, command) ==
  CASE command.kind = "UpsertContract" ->
         [contracts EXCEPT ![command.id] = command.row]
    [] command.kind = "RemoveContract" -> [contracts EXCEPT ![command.id] = None]
    [] OTHER -> contracts

\* ClusterSpec::begin_epoch: a new epoch moves the generation with it.
EpochBegun(spec) ==
  [spec EXCEPT !.epoch = @ + 1, !.generation = @ + 1]
===============================================================================
