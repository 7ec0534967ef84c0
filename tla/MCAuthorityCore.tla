---------------------------- MODULE MCAuthorityCore ----------------------------
(***************************************************************************)
(* Small instances of AuthorityCore: two members joined by paths, a        *)
(* reservable pool at the source, one contract, and the requests and       *)
(* commands each configuration names.                                      *)
(***************************************************************************)
EXTENDS AuthorityCore

MCMember ==
  [generation |-> 1, digest |-> "d1", lifecycle |-> "Active", endpoints |-> {"e"},
   services |-> {"app", "db"}, resources |-> EmptyTable(ResourceIds), locality |-> <<"z1", "r1">>]

MCSource ==
  [MCMember EXCEPT !.resources = [EmptyTable(ResourceIds) EXCEPT !["pool"] =
                     [total |-> 2, reservable |-> TRUE, generation |-> 1]]]

MCTarget == [MCMember EXCEPT !.digest = "d2", !.locality = <<"z2", "r1">>]

MCPath ==
  [generation |-> 1, source |-> "a", target |-> "b", sourceEnd |-> "e",
   targetEnd |-> None, state |-> "Operational", capacity |-> 2,
   exclusive |-> FALSE, resources |-> {"pool"}]

MCContract ==
  [generation |-> 1, enabled |-> TRUE, supported |-> TRUE, source |-> "app",
   target |-> "db", minUnits |-> 1, maxUnits |-> 0, level |-> 1, minDomains |-> 2,
   draining |-> FALSE, faulted |-> FALSE, partitioned |-> FALSE,
   maintenance |-> "Degrade", degradable |-> TRUE]

\* The log of a controller that was set up with the cluster, ticked twice, and
\* stopped before its first request.
MCClusterImage ==
  [EmptyImage EXCEPT
     !.spec = [UnboundSpec EXCEPT
                 !.bound = TRUE, !.generation = 4, !.epoch = 1, !.policy = 1,
                 !.members = [@ EXCEPT !["a"] = MCSource, !["b"] = MCTarget],
                 !.paths = [@ EXCEPT ![1] = MCPath]],
     !.contracts = [@ EXCEPT !["c"] = MCContract],
     !.tick = 1]

MCClusterImages == {MCClusterImage}

\* The path is shared in one of the two clusters and exclusive in the other.
MCContendedImages ==
  {MCClusterImage,
   [MCClusterImage EXCEPT !.spec.paths[1].exclusive = TRUE, !.spec.paths[1].capacity = 3]}

MCRequest ==
  [attempt |-> "x", contract |-> "c", contractGen |-> 1, source |-> "a",
   target |-> "b", sourceGen |-> 1, targetGen |-> 1, sourceDigest |-> "d1",
   targetDigest |-> "d2", sourceEnd |-> None, targetEnd |-> None, path |-> 0,
   pathGen |-> 0, resource |-> "pool", resourceGen |-> 1, units |-> 1, lease |-> 1,
   degradable |-> TRUE, renews |-> 0, renewedLease |-> 0]

\* Two attempts that cannot both have what they ask for.
MCContention ==
  {MCRequest, [MCRequest EXCEPT !.attempt = "y", !.units = 2, !.lease = 0]}

\* One attempt and the renewals of the grant it gets.
MCRenewals ==
  {[MCRequest EXCEPT !.lease = 2],
   [MCRequest EXCEPT !.renews = 1, !.renewedLease = 1, !.units = 2],
   [MCRequest EXCEPT !.renews = 1, !.renewedLease = 2]}

\* The request alone.
MCSingle == {MCRequest}

MCOptions ==
  [digests |-> TRUE, binding |-> TRUE, capacity |-> TRUE, capabilities |-> TRUE,
   defaultLease |-> 2, maxLease |-> 3, fenceAll |-> FALSE, attaches |-> TRUE]

MCDaemonOptions == [MCOptions EXCEPT !.attaches = FALSE]

MCNoCommands == {}

\* What an operator does to members and paths that carry a grant.
MCMoves ==
  {[kind |-> "SetMemberLifecycle", id |-> "b", lifecycle |-> l] :
     l \in {"Maintenance", "Draining", "Active"}}
    \cup {[kind |-> "UpsertMember", id |-> "b",
           row |-> [MCTarget EXCEPT !.generation = 2, !.digest = "d1"]],
          [kind |-> "RemoveMember", id |-> "b"],
          [kind |-> "UpsertPath", id |-> 1, row |-> [MCPath EXCEPT !.capacity = 3]],
          [kind |-> "SetPathState", id |-> 1, state |-> "Down"],
          [kind |-> "RemovePath", id |-> 1]}

\* A cluster declared from nothing, one command at a time.
MCExclusion ==
  [enabled |-> TRUE, from |-> 0, to |-> 0, members |-> {"a"}, paths |-> {},
   prefix |-> <<"z1">>, mode |-> "Refuse"]

MCObligation ==
  [enabled |-> TRUE, service |-> "db", level |-> 1, units |-> 1, domains |-> 2]

MCDeclarations ==
  {[kind |-> "UpsertMember", id |-> "a", row |-> MCSource],
   [kind |-> "SetMemberLifecycle", id |-> "a", lifecycle |-> "Draining"],
   [kind |-> "RemoveMember", id |-> "a"],
   [kind |-> "UpsertPath", id |-> 1, row |-> MCPath],
   [kind |-> "SetPathState", id |-> 1, state |-> "Down"],
   [kind |-> "RemovePath", id |-> 1],
   [kind |-> "UpsertExclusion", id |-> 1, row |-> MCExclusion],
   [kind |-> "UpsertExclusion", id |-> 1, row |-> [MCExclusion EXCEPT !.to = 3, !.mode = "Degrade"]],
   [kind |-> "RemoveExclusion", id |-> 1],
   [kind |-> "UpsertObligation", id |-> "o", row |-> MCObligation],
   [kind |-> "RemoveObligation", id |-> "o"],
   [kind |-> "UpsertContract", id |-> "c", row |-> MCContract],
   [kind |-> "RemoveContract", id |-> "c"],
   [kind |-> "SetPolicy", policy |-> 2]}

MCBootstrapImages == {EmptyImage, MCClusterImage}
===============================================================================
