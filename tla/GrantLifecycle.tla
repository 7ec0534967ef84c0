---------------------------- MODULE GrantLifecycle ----------------------------
(***************************************************************************)
(* The vocabulary of grants and decisions: the states of an AuthorityGrant,*)
(* the predicates the engine branches on, and the outcomes a decision can  *)
(* carry (include/cif/grant.hpp, src/grant.cpp, include/cif/status.hpp).   *)
(***************************************************************************)
EXTENDS Naturals

\* GrantState.  "Absent" stands for a grant id that is not in the table, and
\* GrantState::Superseded is left out: no line of the engine assigns it.
GrantStates ==
  {"Absent", "Prepared", "Committed", "Acknowledged", "Ambiguous",
   "Released", "Expired", "Fenced", "Revoked"}

\* CommitState; CommitState::None is only the default before the prepare.
CommitStates == {"None", "Prepared", "Committed", "Acknowledged", "Ambiguous"}

\* AuthorityOutcome: what a decision tells its caller.
Outcomes ==
  {"Granted", "Degraded", "Refused", "Fenced", "Stale", "Conflicting",
   "Incomplete", "Indeterminate", "Unknown", "Unsupported", "Cancelled",
   "Invalid"}

\* The outcomes that confer authority.
Authorising == {"Granted", "Degraded"}

IsLive(state) == state \in {"Prepared", "Committed", "Acknowledged"}

IsQuarantined(state) == state = "Ambiguous"

\* Mutant of HoldsCapacity: quarantined capacity counts as free.
HoldsUsableCapacity(state) == state \in {"Committed", "Acknowledged"}

\* A prepare is an intention, not a reservation: only a durable commit, or the
\* quarantine of one, counts against capacity.
HoldsCapacity(state) ==
  state \in {"Committed", "Acknowledged"} \/ IsQuarantined(state)

IsTerminal(state) == state \in {"Released", "Expired", "Fenced", "Revoked"}

\* Expiry 0 means the lease never runs out.
ExpiredAt(grant, now) == grant.expiry # 0 /\ now >= grant.expiry

\* AuthorityGrant::outcome; the engine always sets it together with degraded.
GrantOutcome(grant) == IF grant.degraded THEN "Degraded" ELSE "Granted"

\* Mutant of GrantAnswer: reports the state of a live grant, not its outcome.
GrantAnswerByState(grant) ==
  CASE IsQuarantined(grant.state)               -> "Indeterminate"
    [] grant.state \in {"Released", "Expired"}  -> "Refused"
    [] grant.state \in {"Fenced", "Revoked"}    -> "Fenced"
    [] OTHER                                    -> grant.state

\* How resolve and an exactly-once replay describe an attempt through the
\* present state of the grant it produced.
GrantAnswer(grant) ==
  CASE IsQuarantined(grant.state)               -> "Indeterminate"
    [] grant.state \in {"Released", "Expired"}  -> "Refused"
    [] grant.state \in {"Fenced", "Revoked"}    -> "Fenced"
    [] OTHER                                    -> GrantOutcome(grant)
===============================================================================
