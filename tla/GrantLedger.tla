------------------------------ MODULE GrantLedger ------------------------------
(***************************************************************************)
(* What the authority promises of its grants, and all a caller needs to    *)
(* know of it: a ledger that outlives every crash.  A grant is offered to  *)
(* one attempt, which gets no other; an offer may be withdrawn, a held     *)
(* grant may fall into quarantine, and only its caller lifts it out; what  *)
(* has ended stays ended.  AuthorityCore, seen through its log, is shown   *)
(* to implement it.                                                        *)
(***************************************************************************)
CONSTANTS
  GrantIds,  \* ids of grants
  Attempts,  \* ids of attempts
  None       \* no attempt, and none of Attempts

VARIABLES
  status,  \* of each grant
  owner    \* the attempt each grant belongs to

ledger == <<status, owner>>

Statuses == {"free", "offered", "held", "quarantined", "ended"}

LedgerOK ==
  /\ status \in [GrantIds -> Statuses]
  /\ owner \in [GrantIds -> Attempts \cup {None}]

In(s) == {g \in GrantIds : status[g] = s}

\* The grants in ids come to the status to, their owners stay.
Move(ids, to) ==
  /\ ids # {}
  /\ status' = [g \in GrantIds |-> IF g \in ids THEN to ELSE status[g]]
  /\ UNCHANGED owner

LedgerInit ==
  /\ status = [g \in GrantIds |-> "free"]
  /\ owner = [g \in GrantIds |-> None]

\* An attempt is offered a grant, or given it at once; one grant per attempt.
Enter(g, a) ==
  /\ status[g] = "free"
  /\ \A h \in GrantIds : owner[h] # a
  /\ \E s \in {"offered", "held"} : status' = [status EXCEPT ![g] = s]
  /\ owner' = [owner EXCEPT ![g] = a]

\* Leaving quarantine for good is the business of one caller at a time.
Lift(g) == status[g] = "quarantined" /\ Move({g}, "held")

End(ids) == Move(ids, "ended")

\* A restart, and the first compaction after it, settle what callers cannot be shown
\* to know of: offers end or are forgotten, their ids to be used again; held grants
\* are quarantined or end.
Settle(forgotten, quarantined, ended) ==
  /\ forgotten \cup quarantined \cup ended # {}
  /\ status' = [g \in GrantIds |->
                  IF g \in forgotten THEN "free"
                  ELSE IF g \in quarantined THEN "quarantined"
                  ELSE IF g \in ended THEN "ended" ELSE status[g]]
  /\ owner' = [g \in GrantIds |-> IF g \in forgotten THEN None ELSE owner[g]]

LedgerNext ==
  \/ \E g \in GrantIds, a \in Attempts : Enter(g, a)
  \/ \E g \in GrantIds : Lift(g)
  \/ \E ids \in SUBSET (In("held") \cup In("quarantined")) : End(ids)
  \/ \E forgotten \in SUBSET In("offered"), quarantined \in SUBSET In("held"),
        ended \in SUBSET (In("offered") \cup In("held")) :
       Settle(forgotten, quarantined, ended)

LedgerSpec == LedgerInit /\ [][LedgerNext]_ledger
===============================================================================
