---- MODULE PlanRegistry ----
(***************************************************************************)
(* The registry of approved trading plans                                  *)
(* (src/src/daytrader/repository.py): one approval code per market and     *)
(* date, plans that replace one another by version, and the statuses the   *)
(* engine and the scheduler give them.  Every operation runs under the     *)
(* repository's lock in one SQLite transaction, so each is one action; a   *)
(* refused registration rolls back and changes nothing.                    *)
(***************************************************************************)
EXTENDS Integers, Sequences

CONSTANTS
    PlanIds,    \* plan identifiers, shared by all markets and dates
    Days,       \* pairs of a market and a trading date
    Codes,      \* the values an approval code may take
    MaxVersion, \* bound: highest plan version
    MaxIssues,  \* bound: how many codes are ever issued
    Ttl,        \* clock units a code is valid
    Deadline,   \* bound: the clock stops here
    NoCode,     \* no code was issued for the day
    NoPlan      \* the plan identifier is not in the table

Statuses == {"ARMED", "RUNNING", "COMPLETED", "EXPIRED", "CANCELLED"}

\* serial is history: the place of the code among all codes issued.  A plan keeps
\* the serial of the row that approved it and the code it was presented with.
Code == [code: Codes, expires: Nat, used: BOOLEAN, serial: Nat]
Plan == [day: Days, version: Nat \ {0}, status: Statuses, created: Nat,
         serial: Nat, code: Codes]
Issue == [day: Days, code: Codes]

ASSUME RegistryAssumption ==
    /\ MaxVersion \in Nat /\ MaxIssues \in Nat /\ Ttl \in Nat /\ Deadline \in Nat
    /\ NoCode \notin Code /\ NoPlan \notin Plan

VARIABLES
    nonces, \* per day: the code last issued
    plans,  \* per identifier: the stored plan
    rows,   \* how many plans were stored, which orders them by creation
    issues, \* history: every code issued, with the day it was issued for
    clock

registryVars == <<nonces, plans, rows, issues, clock>>

Stored    == {p \in PlanIds : plans[p] # NoPlan}
Active    == {p \in Stored : plans[p].status \in {"ARMED", "RUNNING"}}
StoredOn(d) == {p \in Stored : plans[p].day = d}

\* The day's plan that was stored last.
IsLatest(p, d) == /\ p \in StoredOn(d)
                  /\ \A q \in StoredOn(d) : plans[q].created <= plans[p].created

----
\* Mutant of Expiry: the validity is subtracted.
ExpiryBefore(time) == time - Ttl

Expiry(time) == time + Ttl

\* issue_nonce: a new code replaces the day's code, used or not.
IssueNonce(d, c) ==
    /\ Len(issues) < MaxIssues
    /\ nonces' = [nonces EXCEPT ![d] = [code |-> c, expires |-> Expiry(clock),
                                        used |-> FALSE, serial |-> Len(issues) + 1]]
    /\ issues' = Append(issues, [day |-> d, code |-> c])
    /\ UNCHANGED <<plans, rows, clock>>

\* Mutant of CodeRow: the row is looked up without its day.
CodeRowOfAnyDay(d) == IF nonces[d] = NoCode THEN NoCode
                      ELSE nonces[CHOOSE e \in Days : nonces[e] # NoCode]

\* The row of the codes' table that belongs to the day.
CodeRow(d) == nonces[d]

\* The code is the day's, unused and not expired.
CodeAccepted(d, c) ==
    /\ CodeRow(d) # NoCode
    /\ CodeRow(d).code = c
    /\ ~CodeRow(d).used
    /\ clock <= CodeRow(d).expires

\* Mutant of Replaceable: only the version is compared.
ReplaceableByVersion(d, v) ==
    \A q \in StoredOn(d) : IsLatest(q, d) => v > plans[q].version

\* Mutant of Replaceable: the version is not compared.
ReplaceableByStatus(d, v) ==
    \A q \in StoredOn(d) : IsLatest(q, d) => plans[q].status # "RUNNING"

\* A plan of version v may follow the day's latest plan.
Replaceable(d, v) ==
    \A q \in StoredOn(d) : IsLatest(q, d) =>
        /\ v > plans[q].version
        /\ plans[q].status # "RUNNING"

\* approve_plan: the code is consumed, an armed plan is cancelled and the new plan
\* armed, all or nothing.  A known identifier breaks the primary key.  created stands
\* for the wall clock's created_at: it assumes that the clock is neither set back
\* between two approvals of a day nor read twice at the same instant.
ApprovePlan(p, d, v, c) ==
    /\ CodeAccepted(d, c)
    /\ Replaceable(d, v)
    /\ p \notin Stored
    /\ plans' = [q \in PlanIds |->
            CASE q = p -> [day |-> d, version |-> v, status |-> "ARMED",
                           created |-> rows, serial |-> CodeRow(d).serial, code |-> c]
              [] q # p /\ q \in Stored /\ IsLatest(q, d) /\ plans[q].status = "ARMED"
                   -> [plans[q] EXCEPT !.status = "CANCELLED"]
              [] OTHER -> plans[q]]
    /\ nonces' = [nonces EXCEPT ![d].used = TRUE]
    /\ rows' = rows + 1
    /\ UNCHANGED <<issues, clock>>

\* set_plan_status: the engine and the scheduler only look at active plans, and
\* nothing runs between their look and their call.
SetPlanStatus(p, status) ==
    /\ p \in Active
    /\ plans' = [plans EXCEPT ![p].status = status]
    /\ UNCHANGED <<nonces, rows, issues, clock>>

Pass == /\ clock < Deadline
        /\ clock' = clock + 1
        /\ UNCHANGED <<nonces, plans, rows, issues>>

RegistryInit == /\ nonces = [d \in Days |-> NoCode]
                /\ plans = [p \in PlanIds |-> NoPlan]
                /\ rows = 0
                /\ issues = <<>>
                /\ clock = 0

RegistryNext ==
    \/ \E d \in Days, c \in Codes : IssueNonce(d, c)
    \/ \E p \in PlanIds, d \in Days, v \in 1..MaxVersion, c \in Codes :
            ApprovePlan(p, d, v, c)
    \/ \E p \in PlanIds, status \in Statuses \ {"ARMED"} : SetPlanStatus(p, status)
    \/ Pass

RegistrySpec == RegistryInit /\ [][RegistryNext]_registryVars

----
\* Properties.

\* The tables keep their columns' types; every code expires at a time of the clock.
RegistryTypeOK ==
    /\ nonces \in [Days -> Code \cup {NoCode}]
    /\ plans \in [PlanIds -> Plan \cup {NoPlan}]
    /\ rows \in Nat /\ issues \in Seq(Issue) /\ clock \in Nat

\* One plan per market and date: only the day's latest plan can be active, so that
\* the engine never trades two plans of a day (approve_plan, active_plans).
ActiveIsLatest == \A p \in Active : IsLatest(p, plans[p].day)

\* A revised plan has a higher version than every earlier plan of its day, not only
\* than the one it replaced (approve_plan).
VersionsIncrease ==
    \A p, q \in Stored :
        plans[p].day = plans[q].day /\ plans[p].created < plans[q].created
            => plans[p].version < plans[q].version

\* An issued code approves one plan at most, and the plan is of the day the code was
\* issued for and was presented with that very code, although a code is issued
\* again with the same value, for the same day or for another
\* (issue_nonce, approve_plan).
OneApprovalPerCode ==
    \A p \in Stored :
        /\ plans[p].serial \in DOMAIN issues
        /\ issues[plans[p].serial] = [day |-> plans[p].day, code |-> plans[p].code]
        /\ \A q \in Stored : plans[p].serial = plans[q].serial => p = q
====
