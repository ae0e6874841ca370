---- MODULE PlanRegistryProofs ----
(***************************************************************************)
(* Proofs about the plan registry: its properties, and what they need to   *)
(* be inductive, namely that rows are numbered, that every code of the     *)
(* table is found in the history of issues under its day and value, and    *)
(* that an unused code has approved nothing yet.                           *)
(***************************************************************************)
EXTENDS PlanRegistry, TLAPS

\* The row count numbers the stored plans.
RowsNumbered ==
    /\ \A p \in Stored : plans[p].created < rows
    /\ \A p, q \in Stored : plans[p].created = plans[q].created => p = q

\* Every code of the table is the issue it is numbered by, of its day.
CodesIssued ==
    \A d \in Days : nonces[d] # NoCode =>
        /\ nonces[d].serial \in DOMAIN issues
        /\ issues[nonces[d].serial] = [day |-> d, code |-> nonces[d].code]

\* What approved a plan is spent.
UnusedApprovedNothing ==
    \A d \in Days : nonces[d] # NoCode /\ ~nonces[d].used
        => \A p \in Stored : plans[p].serial # nonces[d].serial

\* A day with plans has a latest one.
LatestExists ==
    \A d \in Days : StoredOn(d) # {} => \E l \in StoredOn(d) : IsLatest(l, d)

RegistryInv ==
    /\ RegistryTypeOK /\ LatestExists
    /\ RowsNumbered /\ CodesIssued /\ UnusedApprovedNothing
    /\ ActiveIsLatest /\ VersionsIncrease /\ OneApprovalPerCode

LEMMA RegistryInitSound == RegistryInit => RegistryInv
BY RegistryAssumption
   DEF RegistryInit, RegistryInv, RegistryTypeOK, RowsNumbered, CodesIssued,
       UnusedApprovedNothing, ActiveIsLatest, VersionsIncrease, OneApprovalPerCode,
       LatestExists, StoredOn, Stored, Active

\* Issuing a code touches the codes only, and the new one is numbered afresh.
LEMMA IssueSound ==
    ASSUME RegistryInv, NEW d \in Days, NEW c \in Codes, IssueNonce(d, c)
    PROVE  RegistryInv'
<1> DEFINE new == [code |-> c, expires |-> Expiry(clock), used |-> FALSE, serial |-> Len(issues) + 1]
           entry == [day |-> d, code |-> c]
<1>1. /\ nonces \in [Days -> Code \cup {NoCode}]
      /\ plans \in [PlanIds -> Plan \cup {NoPlan}]
      /\ rows \in Nat /\ issues \in Seq(Issue) /\ clock \in Nat
  BY DEF RegistryInv, RegistryTypeOK
<1>2. Expiry(clock) \in Nat BY <1>1, RegistryAssumption DEF Expiry
<1>3. new \in Code /\ entry \in Issue BY <1>1, <1>2 DEF Code, Issue
<1>4. /\ nonces' = [nonces EXCEPT ![d] = new] /\ issues' = Append(issues, entry)
      /\ plans' = plans /\ rows' = rows /\ clock' = clock
  BY DEF IssueNonce
<1>5. Stored' = Stored /\ Active' = Active BY <1>4 DEF Stored, Active
<1>6. new # NoCode /\ new.serial = Len(issues) + 1 /\ new.used = FALSE
      /\ new.code = c
  BY <1>3, RegistryAssumption
<1>7. nonces'[d] = new /\ \A e \in Days : e # d => nonces'[e] = nonces[e]
  BY <1>1, <1>4
<1>8. /\ DOMAIN issues = 1..Len(issues) /\ Len(issues) \in Nat
      /\ DOMAIN issues' = 1..(Len(issues) + 1)
      /\ issues'[Len(issues) + 1] = entry
      /\ \A n \in DOMAIN issues : n \in DOMAIN issues' /\ issues'[n] = issues[n]
  BY <1>1, <1>3, <1>4
<1> HIDE DEF new
<1>9. RegistryTypeOK' BY <1>1, <1>3, <1>4 DEF RegistryTypeOK
<1>10. CodesIssued'
  <2> SUFFICES ASSUME NEW e \in Days, nonces'[e] # NoCode
               PROVE  /\ nonces'[e].serial \in DOMAIN issues'
                      /\ issues'[nonces'[e].serial] = [day |-> e, code |-> nonces'[e].code]
    BY DEF CodesIssued
  <2>1. CASE e = d BY <1>6, <1>7, <1>8, <2>1
  <2>2. CASE e # d BY <1>7, <1>8, <2>2 DEF RegistryInv, CodesIssued
  <2> QED BY <2>1, <2>2
<1>11. UnusedApprovedNothing'
  <2>1. \A p \in Stored : plans[p].serial # new.serial
    <3>1. \A p \in Stored : plans[p].serial \in 1..Len(issues)
      BY <1>8 DEF RegistryInv, OneApprovalPerCode
    <3> QED BY <1>6, <1>8, <3>1
  <2> QED BY <1>4, <1>5, <1>7, <2>1 DEF RegistryInv, UnusedApprovedNothing
<1>12. OneApprovalPerCode'
  BY <1>4, <1>5, <1>8 DEF RegistryInv, OneApprovalPerCode
<1>13. RowsNumbered' /\ ActiveIsLatest' /\ VersionsIncrease' /\ LatestExists'
  BY <1>4, <1>5
     DEF RegistryInv, LatestExists, RowsNumbered, ActiveIsLatest, VersionsIncrease,
         IsLatest, StoredOn
<1> QED BY <1>9, <1>10, <1>11, <1>12, <1>13 DEF RegistryInv

\* An approval stores one plan, with the highest version of its day, under the code
\* it spends, and leaves no other plan of the day active.
LEMMA ApproveSound ==
    ASSUME RegistryInv, NEW p \in PlanIds, NEW d \in Days, NEW v \in 1..MaxVersion,
           NEW c \in Codes, ApprovePlan(p, d, v, c)
    PROVE  RegistryInv'
<1> DEFINE new == [day |-> d, version |-> v, status |-> "ARMED", created |-> rows,
                   serial |-> nonces[d].serial, code |-> c]
           spent == [nonces[d] EXCEPT !.used = TRUE]
<1>1. /\ nonces \in [Days -> Code \cup {NoCode}]
      /\ plans \in [PlanIds -> Plan \cup {NoPlan}]
      /\ rows \in Nat /\ issues \in Seq(Issue) /\ clock \in Nat
  BY DEF RegistryInv, RegistryTypeOK
<1>2. nonces[d] \in Code /\ ~nonces[d].used /\ nonces[d] # NoCode /\ nonces[d].code = c
  BY <1>1 DEF ApprovePlan, CodeAccepted, CodeRow
<1>3. /\ new \in Plan /\ new # NoPlan /\ spent \in Code /\ spent # NoCode
      /\ spent.serial = nonces[d].serial /\ spent.used = TRUE
      /\ spent.code = nonces[d].code /\ nonces[d].serial \in Nat
  <2>1. nonces[d].serial \in Nat BY <1>2 DEF Code
  <2>2. v \in Nat \ {0} BY RegistryAssumption
  <2>3. new \in Plan BY <1>1, <2>1, <2>2 DEF Plan, Statuses
  <2>4. /\ spent \in Code /\ spent.serial = nonces[d].serial /\ spent.used = TRUE
        /\ spent.code = nonces[d].code
    BY <1>2 DEF Code
  <2> QED BY <2>1, <2>3, <2>4, RegistryAssumption
<1>4. /\ nonces' = [nonces EXCEPT ![d] = spent] /\ rows' = rows + 1
      /\ issues' = issues /\ clock' = clock /\ p \notin Stored
  BY <1>1 DEF ApprovePlan
<1>5. /\ DOMAIN plans' = PlanIds /\ plans'[p] = new
      /\ \A q \in PlanIds : q # p =>
            \/ plans'[q] = plans[q]
            \/ /\ q \in Stored /\ plans'[q] = [plans[q] EXCEPT !.status = "CANCELLED"]
  BY DEF ApprovePlan, CodeRow
<1>6. \A q \in Stored : plans[q] \in Plan BY <1>1 DEF Stored
<1>7. \A q \in PlanIds : q # p =>
        /\ q \in Stored' <=> q \in Stored
        /\ q \in Stored => /\ plans'[q] \in Plan
                           /\ plans'[q].day = plans[q].day
                           /\ plans'[q].version = plans[q].version
                           /\ plans'[q].created = plans[q].created
                           /\ plans'[q].serial = plans[q].serial
                           /\ plans'[q].code = plans[q].code
                           /\ plans'[q].status \in {plans[q].status, "CANCELLED"}
        /\ q \notin Stored => plans'[q] = NoPlan
  <2> SUFFICES ASSUME NEW q \in PlanIds, q # p
               PROVE  /\ q \in Stored' <=> q \in Stored
                      /\ q \in Stored => /\ plans'[q] \in Plan
                                         /\ plans'[q].day = plans[q].day
                                         /\ plans'[q].version = plans[q].version
                                         /\ plans'[q].created = plans[q].created
                                         /\ plans'[q].serial = plans[q].serial
                                         /\ plans'[q].code = plans[q].code
                                         /\ plans'[q].status \in {plans[q].status, "CANCELLED"}
                      /\ q \notin Stored => plans'[q] = NoPlan
    OBVIOUS
  <2>1. CASE plans'[q] = plans[q] BY <1>6, <2>1 DEF Stored
  <2>2. CASE q \in Stored /\ plans'[q] = [plans[q] EXCEPT !.status = "CANCELLED"]
    <3>1. plans[q] \in Plan BY <1>6, <2>2
    <3>2. /\ plans'[q] \in Plan /\ plans'[q].day = plans[q].day
          /\ plans'[q].version = plans[q].version
          /\ plans'[q].created = plans[q].created
          /\ plans'[q].serial = plans[q].serial
          /\ plans'[q].code = plans[q].code
          /\ plans'[q].status = "CANCELLED"
      BY <2>2, <3>1 DEF Plan, Statuses
    <3>3. plans'[q] # NoPlan BY <3>2, RegistryAssumption
    <3> QED BY <2>2, <3>2, <3>3 DEF Stored
  <2> QED BY <1>5, <2>1, <2>2
<1>8. p \in Stored' /\ Stored' = Stored \cup {p}
  <2>1. p \in Stored' BY <1>3, <1>5 DEF Stored
  <2> QED BY <1>7, <2>1 DEF Stored
<1>9. /\ new.day = d /\ new.version = v /\ new.created = rows
      /\ new.serial = nonces[d].serial /\ new.status = "ARMED" /\ new.code = c
  OBVIOUS
<1>10. /\ nonces'[d] = spent /\ \A e \in Days : e # d => nonces'[e] = nonces[e]
  BY <1>1, <1>4
<1> HIDE DEF new, spent
<1>11. RegistryTypeOK'
  <2>1. plans' \in [PlanIds -> Plan \cup {NoPlan}]
    <3>1. \A q \in PlanIds : plans'[q] \in Plan \cup {NoPlan} BY <1>3, <1>5, <1>7
    <3>2. plans' = [q \in PlanIds |-> plans'[q]] BY DEF ApprovePlan
    <3> QED BY <3>1, <3>2
  <2> QED BY <1>1, <1>3, <1>4, <2>1 DEF RegistryTypeOK
<1>12. \A q \in Stored : plans[q].created \in Nat /\ plans[q].created < rows
  BY <1>6 DEF RegistryInv, RowsNumbered, Plan
<1>13. RowsNumbered'
  BY <1>1, <1>4, <1>5, <1>7, <1>8, <1>9, <1>12 DEF RegistryInv, RowsNumbered, Stored
<1>14. \A q \in Stored : plans[q].serial # nonces[d].serial
  BY <1>2 DEF RegistryInv, UnusedApprovedNothing
<1>15. CodesIssued'
  <2>1. \A e \in Days : nonces'[e] # NoCode =>
            /\ nonces[e] # NoCode /\ nonces'[e].serial = nonces[e].serial
            /\ nonces'[e].code = nonces[e].code
    BY <1>2, <1>3, <1>10
  <2> QED BY <1>4, <2>1 DEF RegistryInv, CodesIssued
<1>16. UnusedApprovedNothing'
  <2>1. \A e \in Days : nonces'[e] # NoCode /\ ~nonces'[e].used =>
            e # d /\ nonces'[e] = nonces[e]
    BY <1>3, <1>10
  <2>2. \A e \in Days : e # d /\ nonces[e] # NoCode => nonces[e].serial # nonces[d].serial
    <3> SUFFICES ASSUME NEW e \in Days, e # d, nonces[e] # NoCode,
                        nonces[e].serial = nonces[d].serial
                 PROVE  FALSE
      OBVIOUS
    <3>1. [day |-> e, code |-> nonces[e].code].day = [day |-> d, code |-> nonces[d].code].day
      BY <1>2 DEF RegistryInv, CodesIssued
    <3> QED BY <3>1
  <2> QED BY <1>5, <1>7, <1>8, <1>9, <2>1, <2>2
      DEF RegistryInv, UnusedApprovedNothing, Stored
<1>17. OneApprovalPerCode'
  <2>1. /\ nonces[d].serial \in DOMAIN issues
        /\ issues[nonces[d].serial] = [day |-> d, code |-> c]
    BY <1>2 DEF RegistryInv, CodesIssued
  <2>2. \A q \in Stored' : /\ plans'[q].serial \in DOMAIN issues
                           /\ issues[plans'[q].serial] = [day |-> plans'[q].day,
                                                          code |-> plans'[q].code]
    BY <1>5, <1>7, <1>8, <1>9, <2>1 DEF RegistryInv, OneApprovalPerCode, Stored
  <2>3. \A q, r \in Stored' : plans'[q].serial = plans'[r].serial => q = r
    <3>1. \A q, r \in Stored : plans[q].serial = plans[r].serial => q = r
      BY DEF RegistryInv, OneApprovalPerCode
    <3>2. \A q \in Stored : q # p /\ plans'[q].serial = plans[q].serial
      BY <1>4, <1>7 DEF Stored
    <3>3. plans'[p].serial = nonces[d].serial
      BY <1>5, <1>9
    <3> QED BY <1>8, <1>14, <3>1, <3>2, <3>3
  <2> QED BY <1>4, <2>2, <2>3 DEF OneApprovalPerCode
<1>18. /\ StoredOn(d)' = StoredOn(d) \cup {p}
       /\ \A e \in Days : e # d => StoredOn(e)' = StoredOn(e)
  BY <1>4, <1>5, <1>7, <1>8, <1>9 DEF StoredOn, Stored
<1>19. IsLatest(p, d)'
  BY <1>5, <1>7, <1>8, <1>9, <1>12, <1>18, <1>1 DEF IsLatest, StoredOn, Stored
<1>20. \A e \in Days : \A q \in StoredOn(e) : e # d => (IsLatest(q, e)' <=> IsLatest(q, e))
  <2> SUFFICES ASSUME NEW e \in Days, e # d, NEW q \in StoredOn(e)
               PROVE  IsLatest(q, e)' <=> IsLatest(q, e)
    OBVIOUS
  <2>1. \A r \in StoredOn(e) : r # p /\ r \in Stored /\ plans'[r].created = plans[r].created
    BY <1>4, <1>7, <1>18 DEF StoredOn, Stored
  <2> QED BY <1>18, <2>1 DEF IsLatest
<1>21. LatestExists'
  BY <1>18, <1>19, <1>20 DEF RegistryInv, LatestExists
<1>22. ActiveIsLatest'
  <2> SUFFICES ASSUME NEW q \in Active' PROVE IsLatest(q, plans[q].day)'
    BY DEF ActiveIsLatest
  <2>1. CASE q = p BY <1>5, <1>9, <1>19, <2>1
  <2>2. CASE q # p
    <3>1. /\ q \in Stored /\ plans'[q].status = plans[q].status /\ q \in Active
          /\ plans'[q].day = plans[q].day
      BY <1>7, <2>2 DEF Active, Stored
    <3>2. IsLatest(q, plans[q].day) BY <3>1 DEF RegistryInv, ActiveIsLatest
    <3>3. plans[q].day \in Days /\ q \in StoredOn(plans[q].day)
      BY <1>6, <3>1 DEF Plan, StoredOn
    <3>4. CASE plans[q].day = d
      <4>1. plans[q].status = "ARMED"
        BY <3>1, <3>2, <3>3, <3>4 DEF ApprovePlan, Replaceable, Active
      <4>2. plans'[q] = [plans[q] EXCEPT !.status = "CANCELLED"]
        BY <2>2, <3>1, <3>2, <3>4, <4>1 DEF ApprovePlan, Stored
      <4>3. plans'[q].status = "CANCELLED" BY <1>6, <3>1, <4>2 DEF Plan
      <4> QED BY <3>1, <4>1, <4>3
    <3>5. CASE plans[q].day # d
      BY <1>20, <3>1, <3>2, <3>3, <3>5
    <3> QED BY <3>4, <3>5
  <2> QED BY <2>1, <2>2
<1>23. \A q \in StoredOn(d) : plans[q].version < v
  <2> SUFFICES ASSUME NEW q \in StoredOn(d) PROVE plans[q].version < v OBVIOUS
  <2>1. PICK l \in StoredOn(d) : IsLatest(l, d) BY DEF RegistryInv, LatestExists
  <2>2. v > plans[l].version BY <2>1 DEF ApprovePlan, Replaceable
  <2>3. plans[l] \in Plan /\ plans[q] \in Plan /\ l \in Stored /\ q \in Stored
        /\ plans[q].day = d /\ plans[l].day = d
    BY <1>6, <2>1 DEF StoredOn
  <2>4. plans[q].created <= plans[l].created BY <2>1 DEF IsLatest
  <2>5. plans[q].version <= plans[l].version
    <3>1. CASE q = l BY <2>3, <3>1 DEF Plan
    <3>2. CASE q # l
      <4>1. plans[q].created < plans[l].created
        BY <2>3, <2>4, <3>2 DEF RegistryInv, RowsNumbered, Plan
      <4>2. plans[q].version < plans[l].version
        BY <2>3, <4>1 DEF RegistryInv, VersionsIncrease
      <4> QED BY <2>3, <4>2 DEF Plan
    <3> QED BY <3>1, <3>2
  <2> QED BY <2>2, <2>3, <2>5, RegistryAssumption DEF Plan
<1>24. VersionsIncrease'
  <2> SUFFICES ASSUME NEW q \in Stored', NEW r \in Stored',
                      plans'[q].day = plans'[r].day, plans'[q].created < plans'[r].created
               PROVE  plans'[q].version < plans'[r].version
    BY DEF VersionsIncrease
  <2>1. CASE q # p /\ r # p
    BY <1>7, <2>1 DEF RegistryInv, VersionsIncrease, Stored
  <2>2. CASE r = p /\ q # p
    BY <1>5, <1>7, <1>9, <1>23, <2>2 DEF StoredOn, Stored
  <2>3. CASE q = p
    BY <1>1, <1>5, <1>7, <1>9, <1>12, <2>3 DEF Stored
  <2> QED BY <2>1, <2>2, <2>3
<1> QED BY <1>11, <1>13, <1>15, <1>16, <1>17, <1>21, <1>22, <1>24 DEF RegistryInv

\* A status change touches no number, and makes no plan active.
LEMMA StatusSound ==
    ASSUME RegistryInv, NEW p \in PlanIds, NEW status \in Statuses \ {"ARMED"},
           SetPlanStatus(p, status)
    PROVE  RegistryInv'
<1> DEFINE new == [plans[p] EXCEPT !.status = status]
<1>1. /\ nonces \in [Days -> Code \cup {NoCode}]
      /\ plans \in [PlanIds -> Plan \cup {NoPlan}]
      /\ p \in Active /\ p \in Stored /\ plans[p] \in Plan
  BY DEF RegistryInv, RegistryTypeOK, SetPlanStatus, Active, Stored
<1>2. /\ new \in Plan /\ new # NoPlan /\ new.day = plans[p].day
      /\ new.version = plans[p].version /\ new.created = plans[p].created
      /\ new.serial = plans[p].serial /\ new.code = plans[p].code
  <2>1. new \in Plan BY <1>1 DEF Plan
  <2> QED BY <1>1, <2>1, RegistryAssumption DEF Plan
<1>3. plans' = [plans EXCEPT ![p] = new] /\ UNCHANGED <<nonces, rows, issues, clock>>
  BY DEF SetPlanStatus
<1> HIDE DEF new
<1>4. /\ plans'[p] = new /\ \A q \in PlanIds : q # p => plans'[q] = plans[q]
      /\ plans' \in [PlanIds -> Plan \cup {NoPlan}]
  BY <1>1, <1>2, <1>3
<1>5. Stored' = Stored /\ Active' \subseteq Active
  BY <1>1, <1>2, <1>4 DEF Stored, Active
<1>6. \A q \in Stored : /\ plans'[q].day = plans[q].day
                        /\ plans'[q].version = plans[q].version
                        /\ plans'[q].created = plans[q].created
                        /\ plans'[q].serial = plans[q].serial
                        /\ plans'[q].code = plans[q].code
  BY <1>2, <1>4 DEF Stored
<1>7. \A d \in Days : StoredOn(d)' = StoredOn(d) BY <1>5, <1>6 DEF StoredOn
<1>8. \A d \in Days : \A q \in PlanIds : IsLatest(q, d) => IsLatest(q, d)'
  BY <1>6, <1>7 DEF IsLatest, StoredOn
<1>9. ActiveIsLatest'
  <2> SUFFICES ASSUME NEW q \in Active' PROVE IsLatest(q, plans[q].day)'
    BY DEF ActiveIsLatest
  <2>1. q \in Active /\ q \in Stored /\ q \in PlanIds BY <1>5 DEF Active, Stored
  <2>2. plans[q].day \in Days
    BY <2>1 DEF RegistryInv, RegistryTypeOK, Stored, Plan
  <2>3. IsLatest(q, plans[q].day) BY <2>1 DEF RegistryInv, ActiveIsLatest
  <2>4. plans'[q].day = plans[q].day BY <1>6, <2>1
  <2>5. \A e \in Days : e = plans[q].day => IsLatest(q, e)'
    BY <1>8, <2>1, <2>3
  <2> QED BY <2>2, <2>4, <2>5 DEF IsLatest
<1>10. LatestExists'
  <2> SUFFICES ASSUME NEW d \in Days, StoredOn(d)' # {}
               PROVE  \E l \in StoredOn(d)' : IsLatest(l, d)'
    BY DEF LatestExists
  <2>1. StoredOn(d)' = StoredOn(d) BY <1>7
  <2>2. PICK l \in StoredOn(d) : IsLatest(l, d)
    BY <2>1 DEF RegistryInv, LatestExists
  <2>3. l \in PlanIds BY <2>2 DEF StoredOn, Stored
  <2> QED BY <1>8, <2>1, <2>2, <2>3
<1>11. RowsNumbered' /\ CodesIssued' /\ UnusedApprovedNothing'
  BY <1>3, <1>5, <1>6
     DEF RegistryInv, RowsNumbered, CodesIssued, UnusedApprovedNothing
<1>12. VersionsIncrease' /\ OneApprovalPerCode'
  <2>1. \A q \in Stored : plans'[q].code = plans[q].code
    BY <1>2, <1>4 DEF Stored
  <2>2. VersionsIncrease' BY <1>5, <1>6 DEF RegistryInv, VersionsIncrease
  <2>3. OneApprovalPerCode'
    BY <1>3, <1>5, <1>6, <2>1 DEF RegistryInv, OneApprovalPerCode
  <2> QED BY <2>2, <2>3
<1>13. RegistryTypeOK' BY <1>3, <1>4 DEF RegistryInv, RegistryTypeOK
<1> QED BY <1>9, <1>10, <1>11, <1>12, <1>13 DEF RegistryInv

\* Every step of the registry keeps its invariant.
LEMMA RegistryStepSound ==
    ASSUME RegistryInv, [RegistryNext]_registryVars
    PROVE  RegistryInv'
<1>1. CASE Pass \/ UNCHANGED registryVars
  <2>1. UNCHANGED <<nonces, plans, rows, issues>>
    BY <1>1 DEF Pass, registryVars
  <2>2. clock' \in Nat
    BY <1>1 DEF Pass, registryVars, RegistryInv, RegistryTypeOK
  <2> QED BY <2>1, <2>2
      DEF RegistryInv, RegistryTypeOK, RowsNumbered, CodesIssued, LatestExists,
          UnusedApprovedNothing, ActiveIsLatest, VersionsIncrease, OneApprovalPerCode,
          Stored, Active, StoredOn, IsLatest
<1> QED BY <1>1, IssueSound, ApproveSound, StatusSound DEF RegistryNext

\* The inductive invariant of the registry (repository.py).
THEOREM RegistrySound == RegistrySpec => []RegistryInv
<1>1. RegistryInit => RegistryInv BY RegistryInitSound
<1>2. RegistryInv /\ [RegistryNext]_registryVars => RegistryInv' BY RegistryStepSound
<1> QED BY <1>1, <1>2, PTL DEF RegistrySpec

\* The engine never trades two plans of one market and date: of all the plans of
\* the day only the one stored last can be active (approve_plan, active_plans).
THEOREM OneActivePlan == RegistrySpec => []ActiveIsLatest
<1>1. RegistryInv => ActiveIsLatest BY DEF RegistryInv
<1> QED BY <1>1, RegistrySound, PTL

\* Versions grow along the whole history of a day (approve_plan).
THEOREM VersionsGrow == RegistrySpec => []VersionsIncrease
<1>1. RegistryInv => VersionsIncrease BY DEF RegistryInv
<1> QED BY <1>1, RegistrySound, PTL

\* An issued code approves at most one plan, of the day it was issued for and only
\* when presented itself (issue_nonce, approve_plan).
THEOREM CodeIsSingleUse == RegistrySpec => []OneApprovalPerCode
<1>1. RegistryInv => OneApprovalPerCode BY DEF RegistryInv
<1> QED BY <1>1, RegistrySound, PTL

\* The tables keep their types (nonces, plans).
THEOREM RegistryTypeCorrect == RegistrySpec => []RegistryTypeOK
<1>1. RegistryInv => RegistryTypeOK BY DEF RegistryInv
<1> QED BY <1>1, RegistrySound, PTL
====
