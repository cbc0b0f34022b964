--------------------------- MODULE Dashboard_proofs -------------------------
(***************************************************************************)
(* Theorems about CheckQuota, and about Dashboard, which extends it, for   *)
(* every number of sessions, users, costs and grants.                      *)
(***************************************************************************)
EXTENDS Dashboard, Accounts_proofs

(* The inductive invariant: the properties of the module, and what a        *)
(* session knows of its own row and of what it read.                        *)

\* At these points a session has decided what to insert and is not aborted.
Decided == {"insert", "commit", "limbo"}

SessionKnows ==
    \A j \in Jobs :
        /\ pc[j] # "done" => row[j] = NoRow
        /\ pc[j] \in {"idle", "lock", "read"} => verdict[j] = NoRow
        /\ pc[j] \in Decided => verdict[j] # NoRow
        /\ pc[j] \in Decided /\ verdict[j] = QuotaDeducted => Cost[j] <= rem[j]
        /\ pc[j] = "done" => told[j] # "none"
        /\ pc[j] \in {"orphan", "limbo"} => told[j] = "error"

RowKnows ==
    \A j \in Jobs :
        /\ row[j] # Refunded
        /\ row[j] = QuotaInsufficient => verdict[j] = QuotaInsufficient
        /\ row[j] \notin {NoRow, QuotaInsufficient} => verdict[j] = QuotaDeducted

IInv ==
    /\ TypeOK
    /\ SessionKnows
    /\ RowKnows
    /\ LockIsExclusive
    /\ ResultMatchesRow
    /\ ReadStaysAffordable
    /\ NoOverspend

-----------------------------------------------------------------------------
USE DEF QuotaInsufficient, QuotaDeducted, PrintSent, PrintSucceeded,
        PrintFailed, Refunded, NoRow

(* What is left to a user is a number.                                      *)
LEMMA RemainingType ==
    ASSUME TypeOK, NEW u \in Users
    PROVE  Remaining(u) \in Int /\ granted[u] \in Nat /\ Spent(Charged, u) \in Nat
BY SpentType, SMT DEF TypeOK, Remaining

LEMMA InitIInv == Init => IInv
<1> SUFFICES ASSUME Init PROVE IInv
  OBVIOUS
<1> USE DEF Init
<1>1. TypeOK
  BY SMT DEF TypeOK, Points, Results, allStates
<1>2. SessionKnows /\ RowKnows /\ ResultMatchesRow /\ ReadStaysAffordable
  BY SMT DEF SessionKnows, RowKnows, ResultMatchesRow, ReadStaysAffordable, Decided
<1>3. LockIsExclusive
  BY NoSessionAssumption DEF LockIsExclusive, Holding
<1>4. NoOverspend
  <2> SUFFICES ASSUME NEW u \in Users
               PROVE  Spent(Charged, u) <= granted[u]
    BY DEF NoOverspend
  <2>1. Charged = {}
    BY DEF Charged, DeductsQuota, QuotaDeductingStates
  <2> QED
    BY <2>1, SpentNothing, SMT
<1> QED
  BY <1>1, <1>2, <1>3, <1>4 DEF IInv

(* Steps that neither read nor write the tables.                            *)
LEMMA QuietStep ==
    ASSUME IInv,
           \/ \E j \in Jobs : \/ Begin(j) \/ LockUser(j) \/ LockTimesOut(j)
                              \/ Insert(j) \/ StatementFails(j)
                              \/ ConnectionLost(j) \/ ServerAborts(j)
           \/ UNCHANGED vars
    PROVE  IInv'
<1> USE DEF IInv, Begin, LockUser, LockTimesOut, Insert, StatementFails,
            ConnectionLost, ServerAborts, GoTo, Return, Unlock, vars
<1>1. UNCHANGED <<row, granted, rem, verdict>>
  OBVIOUS
<1>2. TypeOK'
  BY OwnerAssumption, SMT DEF TypeOK, Points, Results
<1>3. SessionKnows'
  <2> SUFFICES ASSUME NEW i \in Jobs
               PROVE  /\ pc'[i] # "done" => row[i] = NoRow
                      /\ pc'[i] \in {"idle", "lock", "read"} => verdict[i] = NoRow
                      /\ pc'[i] \in Decided => verdict[i] # NoRow
                      /\ pc'[i] \in Decided /\ verdict[i] = QuotaDeducted
                           => Cost[i] <= rem[i]
                      /\ pc'[i] = "done" => told'[i] # "none"
                      /\ pc'[i] \in {"orphan", "limbo"} => told'[i] = "error"
    BY <1>1 DEF SessionKnows
  <2>1. /\ pc'[i] # "done" => pc[i] # "done"
        /\ pc'[i] \in {"idle", "lock", "read"} => pc[i] \in {"idle", "lock", "read"}
        /\ pc'[i] \in Decided => pc[i] \in Decided
    BY SMT DEF TypeOK, Decided
  <2>2. /\ pc'[i] = "done" => told'[i] # "none"
        /\ pc'[i] \in {"orphan", "limbo"} => told'[i] = "error"
    BY SMT DEF TypeOK, SessionKnows
  <2> QED
    BY <2>1, <2>2 DEF SessionKnows
<1>4. RowKnows' /\ ResultMatchesRow'
  <2>1. RowKnows'
    BY <1>1 DEF RowKnows
  <2>2. \A i \in Jobs : told'[i] # told[i] => told'[i] = "error"
    BY SMT DEF TypeOK
  <2> QED
    BY <1>1, <2>1, <2>2 DEF ResultMatchesRow
<1>5. LockIsExclusive'
  BY NoSessionAssumption, OwnerAssumption, SMT DEF TypeOK, LockIsExclusive, Holding
<1>6. ReadStaysAffordable' /\ NoOverspend'
  <2>1. Charged' = Charged /\ \A u : Remaining(u)' = Remaining(u)
    BY <1>1 DEF Charged, Remaining
  <2>2. \A j \in Jobs : pc'[j] \in Decided => pc[j] \in Decided
    BY SMT DEF TypeOK, Decided
  <2> QED
    BY <1>1, <2>1, <2>2 DEF ReadStaysAffordable, NoOverspend, Decided
<1> QED
  BY <1>2, <1>3, <1>4, <1>5, <1>6

LEMMA ReadStep ==
    ASSUME IInv, NEW j \in Jobs, ReadRemaining(j)
    PROVE  IInv'
<1> USE DEF IInv, ReadRemaining, GoTo
<1>1. /\ Owner[j] \in Users /\ Cost[j] \in Nat
      /\ Remaining(Owner[j]) \in Int
  BY OwnerAssumption, CostAssumption, RemainingType
<1>2. Charged' = Charged /\ \A u : Remaining(u)' = Remaining(u)
  BY DEF Charged, Remaining
<1>3. TypeOK'
  BY <1>1, SMT DEF TypeOK, Points
<1>4. SessionKnows'
  BY <1>1, SMT DEF TypeOK, SessionKnows, Decided
<1>5. RowKnows' /\ ResultMatchesRow'
  BY SMT DEF TypeOK, RowKnows, ResultMatchesRow, SessionKnows
<1>6. LockIsExclusive'
  BY SMT DEF TypeOK, LockIsExclusive, Holding
<1>7. ReadStaysAffordable'
  <2> SUFFICES ASSUME NEW i \in Jobs, pc'[i] \in Decided
               PROVE  rem'[i] <= Remaining(Owner[i])'
    BY DEF ReadStaysAffordable, Decided
  <2>1. CASE i = j
    BY <1>1, <1>2, <2>1, SMT DEF TypeOK
  <2>2. CASE i # j
    BY <1>2, <2>2 DEF TypeOK, ReadStaysAffordable, Decided
  <2> QED
    BY <2>1, <2>2
<1>8. NoOverspend'
  BY <1>2 DEF NoOverspend
<1> QED
  BY <1>3, <1>4, <1>5, <1>6, <1>7, <1>8

(* A commit charges at most what was read, which the lock kept affordable.  *)
LEMMA CommitCharges ==
    ASSUME IInv, NEW j \in Jobs, Commit(j) \/ ServerCommits(j)
    PROVE  /\ row[j] = NoRow /\ j \notin Charged
           /\ row' = [row EXCEPT ![j] = verdict[j]]
           /\ \/ verdict[j] = QuotaInsufficient /\ Charged' = Charged
              \/ /\ verdict[j] = QuotaDeducted /\ Charged' = Charged \cup {j}
                 /\ Cost[j] <= Remaining(Owner[j])
<1> USE DEF IInv
<1>1. /\ pc[j] \in {"commit", "limbo"} /\ row[j] = NoRow
      /\ row' = [row EXCEPT ![j] = verdict[j]]
      /\ verdict[j] \in {QuotaInsufficient, QuotaDeducted}
  BY DEF Commit, ServerCommits, SessionKnows, TypeOK, Decided
<1>2. /\ Cost[j] \in Nat /\ rem[j] \in Int /\ Remaining(Owner[j]) \in Int
      /\ rem[j] <= Remaining(Owner[j])
  BY <1>1, CostAssumption, OwnerAssumption, RemainingType DEF TypeOK, ReadStaysAffordable
<1>3. CASE verdict[j] = QuotaInsufficient
  BY <1>1, <1>3 DEF Charged, DeductsQuota, QuotaDeductingStates, TypeOK
<1>4. CASE verdict[j] = QuotaDeducted
  <2>1. Cost[j] <= rem[j]
    BY <1>1, <1>4 DEF SessionKnows, Decided
  <2>2. j \notin Charged /\ Charged' = Charged \cup {j}
    BY <1>1, <1>4 DEF Charged, DeductsQuota, QuotaDeductingStates, TypeOK
  <2> QED
    BY <1>1, <1>2, <1>4, <2>1, <2>2, SMT
<1> QED
  BY <1>1, <1>3, <1>4

LEMMA CommitStep ==
    ASSUME IInv, NEW j \in Jobs, Commit(j) \/ ServerCommits(j)
    PROVE  IInv'
<1> USE DEF IInv
<1>1. /\ pc[j] \in {"commit", "limbo"} /\ row[j] = NoRow
      /\ row' = [row EXCEPT ![j] = verdict[j]]
      /\ verdict[j] \in {QuotaInsufficient, QuotaDeducted}
      /\ pc' = [pc EXCEPT ![j] = "done"]
      /\ lock' = [lock EXCEPT ![Owner[j]] = NoSession]
      /\ UNCHANGED <<granted, rem, verdict>>
  BY DEF Commit, ServerCommits, SessionKnows, TypeOK, Decided, GoTo, Unlock
<1>2. \/ /\ pc[j] = "limbo" /\ told' = told
      \/ told' = [told EXCEPT ![j] =
             IF verdict[j] = QuotaInsufficient THEN "insufficient" ELSE "stored"]
  BY DEF Commit, ServerCommits, Return
<1>3. TypeOK'
  <2>1. row' \in [Jobs -> allStates \cup {NoRow}]
    BY <1>1 DEF TypeOK, allStates
  <2>2. told' \in [Jobs -> Results]
    BY <1>2 DEF TypeOK, Results
  <2>3. lock' \in [Users -> Jobs \cup {NoSession}] /\ pc' \in [Jobs -> Points]
    BY <1>1 DEF TypeOK, Points
  <2> QED
    BY <1>1, <2>1, <2>2, <2>3 DEF TypeOK
<1>4. SessionKnows'
  <2> SUFFICES ASSUME NEW i \in Jobs
               PROVE  /\ pc'[i] # "done" => row'[i] = NoRow
                      /\ pc'[i] \in {"idle", "lock", "read"} => verdict[i] = NoRow
                      /\ pc'[i] \in Decided => verdict[i] # NoRow
                      /\ pc'[i] \in Decided /\ verdict[i] = QuotaDeducted
                           => Cost[i] <= rem[i]
                      /\ pc'[i] = "done" => told'[i] # "none"
                      /\ pc'[i] \in {"orphan", "limbo"} => told'[i] = "error"
    BY <1>1 DEF SessionKnows
  <2>1. CASE i = j
    BY <1>1, <1>2, <2>1 DEF TypeOK, SessionKnows, Decided
  <2>2. CASE i # j
    BY <1>1, <1>2, <2>2 DEF TypeOK, SessionKnows, Decided
  <2> QED
    BY <2>1, <2>2
<1>5. RowKnows'
  <2> SUFFICES ASSUME NEW i \in Jobs
               PROVE  /\ row'[i] # Refunded
                      /\ row'[i] = QuotaInsufficient => verdict[i] = QuotaInsufficient
                      /\ row'[i] \notin {NoRow, QuotaInsufficient}
                           => verdict[i] = QuotaDeducted
    BY <1>1 DEF RowKnows
  <2>1. CASE i = j
    BY <1>1, <2>1 DEF TypeOK
  <2>2. CASE i # j
    BY <1>1, <2>2 DEF TypeOK, RowKnows
  <2> QED
    BY <2>1, <2>2
<1>6. ResultMatchesRow'
  <2> SUFFICES ASSUME NEW i \in Jobs
               PROVE  /\ told'[i] = "stored" => row'[i] \notin {NoRow, QuotaInsufficient}
                      /\ told'[i] = "insufficient" => row'[i] = QuotaInsufficient
                      /\ told'[i] = "none" => row'[i] = NoRow
    BY DEF ResultMatchesRow
  <2>1. CASE i = j
    BY <1>1, <1>2, <2>1 DEF TypeOK, SessionKnows
  <2>2. CASE i # j
    BY <1>1, <1>2, <2>2 DEF TypeOK, ResultMatchesRow
  <2> QED
    BY <2>1, <2>2
<1>7. LockIsExclusive'
  BY <1>1, NoSessionAssumption, OwnerAssumption, SMT DEF TypeOK, LockIsExclusive, Holding
<1>8. Charged' = Charged \/ Charged' = Charged \cup {j}
  BY CommitCharges
<1>9. ReadStaysAffordable'
  <2> SUFFICES ASSUME NEW i \in Jobs, pc'[i] \in Decided
               PROVE  rem[i] <= Remaining(Owner[i])'
    BY <1>1 DEF ReadStaysAffordable, Decided
  <2>1. i # j /\ pc[i] \in Decided
    BY <1>1, SMT DEF TypeOK, Decided
  <2>2. Owner[i] \in Users /\ Owner[j] \in Users
    BY OwnerAssumption
  <2>3. Owner[j] # Owner[i]
    <3>1. lock[Owner[i]] = i /\ lock[Owner[j]] = j
      BY <1>1, <2>1, <2>2 DEF LockIsExclusive, Holding, Decided
    <3> QED
      BY <2>1, <3>1
  <2>4. Spent(Charged', Owner[i]) = Spent(Charged, Owner[i])
    <3>1. CASE Charged' = Charged
      BY <3>1
    <3>2. CASE j \notin Charged /\ Charged' = Charged \cup {j}
      <4>1. Spent(Charged \cup {j}, Owner[i]) = Spent(Charged, Owner[i]) + 0
        BY <2>3, <3>2, SpentAdd
      <4> QED
        BY <3>2, <4>1, SpentType, SMT
    <3> QED
      BY <3>1, <3>2, CommitCharges
  <2>5. Remaining(Owner[i])' = Remaining(Owner[i])
    BY <1>1, <2>4 DEF Remaining
  <2> QED
    BY <2>1, <2>5 DEF ReadStaysAffordable, Decided
<1>10. NoOverspend'
  <2> SUFFICES ASSUME NEW u \in Users
               PROVE  Spent(Charged', u) <= granted[u]
    BY <1>1 DEF NoOverspend
  <2>1. /\ Spent(Charged, u) <= granted[u] /\ Cost[j] \in Nat
        /\ Spent(Charged, u) \in Nat /\ granted[u] \in Nat
    BY RemainingType, CostAssumption DEF NoOverspend
  <2>2. CASE Charged' = Charged
    BY <2>1, <2>2
  <2>3. CASE /\ j \notin Charged /\ Charged' = Charged \cup {j}
             /\ Cost[j] <= Remaining(Owner[j])
    <3>1. Spent(Charged \cup {j}, u) =
            Spent(Charged, u) + (IF Owner[j] = u THEN Cost[j] ELSE 0)
      BY <2>3, SpentAdd
    <3> QED
      BY <2>1, <2>3, <3>1, SMT DEF Remaining
  <2> QED
    BY <2>2, <2>3, CommitCharges
<1> QED
  BY <1>3, <1>4, <1>5, <1>6, <1>7, <1>9, <1>10

(* A lifecycle update moves a committed row, and charges nothing.           *)
LEMMA UpdateReleases ==
    ASSUME IInv, NEW j \in Jobs, NEW to \in allStates, UpdateJobState(j, to)
    PROVE  /\ row' = [row EXCEPT ![j] = to]
           /\ \/ to = PrintFailed /\ row[j] \in {QuotaDeducted, PrintSent}
                 /\ j \in Charged /\ Charged' = Charged \ {j}
              \/ to \in {PrintSent, PrintSucceeded} /\ Charged' = Charged
                 /\ row[j] \in {QuotaDeducted, PrintSent}
<1> USE DEF IInv, TypeOK
<1>1. /\ row' = [row EXCEPT ![j] = to]
      /\ row[j] \in {QuotaDeducted, PrintSent}
      /\ to \in {PrintFailed, PrintSent, PrintSucceeded}
  BY DEF UpdateJobState, ValidTransition, validTransitions
<1>2. CASE to = PrintFailed
  BY <1>1, <1>2 DEF Charged, DeductsQuota, QuotaDeductingStates
<1>3. CASE to # PrintFailed
  BY <1>1, <1>3 DEF Charged, DeductsQuota, QuotaDeductingStates
<1> QED
  BY <1>1, <1>2, <1>3

LEMMA UpdateStep ==
    ASSUME IInv, NEW j \in Jobs, NEW to \in allStates, UpdateJobState(j, to)
    PROVE  IInv'
<1> USE DEF IInv
<1>1. /\ row' = [row EXCEPT ![j] = to]
      /\ row[j] \in {QuotaDeducted, PrintSent}
      /\ to \in {PrintFailed, PrintSent, PrintSucceeded}
      /\ Charged' \subseteq Charged
      /\ UNCHANGED <<granted, lock, pc, rem, verdict, told>>
  BY UpdateReleases DEF UpdateJobState
<1>2. TypeOK'
  BY <1>1 DEF TypeOK, allStates
<1>3. SessionKnows' /\ RowKnows' /\ ResultMatchesRow'
  BY <1>1, SMT DEF TypeOK, SessionKnows, RowKnows, ResultMatchesRow
<1>4. LockIsExclusive'
  BY <1>1 DEF LockIsExclusive, Holding
<1>5. \A u \in Users : /\ Spent(Charged', u) <= Spent(Charged, u)
                       /\ Spent(Charged', u) \in Nat /\ Spent(Charged, u) \in Nat
                       /\ granted[u] \in Nat
  BY <1>1, SpentMonotone, SpentType DEF TypeOK
<1>6. ReadStaysAffordable'
  <2> SUFFICES ASSUME NEW i \in Jobs, pc[i] \in Decided
               PROVE  rem[i] <= Remaining(Owner[i])'
    BY <1>1 DEF ReadStaysAffordable, Decided
  <2>1. Owner[i] \in Users /\ rem[i] \in Int /\ rem[i] <= Remaining(Owner[i])
    BY OwnerAssumption DEF TypeOK, ReadStaysAffordable, Decided
  <2> QED
    BY <1>1, <1>5, <2>1, SMT DEF Remaining
<1>7. NoOverspend'
  BY <1>1, <1>5, SMT DEF NoOverspend
<1> QED
  BY <1>2, <1>3, <1>4, <1>6, <1>7

LEMMA GrantStep ==
    ASSUME IInv, NEW u \in Users, NEW amount \in GrantAmounts, EnsureGrant(u, amount)
    PROVE  IInv'
<1> USE DEF IInv
<1>1. /\ granted' = [granted EXCEPT ![u] = @ + amount] /\ amount \in Nat
      /\ UNCHANGED <<row, lock, pc, rem, verdict, told>>
      /\ Charged' = Charged
  BY GrantsAssumption DEF EnsureGrant, Charged
<1>2. granted' \in [Users -> Nat] /\ \A v \in Users : granted[v] <= granted'[v]
  BY <1>1, SMT DEF TypeOK
<1>3. TypeOK'
  BY <1>1, <1>2 DEF TypeOK
<1>4. SessionKnows' /\ RowKnows' /\ ResultMatchesRow' /\ LockIsExclusive'
  BY <1>1 DEF SessionKnows, RowKnows, ResultMatchesRow, LockIsExclusive, Holding
<1>5. \A v \in Users : /\ Spent(Charged, v) \in Nat
                       /\ granted[v] \in Nat /\ granted'[v] \in Nat
  BY <1>2, SpentType DEF TypeOK
<1>6. ReadStaysAffordable'
  <2> SUFFICES ASSUME NEW i \in Jobs, pc[i] \in Decided
               PROVE  rem[i] <= Remaining(Owner[i])'
    BY <1>1 DEF ReadStaysAffordable, Decided
  <2>1. Owner[i] \in Users /\ rem[i] \in Int /\ rem[i] <= Remaining(Owner[i])
    BY OwnerAssumption DEF TypeOK, ReadStaysAffordable, Decided
  <2> QED
    BY <1>1, <1>2, <1>5, <2>1, SMT DEF Remaining
<1>7. NoOverspend'
  BY <1>1, <1>2, <1>5, SMT DEF NoOverspend
<1> QED
  BY <1>3, <1>4, <1>6, <1>7

LEMMA NextIInv == IInv /\ [Next]_vars => IInv'
<1> SUFFICES ASSUME IInv, [Next]_vars PROVE IInv'
  OBVIOUS
<1>1. CASE \E j \in Jobs : ReadRemaining(j)
  BY <1>1, ReadStep
<1>2. CASE \E j \in Jobs : Commit(j) \/ ServerCommits(j)
  BY <1>2, CommitStep
<1>3. CASE \E j \in Jobs, to \in allStates : UpdateJobState(j, to)
  BY <1>3, UpdateStep
<1>4. CASE \E u \in Users, amount \in GrantAmounts : EnsureGrant(u, amount)
  BY <1>4, GrantStep
<1>5. CASE \/ \E j \in Jobs : \/ Begin(j) \/ LockUser(j) \/ LockTimesOut(j)
                              \/ Insert(j) \/ StatementFails(j)
                              \/ ConnectionLost(j) \/ ServerAborts(j)
           \/ UNCHANGED vars
  BY <1>5, QuietStep
<1> QED
  BY <1>1, <1>2, <1>3, <1>4, <1>5 DEF Next, Session, Server, Quiescent

LEMMA Invariance == Spec => []IInv
BY InitIInv, NextIInv, PTL DEF Spec

-----------------------------------------------------------------------------
(* The ledger sums what the table sums.                                      *)
LEMMA LedgerSums ==
    /\ Ledger!Jobs = Jobs
    /\ \A S, u : Ledger!Spent(S, u) = Spent(S, u)
<1>1. Ledger!Jobs = Jobs
  BY DEF Ledger!Jobs, Jobs
<1>2. \A S : Ledger!CostOf(S) = CostOf(S)
  BY Zenon DEF Ledger!CostOf, CostOf, Ledger!CostUpTo, CostUpTo
<1>3. \A S, u : Ledger!Spent(S, u) = Spent(S, u)
  BY <1>2 DEF Ledger!Spent, Spent, Ledger!JobsOf, JobsOf
<1> QED
  BY <1>1, <1>3

LEMMA PaysExactly ==
    ASSUME IInv, NEW j \in Jobs
    PROVE  Ledger!CanPay(j) <=> ~ (Remaining(Owner[j]) < Cost[j])
<1>1. /\ Owner[j] \in Users /\ Cost[j] \in Nat
      /\ granted[Owner[j]] \in Nat /\ Spent(Charged, Owner[j]) \in Nat
  BY OwnerAssumption, CostAssumption, RemainingType DEF IInv
<1> QED
  BY <1>1, LedgerSums, SMT DEF Ledger!CanPay, Remaining

LEMMA ReadIsLedgerStep ==
    ASSUME IInv, NEW j \in Jobs, ReadRemaining(j)
    PROVE  [Ledger!Next]_(Ledger!vars)
<1> DEFINE released == {i \in Jobs : row[i] \in {PrintFailed, Refunded}}
           refused  == {i \in Jobs : verdict[i] = QuotaInsufficient}
<1> USE LedgerSums DEF Ledger!Next, Ledger!vars
<1>1. /\ Charged' = Charged /\ released' = released /\ UNCHANGED <<row, granted>>
      /\ row[j] = NoRow /\ verdict[j] = NoRow
      /\ verdict' = [verdict EXCEPT ![j] =
            IF Remaining(Owner[j]) < Cost[j] THEN QuotaInsufficient ELSE QuotaDeducted]
  BY DEF ReadRemaining, Charged, IInv, SessionKnows
<1>2. CASE Remaining(Owner[j]) < Cost[j]
  <2>1. refused' = refused \cup {j} /\ j \notin Charged \cup released \cup refused
    BY <1>1, <1>2 DEF IInv, TypeOK, Charged, DeductsQuota, QuotaDeductingStates
  <2> QED
    BY <1>1, <1>2, <2>1, PaysExactly DEF Ledger!Refuse, Ledger!Fresh
<1>3. CASE ~ (Remaining(Owner[j]) < Cost[j])
  <2>1. refused' = refused
    BY <1>1, <1>3 DEF IInv, TypeOK
  <2> QED
    BY <1>1, <2>1
<1> QED
  BY <1>2, <1>3

LEMMA CommitIsLedgerStep ==
    ASSUME IInv, NEW j \in Jobs, Commit(j) \/ ServerCommits(j)
    PROVE  [Ledger!Next]_(Ledger!vars)
<1> DEFINE released == {i \in Jobs : row[i] \in {PrintFailed, Refunded}}
           refused  == {i \in Jobs : verdict[i] = QuotaInsufficient}
<1> USE LedgerSums DEF Ledger!Next, Ledger!vars
<1>1. refused' = refused /\ granted' = granted
  BY DEF Commit, ServerCommits
<1>2. /\ row[j] = NoRow /\ row' = [row EXCEPT ![j] = verdict[j]]
      /\ verdict[j] \in {QuotaInsufficient, QuotaDeducted}
  BY CommitCharges
<1>3. released' = released /\ j \notin released
  BY <1>2 DEF IInv, TypeOK
<1>4. CASE Charged' = Charged
  BY <1>1, <1>3, <1>4
<1>5. CASE /\ verdict[j] = QuotaDeducted /\ j \notin Charged
           /\ Charged' = Charged \cup {j} /\ Cost[j] <= Remaining(Owner[j])
  <2>1. Ledger!CanPay(j)
    <3>1. Cost[j] \in Nat /\ Remaining(Owner[j]) \in Int
      BY CostAssumption, OwnerAssumption, RemainingType DEF IInv
    <3>2. ~ (Remaining(Owner[j]) < Cost[j])
      BY <1>5, <3>1, SMT
    <3> QED
      BY <3>2, PaysExactly
  <2>2. j \notin refused
    BY <1>5
  <2> QED
    BY <1>1, <1>3, <1>5, <2>1, <2>2 DEF Ledger!Charge, Ledger!Fresh
<1> QED
  BY <1>4, <1>5, CommitCharges

LEMMA UpdateIsLedgerStep ==
    ASSUME IInv, NEW j \in Jobs, NEW to \in allStates, UpdateJobState(j, to)
    PROVE  [Ledger!Next]_(Ledger!vars)
<1> DEFINE released == {i \in Jobs : row[i] \in {PrintFailed, Refunded}}
           refused  == {i \in Jobs : verdict[i] = QuotaInsufficient}
<1> USE LedgerSums DEF Ledger!Next, Ledger!vars
<1>1. /\ row' = [row EXCEPT ![j] = to] /\ refused' = refused /\ granted' = granted
      /\ row[j] \in {QuotaDeducted, PrintSent}
  BY UpdateReleases DEF UpdateJobState
<1>2. CASE to = PrintFailed /\ j \in Charged /\ Charged' = Charged \ {j}
  <2>1. released' = released \cup {j}
    BY <1>1, <1>2 DEF IInv, TypeOK
  <2> QED
    BY <1>1, <1>2, <2>1 DEF Ledger!Release
<1>3. CASE to \in {PrintSent, PrintSucceeded} /\ Charged' = Charged
  <2>1. released' = released
    BY <1>1, <1>3 DEF IInv, TypeOK
  <2> QED
    BY <1>1, <1>3, <2>1
<1> QED
  BY <1>2, <1>3, UpdateReleases

LEMMA GrantIsLedgerStep ==
    ASSUME IInv, NEW u \in Users, NEW amount \in GrantAmounts, EnsureGrant(u, amount)
    PROVE  [Ledger!Next]_(Ledger!vars)
<1>1. /\ granted' = [granted EXCEPT ![u] = @ + amount] /\ amount \in Nat
      /\ granted \in [Users -> Nat] /\ UNCHANGED <<row, verdict>> /\ Charged' = Charged
  BY GrantsAssumption DEF EnsureGrant, Charged, IInv, TypeOK
<1>2. /\ granted' \in [Users -> Nat] /\ granted'[u] >= granted[u]
      /\ \A v \in Users \ {u} : granted'[v] = granted[v]
  BY <1>1, SMT
<1> QED
  BY <1>1, <1>2 DEF Ledger!Next, Ledger!Award

-----------------------------------------------------------------------------
(* The theorems.                                                            *)

(* Every variable keeps its type; what a session reads is an integer, and   *)
(* grants are natural numbers.                                              *)
THEOREM TypeCorrect == Spec => []TypeOK
BY Invariance, PTL DEF IInv

(* However many transactions, updates and grants interleave, and whatever   *)
(* becomes of lost clients, nobody has more deducted than granted.          *)
THEOREM Solvency == Spec => []NoOverspend
BY Invariance, PTL DEF IInv

(* What a transaction read under the lock still covers its job when it      *)
(* commits.                                                                 *)
THEOREM ReadsHold == Spec => []ReadStaysAffordable
BY Invariance, PTL DEF IInv

(* The row lock has one holder, and is released by every way a transaction  *)
(* can end.                                                                 *)
THEOREM OneLockHolder == Spec => []LockIsExclusive
BY Invariance, PTL DEF IInv

(* What CheckQuotaAndStore returns is what it committed.                    *)
THEOREM ResultsAreTrue == Spec => []ResultMatchesRow
BY Invariance, PTL DEF IInv

(* Transactions that interleave statement by statement implement the        *)
(* ledger, whose charges are atomic.                                        *)
THEOREM Refinement == Spec => ImplementsLedger
<1>1. Init => Ledger!Init
  BY SMT DEF Init, Ledger!Init, Charged, DeductsQuota, QuotaDeductingStates
<1>2. IInv /\ [Next]_vars => [Ledger!Next]_(Ledger!vars)
  <2> SUFFICES ASSUME IInv, [Next]_vars
               PROVE  [Ledger!Next]_(Ledger!vars)
    OBVIOUS
  <2>1. CASE \E j \in Jobs : ReadRemaining(j)
    BY <2>1, ReadIsLedgerStep
  <2>2. CASE \E j \in Jobs : Commit(j) \/ ServerCommits(j)
    BY <2>2, CommitIsLedgerStep
  <2>3. CASE \E j \in Jobs, to \in allStates : UpdateJobState(j, to)
    BY <2>3, UpdateIsLedgerStep
  <2>4. CASE \E u \in Users, amount \in GrantAmounts : EnsureGrant(u, amount)
    BY <2>4, GrantIsLedgerStep
  <2>5. CASE UNCHANGED <<row, granted, verdict>>
    BY <2>5 DEF Ledger!vars, Charged
  <2> QED
    BY <2>1, <2>2, <2>3, <2>4, <2>5
       DEF Next, Session, Server, Quiescent, vars, Begin, LockUser,
           LockTimesOut, Insert, StatementFails, ConnectionLost, ServerAborts
<1> QED
  BY <1>1, <1>2, Invariance, PTL DEF Spec, ImplementsLedger, Ledger!Spec


-----------------------------------------------------------------------------
(* The home page.                                                           *)


\* The jobs u knew of when asking for the page that still deduct quota.
KnownCharged(u) == {j \in known[u] : DeductsQuota(row[j])}

(* The bound on what is left is carried from the first read to the second:  *)
(* until then by what is granted, from then on by what the page says was    *)
(* granted, and at last only for the jobs that are listed.                  *)
PageKnows ==
    \A u \in Users :
        /\ known[u] \subseteq {j \in Jobs : Owner[j] = u /\ told[j] = "stored"}
        /\ at[u] \in {"granted", "recent", "shown"} => 0 <= remaining[u]
        /\ at[u] = "granted" => remaining[u] + CostOf(KnownCharged(u)) <= granted[u]
        /\ at[u] = "recent"  => remaining[u] + CostOf(KnownCharged(u)) <= grants[u]
        /\ at[u] = "shown"   => remaining[u] + CostOf(ListedAsCharged(u)) <= grants[u]

HInv == IInv /\ PageTypeOK /\ PageKnows

-----------------------------------------------------------------------------
LEMMA InitHInv == HomeInit => HInv
<1> SUFFICES ASSUME HomeInit PROVE HInv
  OBVIOUS
<1>1. IInv
  BY InitIInv DEF HomeInit
<1>2. PageTypeOK
  BY SMT DEF HomeInit, PageTypeOK
<1>3. PageKnows
  BY DEF HomeInit, PageKnows
<1> QED
  BY <1>1, <1>2, <1>3 DEF HInv

(* Whose call has returned "stored" has nothing more to write: the answer   *)
(* stays, and the row never again goes from not deducting to deducting.     *)
LEMMA StoredIsFinal ==
    ASSUME IInv, [Next]_vars, NEW j \in Jobs, told[j] = "stored"
    PROVE  /\ told'[j] = "stored"
           /\ DeductsQuota(row'[j]) => DeductsQuota(row[j])
<1> USE DEF IInv, TypeOK
<1>1. pc[j] = "done" /\ row[j] # NoRow
  BY DEF SessionKnows, ResultMatchesRow
<1>2. ASSUME NEW i \in Jobs, Session(i) \/ Server(i)
      PROVE  told'[j] = told[j] /\ row'[j] = row[j]
  <2>1. i # j
    BY <1>1, <1>2 DEF Session, Server, Begin, LockUser, LockTimesOut, ReadRemaining,
       Insert, Commit, StatementFails, ConnectionLost, ServerAborts, ServerCommits
  <2>2. /\ told' = told \/ \E r : told' = [told EXCEPT ![i] = r]
        /\ row' = row \/ \E s : row' = [row EXCEPT ![i] = s]
    BY <1>2 DEF Session, Server, Begin, LockUser, LockTimesOut, ReadRemaining,
       Insert, Commit, StatementFails, ConnectionLost, ServerAborts, ServerCommits,
       Return
  <2> QED
    BY <2>1, <2>2
<1>3. ASSUME NEW i \in Jobs, NEW to \in allStates, UpdateJobState(i, to)
      PROVE  told'[j] = told[j] /\ (DeductsQuota(row'[j]) => DeductsQuota(row[j]))
  <2>1. told' = told /\ row' = [row EXCEPT ![i] = to]
    BY <1>3 DEF UpdateJobState
  <2>2. row[i] \in {QuotaDeducted, PrintSent}
    BY <1>3, UpdateReleases
  <2> QED
    BY <2>1, <2>2 DEF DeductsQuota, QuotaDeductingStates
<1>4. ASSUME NEW u \in Users, NEW amount \in GrantAmounts, EnsureGrant(u, amount)
      PROVE  told' = told /\ row' = row
  BY <1>4 DEF EnsureGrant
<1> QED
  BY <1>2, <1>3, <1>4 DEF Next, Quiescent, vars

(* Grants are only ever added.                                              *)
LEMMA GrantsGrow ==
    ASSUME IInv, [Next]_vars, NEW u \in Users
    PROVE  granted[u] <= granted'[u] /\ granted[u] \in Nat /\ granted'[u] \in Nat
<1>1. IInv' /\ granted[u] \in Nat /\ granted'[u] \in Nat
  BY NextIInv DEF IInv, TypeOK
<1>2. CASE granted' = granted
  BY <1>1, <1>2
<1>3. ASSUME NEW v \in Users, NEW amount \in GrantAmounts, EnsureGrant(v, amount)
      PROVE  granted[u] <= granted'[u]
  BY <1>1, <1>3, GrantsAssumption, SMT DEF EnsureGrant, IInv, TypeOK
<1> QED
  BY <1>1, <1>2, <1>3 DEF Next, Session, Server, Quiescent, vars, Begin, LockUser,
     LockTimesOut, ReadRemaining, Insert, Commit, StatementFails, ConnectionLost,
     ServerAborts, ServerCommits, UpdateJobState

(* While the transactions and updates go on, no known job begins to deduct. *)
LEMMA StoreStep ==
    ASSUME HInv, [Next]_vars, UNCHANGED pageVars
    PROVE  HInv'
<1> USE DEF HInv
<1>1. IInv'
  BY NextIInv
<1>2. PageTypeOK'
  BY DEF PageTypeOK, pageVars
<1>3. ASSUME NEW u \in Users
      PROVE  /\ known'[u] \subseteq {j \in Jobs : Owner[j] = u /\ told'[j] = "stored"}
             /\ CostOf(KnownCharged(u)') <= CostOf(KnownCharged(u))
  <2>1. known' = known
    BY DEF pageVars
  <2>2. \A j \in known[u] : /\ j \in Jobs /\ Owner[j] = u /\ told'[j] = "stored"
                            /\ DeductsQuota(row'[j]) => DeductsQuota(row[j])
    BY StoredIsFinal DEF PageKnows
  <2>3. KnownCharged(u)' \subseteq KnownCharged(u)
    BY <2>1, <2>2 DEF KnownCharged
  <2> QED
    BY <2>1, <2>2, <2>3, CostOfMonotone
<1>4. PageKnows'
  <2> SUFFICES ASSUME NEW u \in Users
               PROVE  /\ at[u] = "granted" =>
                           remaining[u] + CostOf(KnownCharged(u)') <= granted'[u]
                      /\ at[u] = "recent" =>
                           remaining[u] + CostOf(KnownCharged(u)') <= grants[u]
                      /\ ListedAsCharged(u)' = ListedAsCharged(u)
    BY <1>3 DEF PageKnows, pageVars
  <2>1. /\ CostOf(KnownCharged(u)) \in Nat /\ CostOf(KnownCharged(u)') \in Nat
        /\ CostOf(KnownCharged(u)') <= CostOf(KnownCharged(u))
        /\ remaining[u] \in Int /\ grants[u] \in Nat
    BY <1>3, CostOfType DEF PageTypeOK
  <2>2. granted[u] <= granted'[u] /\ granted[u] \in Nat /\ granted'[u] \in Nat
    BY GrantsGrow
  <2>3. ListedAsCharged(u)' = ListedAsCharged(u)
    BY DEF ListedAsCharged, pageVars
  <2> QED
    BY <2>1, <2>2, <2>3, SMT DEF PageKnows
<1> QED
  BY <1>1, <1>2, <1>4

(* A step of one user's page leaves the other pages alone.                  *)
LEMMA PageStep ==
    ASSUME HInv, NEW u \in Users, Pages(u)
    PROVE  HInv'
<1> USE DEF HInv
<1> DEFINE Knows(v) ==
      /\ known[v] \subseteq {j \in Jobs : Owner[j] = v /\ told[j] = "stored"}
      /\ at[v] \in {"granted", "recent", "shown"} => 0 <= remaining[v]
      /\ at[v] = "granted" => remaining[v] + CostOf(KnownCharged(v)) <= granted[v]
      /\ at[v] = "recent"  => remaining[v] + CostOf(KnownCharged(v)) <= grants[v]
      /\ at[v] = "shown"   => remaining[v] + CostOf(ListedAsCharged(v)) <= grants[v]
<1>1. UNCHANGED vars
  BY DEF Pages, Home, HomeRemaining, HomeGranted, HomeRecent, HomeFails, Leave,
     Blank
<1>2. IInv'
  BY <1>1, NextIInv
<1>3. PageTypeOK'
  <2>1. Remaining(u) \in Int /\ granted[u] \in Nat
    BY RemainingType DEF IInv
  <2>2. \A listed \in SUBSET RowsOf(u) : listed \subseteq Jobs \X allStates
    BY DEF RowsOf, IInv, TypeOK
  <2> QED
    BY <2>1, <2>2 DEF PageTypeOK, Pages, Then, Home, HomeRemaining, HomeGranted,
       HomeRecent, HomeFails, Leave, Blank
<1>4. ASSUME NEW v \in Users, v # u
      PROVE  Knows(v)'
  <2>1. /\ at'[v] = at[v] /\ remaining'[v] = remaining[v] /\ grants'[v] = grants[v]
        /\ recent'[v] = recent[v] /\ known'[v] = known[v]
    BY <1>4 DEF PageTypeOK, Pages, Then, Home, HomeRemaining, HomeGranted,
       HomeRecent, HomeFails, Leave, Blank
  <2>2. told' = told /\ granted' = granted /\ row' = row
    BY <1>1 DEF vars
  <2>3. KnownCharged(v)' = KnownCharged(v) /\ ListedAsCharged(v)' = ListedAsCharged(v)
    BY <2>1, <2>2 DEF KnownCharged, ListedAsCharged
  <2> QED
    BY <2>1, <2>2, <2>3 DEF PageKnows
<1>5. Knows(u)'
  <2> USE <1>1 DEF vars, Then
  <2>1. CASE Home(u) \/ HomeFails(u) \/ Leave(u)
    BY <2>1 DEF PageTypeOK, Home, HomeFails, Leave, Blank
  <2>2. CASE HomeRemaining(u)
    <3>1. /\ at'[u] = "granted" /\ remaining'[u] = Remaining(u) /\ known' = known
          /\ KnownCharged(u)' = KnownCharged(u)
      BY <2>2 DEF PageTypeOK, HomeRemaining, KnownCharged
    <3>2. CostOf(KnownCharged(u)) <= Spent(Charged, u)
      <4>1. KnownCharged(u) \subseteq JobsOf(Charged, u)
        BY DEF KnownCharged, JobsOf, Charged, PageKnows
      <4> QED
        BY <4>1, CostOfMonotone DEF Spent
    <3>3. /\ Spent(Charged, u) <= granted[u] /\ granted[u] \in Nat
          /\ Spent(Charged, u) \in Nat /\ CostOf(KnownCharged(u)) \in Nat
      BY RemainingType, CostOfType DEF IInv, NoOverspend
    <3>4. /\ 0 <= Remaining(u)
          /\ Remaining(u) + CostOf(KnownCharged(u)) <= granted[u]
      BY <3>2, <3>3, SMT DEF Remaining
    <3> QED
      BY <3>1, <3>4 DEF PageKnows
  <2>3. CASE HomeGranted(u)
    <3>1. /\ at'[u] = "recent" /\ grants'[u] = granted[u] /\ known' = known
          /\ KnownCharged(u)' = KnownCharged(u) /\ remaining' = remaining
          /\ at[u] = "granted"
      BY <2>3 DEF PageTypeOK, HomeGranted, KnownCharged
    <3> QED
      BY <3>1 DEF PageKnows
  <2>4. CASE HomeRecent(u)
    <3>1. /\ at'[u] = "shown" /\ grants' = grants /\ known' = known
          /\ remaining' = remaining /\ at[u] = "recent"
          /\ recent'[u] \subseteq RowsOf(u)
      BY <2>4 DEF PageTypeOK, HomeRecent
    <3>2. ListedAsCharged(u)' \subseteq KnownCharged(u)
      BY <3>1 DEF ListedAsCharged, KnownCharged, RowsOf, DeductsQuota
    <3>3. /\ CostOf(ListedAsCharged(u)') <= CostOf(KnownCharged(u))
          /\ CostOf(ListedAsCharged(u)') \in Nat /\ CostOf(KnownCharged(u)) \in Nat
          /\ remaining[u] \in Int /\ grants[u] \in Nat
      BY <3>2, CostOfMonotone, CostOfType DEF PageTypeOK
    <3>4. /\ 0 <= remaining[u]
          /\ remaining[u] + CostOf(KnownCharged(u)) <= grants[u]
          /\ known[u] \subseteq {j \in Jobs : Owner[j] = u /\ told[j] = "stored"}
      BY <3>1 DEF PageKnows
    <3>5. remaining[u] + CostOf(ListedAsCharged(u)') <= grants[u]
      BY <3>3, <3>4, SMT
    <3> QED
      BY <3>1, <3>4, <3>5
  <2> QED
    BY <2>1, <2>2, <2>3, <2>4 DEF Pages
<1>6. PageKnows'
  BY <1>4, <1>5 DEF PageKnows
<1> QED
  BY <1>2, <1>3, <1>6

LEMMA HomeInvariance == HomeSpec => []HInv
<1>1. HInv /\ [HomeNext]_allVars => HInv'
  <2> SUFFICES ASSUME HInv, [HomeNext]_allVars PROVE HInv'
    OBVIOUS
  <2>1. CASE [Next]_vars /\ UNCHANGED pageVars
    BY <2>1, StoreStep
  <2>2. CASE \E u \in Users : Pages(u)
    BY <2>2, PageStep
  <2> QED
    BY <2>1, <2>2 DEF HomeNext, allVars
<1> QED
  BY <1>1, InitHInv, PTL DEF HomeSpec

-----------------------------------------------------------------------------
(* The theorems.                                                            *)

(* What a page lists are jobs with a state, and its numbers are integers.   *)
THEOREM PageTypeCorrect == HomeSpec => []PageTypeOK
BY HomeInvariance, PTL DEF HInv

(* However transactions, updates and grants run between the reads, the page *)
(* never shows a negative remainder or more than was granted, and what it   *)
(* lists as charged, and was charged before it was asked for, is paid for   *)
(* in its numbers.                                                          *)
THEOREM PageStaysConsistent == HomeSpec => []PageIsConsistent
<1>1. HInv => BarIsInRange
  <2> SUFFICES ASSUME HInv, NEW u \in Users, at[u] \in {"recent", "shown"}
               PROVE  0 <= remaining[u] /\ remaining[u] <= grants[u]
    BY DEF BarIsInRange
  <2>1. /\ remaining[u] \in Int /\ grants[u] \in Nat
        /\ CostOf(KnownCharged(u)) \in Nat /\ CostOf(ListedAsCharged(u)) \in Nat
    BY CostOfType DEF HInv, PageTypeOK
  <2> QED
    BY <2>1, SMT DEF HInv, PageKnows
<1>2. HInv => ListedJobsAreCounted
  <2> SUFFICES ASSUME HInv, NEW u \in Users, at[u] = "shown"
               PROVE  CostOf(ListedAsCharged(u)) <= grants[u] - remaining[u]
    BY DEF ListedJobsAreCounted
  <2>1. /\ remaining[u] \in Int /\ grants[u] \in Nat
        /\ CostOf(ListedAsCharged(u)) \in Nat
    BY CostOfType DEF HInv, PageTypeOK
  <2> QED
    BY <2>1, SMT DEF HInv, PageKnows
<1> QED
  BY <1>1, <1>2, HomeInvariance, PTL DEF PageIsConsistent

=============================================================================
