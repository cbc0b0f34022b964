----------------------------- MODULE CheckQuota -----------------------------
(***************************************************************************)
(* CheckQuotaAndStore, statement by statement (internal/postgres/          *)
(* job_store.go): concurrent transactions that lock the user's row, read   *)
(* the remaining quota, insert the job and commit, while other statements  *)
(* move committed jobs along and logins add grants.                        *)
(*                                                                         *)
(* A transaction's own statements see what is committed when they start    *)
(* (READ COMMITTED), and its insert is seen by others when it commits.  A  *)
(* transaction whose client has lost its connection keeps its lock until   *)
(* the server notices; if COMMIT was already sent, it may still commit.    *)
(***************************************************************************)
EXTENDS Accounts, JobStates

CONSTANTS
    NoSession,      \* nobody holds the row lock
    GrantAmounts,   \* the amounts EnsureGrant may insert
    MaxGranted      \* bound: the sum of one user's grants

ASSUME NoSessionAssumption == NoSession \notin Jobs
ASSUME GrantsAssumption == GrantAmounts \subseteq Nat /\ MaxGranted \in Nat

VARIABLES
    row,        \* row[j]: the committed state column of the job of session j
    granted,    \* granted[u]: the committed sum of u's grants
    lock,       \* lock[u]: the session that holds u's row FOR UPDATE
    pc,         \* the next statement of session j
    rem,        \* remaining, as session j read it
    verdict,    \* the state it is inserting, NoRow before it has read
    told        \* what CheckQuotaAndStore returned to session j

vars == <<row, granted, lock, pc, rem, verdict, told>>

\* The client is at a statement; or it is gone, and the server will abort
\* (orphan), or will commit or abort (limbo).
Points  == {"idle", "lock", "read", "insert", "commit", "orphan", "limbo", "done"}
Results == {"none", "stored", "insufficient", "error"}

\* The points at which a session's transaction holds the lock.
Holding(j) == pc[j] \in {"read", "insert", "commit", "orphan", "limbo"}

Charged == {j \in Jobs : DeductsQuota(row[j])}

Remaining(u) == granted[u] - Spent(Charged, u)

Init ==
    /\ row = [j \in Jobs |-> NoRow]
    /\ granted = [u \in Users |-> 0]
    /\ lock = [u \in Users |-> NoSession]
    /\ pc = [j \in Jobs |-> "idle"]
    /\ rem = [j \in Jobs |-> 0]
    /\ verdict = [j \in Jobs |-> NoRow]
    /\ told = [j \in Jobs |-> "none"]

-----------------------------------------------------------------------------
(* The transaction of session j.                                            *)

GoTo(j, point) == pc' = [pc EXCEPT ![j] = point]
Return(j, result) == told' = [told EXCEPT ![j] = result]
Unlock(j) == lock' = [lock EXCEPT ![Owner[j]] = NoSession]

\* BEGIN; SET LOCAL lock_timeout.
Begin(j) ==
    /\ pc[j] = "idle"
    /\ GoTo(j, "lock")
    /\ UNCHANGED <<row, granted, lock, rem, verdict, told>>

\* Mutant: the row is read without FOR UPDATE.
LockUserShared(j) ==
    /\ pc[j] = "lock"
    /\ lock' = [lock EXCEPT ![Owner[j]] = j]
    /\ GoTo(j, "read")
    /\ UNCHANGED <<row, granted, rem, verdict, told>>

\* SELECT id FROM app_user WHERE id = $1 FOR UPDATE.
LockUser(j) ==
    /\ pc[j] = "lock"
    /\ lock[Owner[j]] = NoSession
    /\ lock' = [lock EXCEPT ![Owner[j]] = j]
    /\ GoTo(j, "read")
    /\ UNCHANGED <<row, granted, rem, verdict, told>>

\* Mutant: no lock_timeout.
LockWaitsForever(j) ==
    /\ pc[j] = "lock" /\ FALSE
    /\ UNCHANGED vars

\* The lock was not granted within 5 s.
LockTimesOut(j) ==
    /\ pc[j] = "lock"
    /\ lock[Owner[j]] # NoSession
    /\ GoTo(j, "done")
    /\ Return(j, "error")
    /\ UNCHANGED <<row, granted, lock, rem, verdict>>

\* Mutant: whoever has exactly enough is refused.
ReadRefusesExact(j) ==
    /\ pc[j] = "read"
    /\ rem' = [rem EXCEPT ![j] = Remaining(Owner[j])]
    /\ verdict' = [verdict EXCEPT ![j] =
          IF Remaining(Owner[j]) <= Cost[j] THEN QuotaInsufficient ELSE QuotaDeducted]
    /\ GoTo(j, "insert")
    /\ UNCHANGED <<row, granted, lock, told>>

ReadRemaining(j) ==
    /\ pc[j] = "read"
    /\ rem' = [rem EXCEPT ![j] = Remaining(Owner[j])]
    /\ verdict' = [verdict EXCEPT ![j] =
          IF Remaining(Owner[j]) < Cost[j] THEN QuotaInsufficient ELSE QuotaDeducted]
    /\ GoTo(j, "insert")
    /\ UNCHANGED <<row, granted, lock, told>>

Insert(j) ==
    /\ pc[j] = "insert"
    /\ GoTo(j, "commit")
    /\ UNCHANGED <<row, granted, lock, rem, verdict, told>>

\* Mutant: the insufficient verdict is stored but not returned.
CommitForgetsVerdict(j) ==
    /\ pc[j] = "commit"
    /\ row' = [row EXCEPT ![j] = verdict[j]]
    /\ Unlock(j)
    /\ GoTo(j, "done")
    /\ Return(j, "stored")
    /\ UNCHANGED <<granted, rem, verdict>>

Commit(j) ==
    /\ pc[j] = "commit"
    /\ row' = [row EXCEPT ![j] = verdict[j]]
    /\ Unlock(j)
    /\ GoTo(j, "done")
    /\ Return(j, IF verdict[j] = QuotaInsufficient THEN "insufficient" ELSE "stored")
    /\ UNCHANGED <<granted, rem, verdict>>

\* A statement fails - no such user, a violated constraint, a server error -
\* and the deferred Rollback ends the transaction.
StatementFails(j) ==
    /\ pc[j] \in {"lock", "read", "insert"}
    /\ GoTo(j, "done")
    /\ Return(j, "error")
    /\ IF Holding(j) THEN Unlock(j) ELSE UNCHANGED lock
    /\ UNCHANGED <<row, granted, rem, verdict>>

\* The connection, or the process, is lost: the client gets an error, the
\* rollback does not reach the server, but a COMMIT may have.
ConnectionLost(j) ==
    /\ \/ pc[j] = "lock"              /\ GoTo(j, "done")
       \/ pc[j] \in {"read", "insert"} /\ GoTo(j, "orphan")
       \/ pc[j] = "commit"            /\ GoTo(j, "limbo")
    /\ Return(j, "error")
    /\ UNCHANGED <<row, granted, lock, rem, verdict>>

\* The server ends a transaction whose client is gone.
ServerAborts(j) ==
    /\ pc[j] \in {"orphan", "limbo"}
    /\ Unlock(j)
    /\ GoTo(j, "done")
    /\ UNCHANGED <<row, granted, rem, verdict, told>>

ServerCommits(j) ==
    /\ pc[j] = "limbo"
    /\ row' = [row EXCEPT ![j] = verdict[j]]
    /\ Unlock(j)
    /\ GoTo(j, "done")
    /\ UNCHANGED <<granted, rem, verdict, told>>

-----------------------------------------------------------------------------
(* The other statements that touch what the transaction reads.              *)

\* Mutant: a failed job can be revived, and counts again.
UpdateRevives(j, to) ==
    /\ \/ ValidTransition(row[j], to) /\ to # Refunded
       \/ row[j] = PrintFailed /\ to = PrintSent
    /\ row' = [row EXCEPT ![j] = to]
    /\ UNCHANGED <<granted, lock, pc, rem, verdict, told>>

\* MarkSent and UpdateJobState, by the job's handler or by the sweeper, do
\* not take the user's lock.  Nothing calls UpdateJobState with Refunded.
UpdateJobState(j, to) ==
    /\ ValidTransition(row[j], to) /\ to # Refunded
    /\ row' = [row EXCEPT ![j] = to]
    /\ UNCHANGED <<granted, lock, pc, rem, verdict, told>>

\* The foreign key check of an inserted grant takes app_user's row FOR KEY
\* SHARE, which waits for a FOR UPDATE lock.
EnsureGrant(u, amount) ==
    /\ lock[u] = NoSession
    /\ granted[u] + amount <= MaxGranted
    /\ granted' = [granted EXCEPT ![u] = @ + amount]
    /\ UNCHANGED <<row, lock, pc, rem, verdict, told>>

Session(j) ==
    \/ Begin(j) \/ LockUser(j) \/ LockTimesOut(j) \/ ReadRemaining(j)
    \/ Insert(j) \/ Commit(j) \/ StatementFails(j) \/ ConnectionLost(j)

Server(j) == ServerAborts(j) \/ ServerCommits(j)

\* Every session of the instance is over.
Quiescent == (\A j \in Jobs : pc[j] = "done") /\ UNCHANGED vars

Next ==
    \/ \E j \in Jobs : Session(j) \/ Server(j)
    \/ \E j \in Jobs, to \in allStates : UpdateJobState(j, to)
    \/ \E u \in Users, amount \in GrantAmounts : EnsureGrant(u, amount)
    \/ Quiescent

Spec == Init /\ [][Next]_vars

(* A client that has begun goes on to its next statement, and a wait for    *)
(* the lock ends by lock_timeout.  No failure is assumed to happen, and     *)
(* nothing is assumed of the server noticing a lost client, which may take  *)
(* hours.                                                                   *)
Progress(j) ==
    LockUser(j) \/ LockTimesOut(j) \/ ReadRemaining(j) \/ Insert(j) \/ Commit(j)

FairSpec == Spec /\ \A j \in Jobs : WF_vars(Progress(j))

-----------------------------------------------------------------------------
TypeOK ==
    /\ row \in [Jobs -> allStates \cup {NoRow}]
    /\ granted \in [Users -> Nat]
    /\ lock \in [Users -> Jobs \cup {NoSession}]
    /\ pc \in [Jobs -> Points]
    /\ rem \in [Jobs -> Int]
    /\ verdict \in [Jobs -> {NoRow, QuotaInsufficient, QuotaDeducted}]
    /\ told \in [Jobs -> Results]

(* The promise of the comment on CheckQuotaAndStore, "read verify and       *)
(* update atomically": however transactions, releases and grants            *)
(* interleave, nobody has more deducted than granted.                       *)
NoOverspend == \A u \in Users : Spent(Charged, u) <= granted[u]

(* What a session read can become too low, never too high, before it        *)
(* commits: grants wait for its lock, and concurrent updates only release.  *)
ReadStaysAffordable ==
    \A j \in Jobs :
        pc[j] \in {"insert", "commit", "limbo"} => rem[j] <= Remaining(Owner[j])

(* The lock belongs to the one transaction that is between its SELECT ...   *)
(* FOR UPDATE and its end, and is not kept by one that has ended.           *)
LockIsExclusive ==
    \A u \in Users, j \in Jobs : lock[u] = j <=> (Owner[j] = u /\ Holding(j))

(* What Submit is told is what is in the table: a job that goes on to       *)
(* delivery has a row that was deducted, one that is refused has its row,   *)
(* and no row is written for a session still running.                       *)
ResultMatchesRow ==
    \A j \in Jobs :
        /\ told[j] = "stored" => row[j] \notin {NoRow, QuotaInsufficient}
        /\ told[j] = "insufficient" => row[j] = QuotaInsufficient
        /\ told[j] = "none" => row[j] = NoRow

(* A session that has begun gets its result, even behind a lock that is     *)
(* never released.                                                          *)
EveryCallReturns == \A j \in Jobs : pc[j] = "lock" ~> told[j] # "none"

-----------------------------------------------------------------------------
(* The transaction takes its effect in the ledger when it reads, if it is   *)
(* refused, and when it commits, if it is charged.                          *)

Ledger == INSTANCE QuotaLedger WITH
    charged  <- Charged,
    released <- {j \in Jobs : row[j] \in {PrintFailed, Refunded}},
    refused  <- {j \in Jobs : verdict[j] = QuotaInsufficient}

(* The transactions implement the ledger: each is charged only if, at its   *)
(* commit, the user can pay, and refused only if, at its read, the user     *)
(* could not.                                                               *)
ImplementsLedger == Ledger!Spec

=============================================================================
