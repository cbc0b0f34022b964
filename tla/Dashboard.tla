------------------------------ MODULE Dashboard -----------------------------
(***************************************************************************)
(* What the home page says about the quota while it changes                *)
(* (web/handlers.go handleHome, postgres/quota_store.go, user_store.go).   *)
(*                                                                         *)
(* handleHome reads the remaining quota, the granted quota and the recent  *)
(* jobs in statements of their own, each of which sees what is committed   *)
(* at that moment.  In between run the transactions, updates and grants of *)
(* CheckQuota.                                                             *)
(***************************************************************************)
EXTENDS CheckQuota

VARIABLES
    at,             \* at[u]: the next read of u's home page
    remaining,      \* remaining[u]: what the page will say is left
    grants,         \* grants[u]: ... was granted
    recent,         \* recent[u]: the jobs it lists: <<job, state>>
    known           \* history: the jobs u knew to be charged when asking

pageVars == <<at, remaining, grants, recent, known>>
allVars == <<vars, pageVars>>

HomeInit ==
    /\ Init
    /\ at = [u \in Users |-> "idle"]
    /\ remaining = [u \in Users |-> 0]
    /\ grants = [u \in Users |-> 0]
    /\ recent = [u \in Users |-> {}]
    /\ known = [u \in Users |-> {}]

-----------------------------------------------------------------------------
(* GET / of user u.                                                         *)

Then(u, point) == at' = [at EXCEPT ![u] = point]

\* requireSession lets the request through.
Home(u) ==
    /\ at[u] = "idle"
    /\ Then(u, "remaining")
    /\ known' = [known EXCEPT ![u] = {j \in Jobs : Owner[j] = u /\ told[j] = "stored"}]
    /\ UNCHANGED <<vars, remaining, grants, recent>>

\* Mutant: what is at the printer is not counted.
HomeRemainingForgetsSent(u) ==
    /\ at[u] = "remaining"
    /\ remaining' = [remaining EXCEPT
          ![u] = granted[u] - Spent({j \in Jobs : row[j] \in {QuotaDeducted, PrintSucceeded}}, u)]
    /\ Then(u, "granted")
    /\ UNCHANGED <<vars, grants, recent, known>>

HomeRemaining(u) ==
    /\ at[u] = "remaining"
    /\ remaining' = [remaining EXCEPT ![u] = Remaining(u)]
    /\ Then(u, "granted")
    /\ UNCHANGED <<vars, grants, recent, known>>

HomeGranted(u) ==
    /\ at[u] = "granted"
    /\ grants' = [grants EXCEPT ![u] = granted[u]]
    /\ Then(u, "recent")
    /\ UNCHANGED <<vars, remaining, recent, known>>

RowsOf(u) == {<<j, row[j]>> : j \in {i \in Jobs : Owner[i] = u /\ row[i] # NoRow}}

\* The newest five of the last day: which these are is left open.
HomeRecent(u) ==
    /\ at[u] = "recent"
    /\ \E listed \in SUBSET RowsOf(u) : recent' = [recent EXCEPT ![u] = listed]
    /\ Then(u, "shown")
    /\ UNCHANGED <<vars, remaining, grants, known>>

Blank(u) ==
    /\ Then(u, "idle")
    /\ remaining' = [remaining EXCEPT ![u] = 0]
    /\ grants' = [grants EXCEPT ![u] = 0]
    /\ recent' = [recent EXCEPT ![u] = {}]
    /\ known' = [known EXCEPT ![u] = {}]
    /\ UNCHANGED vars

\* A read fails, or the queues cannot be read: an error page.
HomeFails(u) == at[u] \in {"remaining", "granted", "recent"} /\ Blank(u)

Leave(u) == at[u] = "shown" /\ Blank(u)

Pages(u) ==
    \/ Home(u) \/ HomeRemaining(u) \/ HomeGranted(u) \/ HomeRecent(u)
    \/ HomeFails(u) \/ Leave(u)

HomeNext ==
    \/ Next /\ UNCHANGED pageVars
    \/ \E u \in Users : Pages(u)

HomeSpec == HomeInit /\ [][HomeNext]_allVars

\* Nothing is assumed of browsers; the transactions are as fair as in CheckQuota.
HomeFairSpec == HomeSpec /\ \A j \in Jobs : WF_vars(Progress(j))

-----------------------------------------------------------------------------
PageTypeOK ==
    /\ at \in [Users -> {"idle", "remaining", "granted", "recent", "shown"}]
    /\ remaining \in [Users -> Int]
    /\ grants \in [Users -> Nat]
    /\ recent \in [Users -> SUBSET (Jobs \X allStates)]
    /\ known \in [Users -> SUBSET Jobs]

(* "remaining / granted pages left" and the bar beside it are never         *)
(* negative and never over full, although the two numbers are read one      *)
(* after the other: grants are only ever added, and are read last.          *)
BarIsInRange ==
    \A u \in Users :
        at[u] \in {"recent", "shown"} => 0 <= remaining[u] /\ remaining[u] <= grants[u]

\* The jobs listed by u's page as charged which u knew of when asking.
ListedAsCharged(u) ==
    {j \in known[u] : \E s \in QuotaDeductingStates : <<j, s>> \in recent[u]}

(* The jobs that the page lists as charged are paid for in its numbers, if  *)
(* they were charged before the page was asked for: a job never goes back   *)
(* from a state that does not count to one that does.                       *)
ListedJobsAreCounted ==
    \A u \in Users :
        at[u] = "shown" => CostOf(ListedAsCharged(u)) <= grants[u] - remaining[u]

(* However many transactions, updates and grants run between its reads, the *)
(* page does not contradict itself.                                         *)
PageIsConsistent == BarIsInRange /\ ListedJobsAreCounted

=============================================================================
