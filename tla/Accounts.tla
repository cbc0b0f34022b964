------------------------------ MODULE Accounts ------------------------------
(***************************************************************************)
(* The print jobs of one instance, who submits each, what each costs, and  *)
(* the sum of costs that the store subtracts from a user's grants.         *)
(* Request number j of the instance creates at most one row of table job;  *)
(* requests are numbered in the order in which their storing transaction   *)
(* begins, which is the order of their submitted_at (now() of that         *)
(* transaction), so that a smaller number is an older row.                 *)
(***************************************************************************)
EXTENDS Integers

CONSTANTS
    N,          \* number of submit requests of the instance
    Users,      \* usernames
    Owner,      \* Owner[j]: the session's user who submits request j
    Cost        \* Cost[j]: Rates.Cost(pages, colorPages) * copies of request j

Jobs == 1..N

ASSUME NAssumption == N \in Nat
ASSUME OwnerAssumption == Owner \in [Jobs -> Users]
ASSUME CostAssumption == Cost \in [Jobs -> Nat]

-----------------------------------------------------------------------------
(* SELECT SUM(j.cost) over a set of rows, accumulated row by row.           *)

CostUpTo(S) ==
    LET sum[n \in 0..N] ==
            IF n = 0 THEN 0
                     ELSE sum[n - 1] + (IF n \in S THEN Cost[n] ELSE 0)
    IN  sum

CostOf(S) == CostUpTo(S)[N]

JobsOf(S, u) == {j \in S : Owner[j] = u}

\* What user u has spent when exactly the jobs in charged deduct quota.
Spent(charged, u) == CostOf(JobsOf(charged, u))

=============================================================================
