-------------------------------- MODULE Pool --------------------------------
(***************************************************************************)
(* Who waits for whom at the database (internal/postgres): a call waits    *)
(* for one of the pool's connections, and then for the lock of the user's  *)
(* row, while it keeps the connection.  CheckQuotaAndStore waits for the   *)
(* lock for at most five seconds, EnsureGrant, whose foreign key needs the *)
(* row too, without a limit, and /readyz gives up after two.               *)
(*                                                                         *)
(* A transaction whose client has lost its connection keeps the lock until *)
(* the server ends it; its place in the pool is free at once.              *)
(***************************************************************************)
EXTENDS Integers, FiniteSets

CONSTANTS
    Calls,      \* calls of the store
    Kind,       \* Kind[c]: "submit", "grant", "update" or "ping"
    UserOf,     \* UserOf[c]: whose row it is about
    MaxConns,   \* pool_max_conns
    NoCall      \* nobody holds the lock

Kinds == {"submit", "grant", "update", "ping"}

ASSUME CallsAssumption ==
    /\ IsFiniteSet(Calls) /\ NoCall \notin Calls
    /\ \A c \in Calls : Kind[c] \in Kinds
    /\ MaxConns \in Nat \ {0}

VARIABLES
    pc,         \* what call c waits for, or does
    lock        \* lock[u]: the call whose transaction has u's row FOR UPDATE

poolVars == <<pc, lock>>

LockUsers == {UserOf[c] : c \in Calls}

PoolInit ==
    /\ pc = [c \in Calls |-> "idle"]
    /\ lock = [u \in LockUsers |-> NoCall]

\* The calls that have a connection.
InUse == {c \in Calls : pc[c] \in {"lock", "read", "commit", "key", "statement"}}

Free == Cardinality(InUse) < MaxConns

LockIsFree(c) == lock[UserOf[c]] = NoCall
CallGoes(c, point) == pc' = [pc EXCEPT ![c] = point]
Locks(c, holder) == lock' = [lock EXCEPT ![UserOf[c]] = holder]

-----------------------------------------------------------------------------
Call(c) ==
    /\ pc[c] = "idle"
    /\ CallGoes(c, "acquire")
    /\ UNCHANGED lock

\* The first statement of a call.
FirstPoint(c) ==
    CASE Kind[c] = "submit" -> "lock"
      [] Kind[c] = "grant"  -> "key"
      [] Kind[c] \in {"update", "ping"} -> "statement"

\* Mutant: the transaction calls RemainingQuota, which takes a connection.
NeedsAnotherToRead(c) == pc[c] \in {"acquire", "read"}

\* Who needs a connection of the pool to go on.  Later statements of a call
\* are sent on the connection it has.
NeedsConn(c) == pc[c] = "acquire"

MaySend(c) == NeedsConn(c) => Free

\* Mutant: every call dials a connection of its own.
AcquireDials(c) ==
    /\ pc[c] = "acquire"
    /\ CallGoes(c, FirstPoint(c))
    /\ UNCHANGED lock

Acquire(c) ==
    /\ pc[c] = "acquire" /\ MaySend(c)
    /\ CallGoes(c, FirstPoint(c))
    /\ UNCHANGED lock

\* SELECT ... FOR UPDATE.
LockUser(c) ==
    /\ pc[c] = "lock" /\ LockIsFree(c)
    /\ Locks(c, c)
    /\ CallGoes(c, "read")

LockTimesOut(c) ==
    /\ pc[c] = "lock" /\ ~ LockIsFree(c)
    /\ CallGoes(c, "error")
    /\ UNCHANGED lock

\* The remaining quota is read, and the job inserted, on the transaction's
\* own connection.
ReadInTransaction(c) ==
    /\ pc[c] = "read" /\ MaySend(c)
    /\ CallGoes(c, "commit")
    /\ UNCHANGED lock

Commit(c) ==
    /\ pc[c] = "commit"
    /\ Locks(c, NoCall)
    /\ CallGoes(c, "ok")

\* The deferred Rollback gives back the lock and the connection.
TransactionFails(c) ==
    /\ pc[c] \in {"read", "commit"}
    /\ Locks(c, NoCall)
    /\ CallGoes(c, "error")

\* The foreign key's check.
EnsureGrant(c) ==
    /\ pc[c] = "key" /\ LockIsFree(c)
    /\ CallGoes(c, "ok")
    /\ UNCHANGED lock

\* UpdateJobState, MarkSent, StaleJobs, a dashboard's query, or a ping.
StatementEnds(c) ==
    /\ pc[c] = "statement"
    /\ \E result \in {"ok", "error"} : CallGoes(c, result)
    /\ UNCHANGED lock

\* Mutant: handleReady passes on the request's context.
PingWaits(c) ==
    /\ pc[c] = "acquire" /\ FALSE
    /\ UNCHANGED poolVars

PingTimesOut(c) ==
    /\ Kind[c] = "ping" /\ pc[c] \in {"acquire", "statement"}
    /\ CallGoes(c, "error")
    /\ UNCHANGED lock

ConnectionLost(c) ==
    /\ c \in InUse
    /\ CallGoes(c, "error")
    /\ UNCHANGED lock

\* The server notices that a transaction's client is gone.
ServerAborts(c) ==
    /\ pc[c] = "error" /\ lock[UserOf[c]] = c
    /\ Locks(c, NoCall)
    /\ UNCHANGED pc

Progress(c) ==
    \/ Acquire(c) \/ LockUser(c) \/ LockTimesOut(c) \/ ReadInTransaction(c)
    \/ Commit(c) \/ EnsureGrant(c) \/ StatementEnds(c)

Finished == (\A c \in Calls : pc[c] \in {"ok", "error"}) /\ UNCHANGED poolVars

PoolNext ==
    \/ \E c \in Calls :
          \/ Call(c) \/ Progress(c) \/ TransactionFails(c) \/ PingTimesOut(c)
          \/ ConnectionLost(c) \/ ServerAborts(c)
    \/ Finished

PoolSpec == PoolInit /\ [][PoolNext]_poolVars

(* Statements end, and waits end that can: the pool serves its queue in     *)
(* order, lock_timeout and the ping's timeout fire.                         *)
PoolFairSpec ==
    /\ PoolSpec
    /\ \A c \in Calls : WF_poolVars(Progress(c)) /\ WF_poolVars(PingTimesOut(c))

-----------------------------------------------------------------------------
(* The pool's bound is part of the type: no more connections than allowed.  *)
PoolTypeOK ==
    /\ pc \in [Calls -> {"idle", "acquire", "lock", "read", "commit", "key",
                         "statement", "ok", "error"}]
    /\ lock \in [LockUsers -> Calls \cup {NoCall}]
    /\ Cardinality(InUse) <= MaxConns

\* Every call of the set waits, and only for calls of the set: for the one that
\* holds the lock, or for any of those that have the connections.
Stuck(waiting) ==
    \A c \in waiting :
        \/ pc[c] \in {"lock", "key"} /\ lock[UserOf[c]] \in waiting
        \/ NeedsConn(c) /\ ~ Free /\ InUse \subseteq waiting

(* No calls wait for each other and for nobody else, so that only a timeout *)
(* or a lost connection could end it: whoever holds a lock has what he      *)
(* needs to give it back (CheckQuotaAndStore stays on one connection).      *)
NoCircularWait == \A waiting \in SUBSET Calls : waiting # {} => ~ Stuck(waiting)

(* Calls that wait for connections, and calls that wait for locks, do not   *)
(* wait for each other: who holds a lock needs nothing more of the pool     *)
(* (CheckQuotaAndStore stays on its transaction's connection).  This needs  *)
(* a server that ends the transactions of lost clients, as with             *)
(* tcp_keepalives it does.                                                  *)
EveryCallReturns ==
    (\A c \in Calls : WF_poolVars(ServerAborts(c))) =>
        \A c \in Calls : pc[c] = "acquire" ~> pc[c] \in {"ok", "error"}

(* /readyz answers even without that, when grants that wait for an          *)
(* abandoned lock have taken every connection for good.                     *)
ReadyAnswers ==
    \A c \in Calls : Kind[c] = "ping" =>
        (pc[c] = "acquire" ~> pc[c] \in {"ok", "error"})

=============================================================================
