----------------------------- MODULE SweepTiming ----------------------------
(***************************************************************************)
(* When the sweeper may take a job for stuck (cmd/piping/main.go,          *)
(* app/sweep.go): one request, timed statement by statement from the BEGIN *)
(* that gives its row submitted_at, and the passes of the sweeper.         *)
(*                                                                         *)
(* Delivery only assumes that rows get old after their handlers are done.  *)
(* Here a clock decides it.  Other requests show as the wait for the lock  *)
(* and as the time of a pass.  A process that dies is started again at     *)
(* once.                                                                   *)
(***************************************************************************)
EXTENDS JobStates, Integers

CONSTANTS
    SendTimeout,    \* SEND_TIMEOUT
    AgeBound,       \* SWEEP_AGE_BOUND
    Interval,       \* SWEEP_INTERVAL
    RetryWait,      \* the pause between attempts
    LockTimeout,    \* lock_timeout of CheckQuotaAndStore
    StatementTime,  \* bound: a statement, from call to call, without a lock
    PassTime,       \* bound: a pass of the sweeper
    Behind,         \* the server's clock minus the database's
    MaxTime,        \* bound on now
    MaxFaults       \* bound: failed statements and restarts

ASSUME DurationsAssumption ==
    /\ SendTimeout \in Nat /\ AgeBound \in Nat /\ Interval \in Nat \ {0}
    /\ RetryWait \in Nat /\ LockTimeout \in Nat /\ StatementTime \in Nat
    /\ PassTime \in Nat /\ Behind \in Int /\ MaxTime \in Nat /\ MaxFaults \in Nat

VARIABLES
    now,        \* the server's clock
    row,        \* state column
    born,       \* when the row's transaction began
    pc,         \* what the handler is waiting for
    due,        \* when that will have ended
    sendDue,    \* the deadline of sendCtx
    sw,         \* what the sweeper is waiting for
    tick,       \* its ticker's next tick
    began,      \* when its pass began
    seen,       \* the state in which the pass found the row, if it did
    lost,       \* history: time that failed passes have cost
    faults

handlerVars == <<born, pc, due, sendDue>>
sweeperVars == <<sw, tick, began, seen>>
vars == <<now, row, born, pc, due, sendDue, sw, tick, began, seen, lost, faults>>

Open == {QuotaDeducted, PrintSent}

Init ==
    /\ now = 0 /\ row = NoRow /\ born = 0
    /\ pc = "idle" /\ due = 0 /\ sendDue = 0
    /\ sw = "wait" /\ tick = 0 /\ began = 0 /\ seen = NoRow
    /\ lost = 0 /\ faults = 0

-----------------------------------------------------------------------------
(* The handler.                                                             *)

\* CheckQuotaAndStore, pickDestination and MarkSent, statement by statement.
Following == [begin |-> "set", set |-> "lock", lock |-> "read",
              read |-> "insert", insert |-> "commit", commit |-> "dests",
              dests |-> "policy", policy |-> "mark"]

Transaction == {"begin", "set", "lock", "read", "insert", "commit"}
Sending == {"send", "spooled", "wait"}
Resolving == {"undo", "confirm", "giveUp"}
Active == Transaction \cup {"dests", "policy", "mark"} \cup Sending \cup Resolving

\* How long the statement at a point may take.
Allowed(point) == IF point = "lock" THEN LockTimeout + StatementTime ELSE StatementTime

GoOn(point) == pc' = point /\ due' = now + Allowed(point)

Done == pc' = "done" /\ due' = due

\* BEGIN reaches the server: now() of everything that follows.
Submit ==
    /\ pc = "idle"
    /\ born' = now
    /\ GoOn("begin")
    /\ UNCHANGED <<now, row, sendDue, sweeperVars, lost, faults>>

\* A statement returns and the next one is sent.
Advance ==
    /\ pc \in DOMAIN Following
    /\ row' = IF pc = "commit" THEN QuotaDeducted ELSE row
    /\ GoOn(Following[pc])
    /\ UNCHANGED <<now, born, sendDue, sweeperVars, lost, faults>>

\* Mutant: the deadline counts from the attempt.
RetryFresh ==
    /\ pc = "wait" /\ now = due
    /\ pc' = "send" /\ due' = now + SendTimeout
    /\ sendDue' = now + SendTimeout
    /\ UNCHANGED <<now, row, born, sweeperVars, lost, faults>>

\* The pause ends before the deadline, which is still the first one.
Retry ==
    /\ pc = "wait" /\ now = due
    /\ pc' = "send" /\ due' = sendDue
    /\ UNCHANGED <<now, row, born, sendDue, sweeperVars, lost, faults>>

\* The row is marked; or it was resolved before, and nothing is sent.
MarkSent ==
    /\ pc = "mark"
    /\ IF row = QuotaDeducted
       THEN /\ row' = PrintSent /\ pc' = "send"
            /\ due' = now + SendTimeout /\ sendDue' = now + SendTimeout
       ELSE UNCHANGED <<row, sendDue>> /\ Done
    /\ UNCHANGED <<now, born, sweeperVars, lost, faults>>

\* smbclient hands the document to the printer.
Spool ==
    /\ pc = "send" /\ now <= sendDue
    /\ pc' = "spooled"
    /\ UNCHANGED <<now, row, born, due, sendDue, sweeperVars, lost, faults>>

SendOk ==
    /\ pc = "spooled"
    /\ GoOn("confirm")
    /\ UNCHANGED <<now, row, born, sendDue, sweeperVars, lost, faults>>

\* An attempt fails; it was the last one, or there will be another.
SendFails ==
    /\ pc \in {"send", "spooled"}
    /\ \/ GoOn("giveUp")
       \/ pc' = "wait" /\ due' = now + RetryWait
    /\ UNCHANGED <<now, row, born, sendDue, sweeperVars, lost, faults>>

SendTimesOut ==
    /\ pc \in Sending /\ now = sendDue
    /\ GoOn("giveUp")
    /\ UNCHANGED <<now, row, born, sendDue, sweeperVars, lost, faults>>

\* What the handler's UPDATE makes of the row.
Resolved ==
    IF pc = "undo" /\ row = QuotaDeducted THEN PrintFailed
    ELSE IF pc = "confirm" /\ row = PrintSent THEN PrintSucceeded
    ELSE IF pc = "giveUp" /\ row = PrintSent THEN PrintFailed
    ELSE row

Resolve ==
    /\ pc \in Resolving
    /\ row' = Resolved
    /\ Done
    /\ UNCHANGED <<now, born, sendDue, sweeperVars, lost, faults>>

\* What the statement at pc may have done to the row if its answer is lost.
Outcomes ==
    {row} \cup (IF pc = "commit" THEN {QuotaDeducted}
                ELSE IF pc = "mark" /\ row = QuotaDeducted THEN {PrintSent}
                ELSE {Resolved})

StatementFails ==
    /\ faults < MaxFaults /\ faults' = faults + 1
    /\ \/ pc \in Transaction \cup {"mark"} \cup Resolving /\ row' \in Outcomes /\ Done
       \/ pc \in {"dests", "policy"} /\ row' = row /\ GoOn("undo")
    /\ UNCHANGED <<now, born, sendDue, sweeperVars, lost>>

-----------------------------------------------------------------------------
(* The sweeper.                                                             *)

PassBegins ==
    /\ sw = "wait" /\ now = tick
    /\ sw' = "select" /\ began' = now
    /\ UNCHANGED <<now, row, handlerVars, tick, seen, lost, faults>>

\* Mutant: the handler keeps what it has marked.
StaleUnsent == row = QuotaDeducted /\ born - Behind < began - AgeBound

\* submitted_at, of the database's clock, against the cutoff, of the server's.
Stale == row \in Open /\ born - Behind < began - AgeBound

StaleJobs ==
    /\ sw = "select"
    /\ sw' = "update"
    /\ seen' = IF Stale THEN row ELSE NoRow
    /\ UNCHANGED <<now, row, handlerVars, tick, began, lost, faults>>

\* A tick that came during the pass is there at once.
PassEnds ==
    /\ sw' = "wait" /\ seen' = NoRow
    /\ tick' \in now .. now + Interval

SweepJob ==
    /\ sw = "update"
    /\ row' = IF row = seen /\ seen # NoRow THEN PrintFailed ELSE row
    /\ PassEnds
    /\ UNCHANGED <<now, handlerVars, began, lost, faults>>

\* The query fails, or the update does, executed or not.
PassFails ==
    /\ sw \in {"select", "update"}
    /\ faults < MaxFaults /\ faults' = faults + 1
    /\ row' \in {row} \cup (IF row = seen /\ seen # NoRow THEN {PrintFailed} ELSE {})
    /\ PassEnds
    /\ lost' = lost + PassTime + Interval
    /\ UNCHANGED <<now, handlerVars, began>>

-----------------------------------------------------------------------------
(* The process and the clock.                                               *)

\* The process dies and is started again; its first pass begins at once.
Restart ==
    /\ faults < MaxFaults /\ faults' = faults + 1
    /\ IF pc \in Active THEN row' \in Outcomes /\ Done ELSE UNCHANGED <<row, pc, due>>
    /\ sw' = "wait" /\ seen' = NoRow /\ tick' = now
    /\ lost' = lost + PassTime
    /\ UNCHANGED <<now, born, sendDue, began>>

\* Nothing outlasts what it may take, and no tick is missed.
Tick ==
    /\ now < MaxTime
    /\ pc \in Active => now < due
    /\ pc \in Sending => now < sendDue
    /\ IF sw = "wait" THEN now < tick ELSE now < began + PassTime
    /\ now' = now + 1
    /\ UNCHANGED <<row, handlerVars, sweeperVars, lost, faults>>

Handler ==
    \/ Submit \/ Advance \/ MarkSent \/ Spool \/ SendOk \/ SendFails
    \/ Retry \/ SendTimesOut \/ Resolve \/ StatementFails

Sweeper == PassBegins \/ StaleJobs \/ SweepJob \/ PassFails

\* The instance ends with its clock.
End == now = MaxTime /\ UNCHANGED vars

Next == Handler \/ Sweeper \/ Restart \/ Tick \/ End

Spec == Init /\ [][Next]_vars

-----------------------------------------------------------------------------
TypeOK ==
    /\ now \in 0..MaxTime /\ born \in 0..MaxTime /\ began \in 0..MaxTime
    /\ row \in {NoRow, QuotaDeducted, PrintSent, PrintSucceeded, PrintFailed}
    /\ pc \in Active \cup {"idle", "done"}
    /\ due \in Nat /\ sendDue \in Nat /\ tick \in Nat /\ lost \in Nat
    /\ sw \in {"wait", "select", "update"}
    /\ seen \in Open \cup {NoRow}
    /\ faults \in 0..MaxFaults

(* The age bound is ample if it covers the nine statements from BEGIN to    *)
(* MarkSent, the wait for the lock, the send and the skew of the clocks.    *)
(* The guard of main.go:152 only asks for AgeBound > SendTimeout.           *)
Ample == AgeBound >= 9 * StatementTime + LockTimeout + SendTimeout + Behind

(* With an ample age bound the handler hands nothing to the printer once    *)
(* its job is resolved, however often it retries.                           *)
NoPrintAfterResolution ==
    [][pc # "spooled" /\ pc' = "spooled" => row = PrintSent]_vars

(* With an ample age bound, and unless SWEEP_BATCH older rows are stuck,    *)
(* the quota of a job that its handler left open is back after the age      *)
(* bound, an interval and two passes, plus what failed passes have cost.    *)
QuotaBackInTime ==
    row \in Open =>
        now <= born - Behind + AgeBound + Interval + 2 * PassTime + lost

=============================================================================
