------------------------------ MODULE Delivery ------------------------------
(***************************************************************************)
(* A print job from the submit request to its last state: the request      *)
(* handlers (web handleSubmit, app Submit and Deliver), the sweeper, the   *)
(* rows of table job they share, the printer behind smbclient, and the     *)
(* server process, which may stop at any moment and be started again.      *)
(*                                                                         *)
(* Every statement sent to the database is one atomic step.  A statement   *)
(* whose sender sees an error, or dies, may nevertheless have reached the  *)
(* server: it stays in inflight and is executed later, or never.           *)
(* CheckQuotaAndStore is one such step here; module CheckQuota models its  *)
(* transaction statement by statement.                                     *)
(***************************************************************************)
EXTENDS Accounts, JobStates, FiniteSets

CONSTANTS
    Grant,          \* Grant[u]: sum of u's semester grants
    Destinations,   \* the enabled destinations of the jobs' queue
    NoDest,         \* destination_id IS NULL
    MaxAttempts,    \* MAX_SEND_ATTEMPTS, after NewDeliverer's correction
    BatchLimit,     \* SWEEP_BATCH
    MaxFaults,      \* bound: database calls that return an error
    MaxCrashes,     \* bound: times the process stops
    HonestPrinter,  \* smbclient fails only if nothing reached the printer
    AgeBoundCoversHandler  \* no row is stale while its handler still runs

ASSUME GrantAssumption == Grant \in [Users -> Nat]
ASSUME DestAssumption == NoDest \notin Destinations
ASSUME AttemptsAssumption == MaxAttempts \in Nat \ {0}
ASSUME BatchAssumption == BatchLimit \in Nat \ {0}
ASSUME BoundsAssumption == MaxFaults \in Nat /\ MaxCrashes \in Nat
ASSUME SwitchAssumption ==
    HonestPrinter \in BOOLEAN /\ AgeBoundCoversHandler \in BOOLEAN

VARIABLES
    row,        \* row[j]: state column, or NoRow
    dest,       \* dest[j]: destination_id column
    inflight,   \* statements the database may still execute
    pc,         \* where the handler of request j is
    pick,       \* the destination the handler chose
    attempt,    \* the handler's attempt counter
    told,       \* what the page of request j said
    paper,      \* how many times the printer was given the document
    cutoff,     \* rows 1..cutoff are older than SWEEP_AGE_BOUND
    batch,      \* rows of the sweep pass not yet visited: <<job, state seen>>
    up,         \* the process runs
    faults, crashes

tableVars   == <<row, dest>>
handlerVars == <<pc, pick, attempt, told>>
boundVars   == <<faults, crashes>>
vars == <<row, dest, inflight, pc, pick, attempt, told, paper, cutoff, batch,
          up, faults, crashes>>

\* The points at which a handler is about to send a statement.
StatementPoints == {"store", "mark", "undo", "confirm", "giveUp"}
HandlerPoints ==
    StatementPoints \cup {"idle", "pick", "send", "spooled", "retry", "done", "lost"}
Pages == {"none", "rejected", "insufficient", "succeeded", "failed", "unconfirmed"}

Finished(j) == pc[j] \in {"done", "lost"}

Init ==
    /\ row = [j \in Jobs |-> NoRow]
    /\ dest = [j \in Jobs |-> NoDest]
    /\ inflight = {}
    /\ pc = [j \in Jobs |-> "idle"]
    /\ pick = [j \in Jobs |-> NoDest]
    /\ attempt = [j \in Jobs |-> 1]
    /\ told = [j \in Jobs |-> "none"]
    /\ paper = [j \in Jobs |-> 0]
    /\ cutoff = 0
    /\ batch = {}
    /\ up = TRUE
    /\ faults = 0
    /\ crashes = 0

-----------------------------------------------------------------------------
(* Statements.  An UPDATE carries the state it expects (from) and the one   *)
(* it writes (to); MarkSent also carries a destination.  from = NoRow is    *)
(* CheckQuotaAndStore, whose verdict is decided where it is executed.       *)

Statement(j, from, to, d) == [job |-> j, from |-> from, to |-> to, dest |-> d]

Statements ==
    [job : Jobs, from : allStates \cup {NoRow}, to : allStates,
     dest : Destinations \cup {NoDest}]

Charged == {j \in Jobs : DeductsQuota(row[j])}

Remaining(u) == Grant[u] - Spent(Charged, u)

\* Mutant: whoever has exactly enough is refused.
VerdictRefusesExact(j) ==
    IF Remaining(Owner[j]) <= Cost[j] THEN QuotaInsufficient ELSE QuotaDeducted

Verdict(j) ==
    IF Remaining(Owner[j]) < Cost[j] THEN QuotaInsufficient ELSE QuotaDeducted

Written(st) == IF st.from = NoRow THEN Verdict(st.job) ELSE st.to

\* Mutant: WHERE id = $1, whatever the state.
MatchesById(st) == (row[st.job] = NoRow) <=> (st.from = NoRow)

\* WHERE id = $1 AND state = ...
Matches(st) == row[st.job] = st.from

Execute(st) ==
    /\ row' = [row EXCEPT ![st.job] = IF Matches(st) THEN Written(st) ELSE @]
    /\ dest' = [dest EXCEPT ![st.job] =
                   IF Matches(st) /\ st.to = PrintSent THEN st.dest ELSE @]

\* RowsAffected() = 1.
Affected(st) == Matches(st) /\ Execute(st) /\ UNCHANGED <<inflight, faults>>

\* RowsAffected() = 0: ErrUnexpectedState.
Unexpected(st) == ~ Matches(st) /\ UNCHANGED <<row, dest, inflight, faults>>

\* Any other error: not executed, or executed behind the caller's back.
Broken(st) ==
    /\ faults < MaxFaults
    /\ faults' = faults + 1
    /\ inflight' \in {inflight, inflight \cup {st}}
    /\ UNCHANGED tableVars

-----------------------------------------------------------------------------
(* The handler of request j.                                                *)

\* What the handler sends at each of its statement points.
HandlerStatement(j) ==
    CASE pc[j] = "store"   -> Statement(j, NoRow, QuotaDeducted, NoDest)
      [] pc[j] = "mark"    -> Statement(j, QuotaDeducted, PrintSent, pick[j])
      [] pc[j] = "undo"    -> Statement(j, QuotaDeducted, PrintFailed, NoDest)
      [] pc[j] = "confirm" -> Statement(j, PrintSent, PrintSucceeded, NoDest)
      [] pc[j] = "giveUp"  -> Statement(j, PrintSent, PrintFailed, NoDest)

GoTo(j, point) == pc' = [pc EXCEPT ![j] = point]

Answer(j, page) == GoTo(j, "done") /\ told' = [told EXCEPT ![j] = page]

\* Requests are numbered in the order in which they come.
Arrives(j) == up /\ pc[j] = "idle" /\ \A i \in 1..(j - 1) : pc[i] # "idle"

\* The form, the document and the queue are in order.
Receive(j) ==
    /\ Arrives(j)
    /\ GoTo(j, "store")
    /\ UNCHANGED <<row, dest, inflight, pick, attempt, told, paper, cutoff,
                   batch, up, faults, crashes>>

\* They are not, or the browser left before the job was the server's own.
Reject(j) ==
    /\ Arrives(j)
    /\ Answer(j, "rejected")
    /\ UNCHANGED <<row, dest, inflight, pick, attempt, paper, cutoff, batch,
                   up, faults, crashes>>

CheckQuotaAndStore(j) ==
    /\ up /\ pc[j] = "store"
    /\ \/ /\ Affected(HandlerStatement(j))
          /\ Verdict(j) = QuotaDeducted
          /\ GoTo(j, "pick") /\ UNCHANGED told
       \/ /\ Affected(HandlerStatement(j))
          /\ Verdict(j) = QuotaInsufficient
          /\ Answer(j, "insufficient")
       \/ Broken(HandlerStatement(j)) /\ Answer(j, "unconfirmed")
    /\ UNCHANGED <<pick, attempt, paper, cutoff, batch, up, crashes>>

PickDestination(j) ==
    /\ up /\ pc[j] = "pick"
    /\ \E d \in Destinations : pick' = [pick EXCEPT ![j] = d]
    /\ GoTo(j, "mark")
    /\ UNCHANGED <<row, dest, inflight, attempt, told, paper, cutoff, batch,
                   up, faults, crashes>>

\* No destination is enabled, or the queue's tables cannot be read.
PickFails(j) ==
    /\ up /\ pc[j] = "pick"
    /\ GoTo(j, "undo")
    /\ UNCHANGED <<row, dest, inflight, pick, attempt, told, paper, cutoff,
                   batch, up, faults, crashes>>

\* Mutant: the handler goes on to send a row it could not mark.
MarkSentIgnoresRow(j) ==
    /\ up /\ pc[j] = "mark"
    /\ \/ /\ Affected(HandlerStatement(j)) \/ Unexpected(HandlerStatement(j))
          /\ GoTo(j, "send") /\ UNCHANGED told
       \/ Broken(HandlerStatement(j)) /\ Answer(j, "unconfirmed")
    /\ UNCHANGED <<pick, attempt, paper, cutoff, batch, up, crashes>>

MarkSent(j) ==
    /\ up /\ pc[j] = "mark"
    /\ \/ Affected(HandlerStatement(j)) /\ GoTo(j, "send") /\ UNCHANGED told
       \/ Unexpected(HandlerStatement(j)) /\ Answer(j, "failed")
       \/ Broken(HandlerStatement(j)) /\ Answer(j, "unconfirmed")
    /\ UNCHANGED <<pick, attempt, paper, cutoff, batch, up, crashes>>

\* smbclient hands the document to the printer.
Spool(j) ==
    /\ up /\ pc[j] = "send"
    /\ GoTo(j, "spooled")
    /\ paper' = [paper EXCEPT ![j] = @ + 1]
    /\ UNCHANGED <<row, dest, inflight, pick, attempt, told, cutoff, batch,
                   up, faults, crashes>>

\* smbclient exits with status 0.
SendOk(j) ==
    /\ up /\ pc[j] = "spooled"
    /\ GoTo(j, "confirm")
    /\ UNCHANGED <<row, dest, inflight, pick, attempt, told, paper, cutoff,
                   batch, up, faults, crashes>>

\* smbclient can fail here: before the printer has the document or, if the
\* printer is not honest, after.
MayFail(j) == pc[j] = "send" \/ (pc[j] = "spooled" /\ ~ HonestPrinter)

\* Mutant: a killed smbclient counts as success.
SendTimesOutConfirms(j) ==
    /\ up /\ MayFail(j)
    /\ GoTo(j, "confirm")
    /\ UNCHANGED <<row, dest, inflight, pick, attempt, told, paper, cutoff, batch,
                   up, faults, crashes>>

\* SEND_TIMEOUT passes and smbclient is killed.
SendTimesOut(j) ==
    /\ up /\ MayFail(j)
    /\ GoTo(j, "giveUp")
    /\ UNCHANGED <<row, dest, inflight, pick, attempt, told, paper, cutoff,
                   batch, up, faults, crashes>>

\* Mutant: one attempt too many.
SendFailsOffByOne(j) ==
    /\ up /\ MayFail(j)
    /\ GoTo(j, IF attempt[j] > MaxAttempts THEN "giveUp" ELSE "retry")
    /\ UNCHANGED <<row, dest, inflight, pick, attempt, told, paper, cutoff, batch,
                   up, faults, crashes>>

SendFails(j) ==
    /\ up /\ MayFail(j)
    /\ GoTo(j, IF attempt[j] >= MaxAttempts THEN "giveUp" ELSE "retry")
    /\ UNCHANGED <<row, dest, inflight, pick, attempt, told, paper, cutoff,
                   batch, up, faults, crashes>>

\* Mutant: attempts are not counted.
RetryUncounted(j) ==
    /\ up /\ pc[j] = "retry"
    /\ GoTo(j, "send")
    /\ UNCHANGED <<row, dest, inflight, pick, attempt, told, paper, cutoff, batch,
                   up, faults, crashes>>

Retry(j) ==
    /\ up /\ pc[j] = "retry"
    /\ GoTo(j, "send")
    /\ attempt' = [attempt EXCEPT ![j] = @ + 1]
    /\ UNCHANGED <<row, dest, inflight, pick, told, paper, cutoff, batch, up,
                   faults, crashes>>

\* Mutant: the deadline during the wait is taken for a success.
RetryTimesOutConfirms(j) ==
    /\ up /\ pc[j] = "retry"
    /\ GoTo(j, "confirm")
    /\ UNCHANGED <<row, dest, inflight, pick, attempt, told, paper, cutoff, batch,
                   up, faults, crashes>>

\* SEND_TIMEOUT passes while the handler waits to try again.
RetryTimesOut(j) ==
    /\ up /\ pc[j] = "retry"
    /\ GoTo(j, "giveUp")
    /\ UNCHANGED <<row, dest, inflight, pick, attempt, told, paper, cutoff,
                   batch, up, faults, crashes>>

\* Mutant: any error of the resolving update is reported as a failed print.
resolveHidesErrors(j) ==
    /\ up /\ pc[j] \in {"undo", "confirm", "giveUp"}
    /\ \/ /\ Affected(HandlerStatement(j))
          /\ Answer(j, IF pc[j] = "confirm" THEN "succeeded" ELSE "failed")
       \/ /\ Unexpected(HandlerStatement(j)) \/ Broken(HandlerStatement(j))
          /\ Answer(j, "failed")
    /\ UNCHANGED <<pick, attempt, paper, cutoff, batch, up, crashes>>

resolve(j) ==
    /\ up /\ pc[j] \in {"undo", "confirm", "giveUp"}
    /\ \/ /\ Affected(HandlerStatement(j))
          /\ Answer(j, IF pc[j] = "confirm" THEN "succeeded" ELSE "failed")
       \/ Unexpected(HandlerStatement(j)) /\ Answer(j, "failed")
       \/ Broken(HandlerStatement(j)) /\ Answer(j, "unconfirmed")
    /\ UNCHANGED <<pick, attempt, paper, cutoff, batch, up, crashes>>

-----------------------------------------------------------------------------
(* The sweeper.                                                             *)

\* Mutant: a job that was marked sent is left to its handler.
StaleUnsent == {j \in Jobs : row[j] = QuotaDeducted /\ j <= cutoff}

\* state = ANY(quota_deducted, print_sent) AND submitted_at < cutoff.
Stale == {j \in Jobs : row[j] \in {QuotaDeducted, PrintSent} /\ j <= cutoff}

\* ORDER BY submitted_at LIMIT BatchLimit.
StaleJobs == {j \in Stale : Cardinality({i \in Stale : i < j}) < BatchLimit}

\* A pass begins.  If the query fails the pass ends with nothing changed.
SweepPass ==
    /\ up /\ batch = {} /\ StaleJobs # {}
    /\ batch' = {<<j, row[j]>> : j \in StaleJobs}
    /\ UNCHANGED <<row, dest, inflight, pc, pick, attempt, told, paper, cutoff,
                   up, faults, crashes>>

SweepStatement(e) == Statement(e[1], e[2], PrintFailed, NoDest)

Oldest(e) == \A f \in batch : e[1] <= f[1]

\* The next row of the pass; whatever the outcome, the pass goes on.
SweepJob ==
    /\ up
    /\ \E e \in batch :
          /\ Oldest(e)
          /\ \/ Affected(SweepStatement(e))
             \/ Unexpected(SweepStatement(e))
             \/ Broken(SweepStatement(e))
          /\ batch' = batch \ {e}
    /\ UNCHANGED <<pc, pick, attempt, told, paper, cutoff, up, crashes>>

-----------------------------------------------------------------------------
(* Time, the database on its own, and the process.                          *)

\* Mutant: nothing relates SWEEP_AGE_BOUND to SEND_TIMEOUT.
TickUnrelated ==
    /\ cutoff < N
    /\ pc[cutoff + 1] # "idle"
    /\ cutoff' = cutoff + 1
    /\ UNCHANGED <<row, dest, inflight, pc, pick, attempt, told, paper, batch,
                   up, faults, crashes>>

\* One more row passes the age bound.
Tick ==
    /\ cutoff < N
    /\ pc[cutoff + 1] # "idle"
    /\ AgeBoundCoversHandler => Finished(cutoff + 1)
    /\ cutoff' = cutoff + 1
    /\ UNCHANGED <<row, dest, inflight, pc, pick, attempt, told, paper, batch,
                   up, faults, crashes>>

\* A statement whose sender has given up is executed.
ExecuteLate(st) ==
    /\ Execute(st)
    /\ inflight' = inflight \ {st}
    /\ UNCHANGED <<pc, pick, attempt, told, paper, cutoff, batch, up, faults,
                   crashes>>

\* It never will be.
Discard(st) ==
    /\ inflight' = inflight \ {st}
    /\ UNCHANGED <<row, dest, pc, pick, attempt, told, paper, cutoff, batch,
                   up, faults, crashes>>

\* The statements the process may have just sent.
Outstanding ==
    {HandlerStatement(j) : j \in {i \in Jobs : pc[i] \in StatementPoints}}
        \cup {SweepStatement(e) : e \in {f \in batch : Oldest(f)}}

\* The process stops: killed, or graceful shutdown ran out of its 10 seconds.
\* An smbclient that was about to print may still do so, but only now: where
\* piping is PID 1 of its container, it is killed with it.
Crash ==
    /\ up /\ crashes < MaxCrashes
    /\ crashes' = crashes + 1
    /\ up' = FALSE
    /\ pc' = [j \in Jobs |-> IF pc[j] \in {"idle", "done"} THEN pc[j] ELSE "lost"]
    /\ batch' = {}
    /\ \E sent \in SUBSET Outstanding : inflight' = inflight \cup sent
    /\ \E printed \in SUBSET {j \in Jobs : pc[j] = "send"} :
          paper' = [j \in Jobs |-> paper[j] + (IF j \in printed THEN 1 ELSE 0)]
    /\ UNCHANGED <<row, dest, pick, attempt, told, cutoff, faults>>

Restart ==
    /\ ~ up
    /\ up' = TRUE
    /\ UNCHANGED <<row, dest, inflight, pc, pick, attempt, told, paper, cutoff,
                   batch, faults, crashes>>

\* Every request is over, every row resolved, and the sweeper finds nothing.
Quiescent ==
    /\ up /\ batch = {} /\ inflight = {} /\ cutoff = N
    /\ \A j \in Jobs : Finished(j) /\ row[j] \notin {QuotaDeducted, PrintSent}
    /\ UNCHANGED vars

Handler(j) ==
    \/ Receive(j) \/ Reject(j) \/ CheckQuotaAndStore(j)
    \/ PickDestination(j) \/ PickFails(j) \/ MarkSent(j)
    \/ Spool(j) \/ SendOk(j) \/ SendTimesOut(j) \/ SendFails(j)
    \/ Retry(j) \/ RetryTimesOut(j) \/ resolve(j)

Database == \E st \in inflight : ExecuteLate(st) \/ Discard(st)

Next ==
    \/ \E j \in Jobs : Handler(j)
    \/ SweepPass \/ SweepJob \/ Tick
    \/ Database
    \/ Crash \/ Restart \/ Quiescent

Spec == Init /\ [][Next]_vars

(* A handler is a goroutine that always has a next step or a deadline; the  *)
(* sweeper wakes on its ticker and walks its batch; the service manager     *)
(* starts the process again; time passes.  That requests keep coming is not *)
(* assumed of Receive: a handler's fairness begins when it is running.      *)
Running(j) == Handler(j) /\ pc[j] # "idle"

FairSpec ==
    /\ Spec
    /\ \A j \in Jobs : WF_vars(Running(j))
    /\ WF_vars(SweepPass) /\ WF_vars(SweepJob)
    /\ WF_vars(Tick) /\ WF_vars(Restart)

-----------------------------------------------------------------------------
(* Properties.                                                              *)

TypeOK ==
    /\ row \in [Jobs -> allStates \cup {NoRow}]
    /\ dest \in [Jobs -> Destinations \cup {NoDest}]
    /\ inflight \subseteq Statements
    /\ pc \in [Jobs -> HandlerPoints]
    /\ pick \in [Jobs -> Destinations \cup {NoDest}]
    /\ attempt \in [Jobs -> 1..MaxAttempts]
    /\ told \in [Jobs -> Pages]
    /\ paper \in [Jobs -> 0..MaxAttempts]
    /\ cutoff \in 0..N
    /\ batch \subseteq Jobs \X {QuotaDeducted, PrintSent}
    /\ up \in BOOLEAN
    /\ faults \in 0..MaxFaults
    /\ crashes \in 0..MaxCrashes

(* No user ever has more quota deducted than granted, however requests,     *)
(* sweeps, late statements and crashes interleave.                          *)
NoOverspend == \A u \in Users : Spent(Charged, u) <= Grant[u]

(* What a page says about the quota is so, and stays so: "your quota was    *)
(* refunded" (handleSubmit's comment: "Non-success means print_failed with  *)
(* quota back by the time we respond"), "quota deducted", and that there    *)
(* was too little of it.                                                    *)
PageTellsTheQuota ==
    \A j \in Jobs :
        /\ told[j] = "failed"       => row[j] = PrintFailed
        /\ told[j] = "succeeded"    => row[j] = PrintSucceeded
        /\ told[j] = "insufficient" => row[j] = QuotaInsufficient

(* What a page says about the print is so, and stays so, of a printer that  *)
(* is honest and an age bound that covers handlers: "Sent to printer" was   *)
(* printed; "could not be printed", and "Not printed" of a request that was *)
(* turned away, were not.  Not so of the page of a job that could not be    *)
(* confirmed, which is headed "Not printed" as well.                        *)
PageTellsThePaper ==
    \A j \in Jobs :
        /\ told[j] = "succeeded" => paper[j] > 0
        /\ told[j] \in {"rejected", "insufficient", "failed"} => paper[j] = 0

(* Nothing is printed for a request that the store turned away or that was  *)
(* resolved before MarkSent, and what is printed went to the destination    *)
(* that the row records.                                                    *)
PaperIsAccountedFor ==
    \A j \in Jobs :
        paper[j] > 0 => /\ row[j] \in {PrintSent, PrintSucceeded, PrintFailed}
                        /\ dest[j] \in Destinations
                        /\ dest[j] = pick[j]

(* A job that ends up charged for good was printed, even if the outcome was *)
(* recorded by a statement that its sender took for failed.                 *)
SucceededIsPrinted ==
    \A j \in Jobs : row[j] = PrintSucceeded => paper[j] > 0

(* Whoever writes a row - handler, sweeper, or a statement executed late -  *)
(* moves it along validTransitions: a final state is never left for a state *)
(* that deducts quota, and nothing is overwritten that someone else wrote.  *)
RowsFollowLifecycle ==
    [][\A j \in Jobs :
          row'[j] # row[j] =>
              \/ row[j] = NoRow /\ row'[j] \in {QuotaDeducted, QuotaInsufficient}
              \/ ValidTransition(row[j], row'[j])]_vars

(* A document is handed to the printer only while its job still deducts     *)
(* quota.  The sweeper can break this when it fails a job whose handler is  *)
(* still sending, which SWEEP_AGE_BOUND > SEND_TIMEOUT is there to prevent. *)
NoPrintAfterResolution ==
    [][\A j \in Jobs : paper'[j] > paper[j] => DeductsQuota(row[j])]_vars

(* deliver_test: "user charged iff printed must hold", of a request that is *)
(* over and a row that has reached its last state.                          *)
ChargedIffPrinted ==
    \A j \in Jobs :
        Finished(j) /\ IsTerminal(row[j]) => (DeductsQuota(row[j]) <=> paper[j] > 0)

(* It does hold as long as no call has erred and the process has not        *)
(* stopped, of a printer that is honest, however often it fails.            *)
ChargedIffPrintedUntilFault == faults = 0 /\ crashes = 0 => ChargedIffPrinted

(* No row stays in quota_deducted or print_sent: what the handler leaves    *)
(* behind, the sweeper resolves.                                            *)
StuckJobsAreResolved ==
    \A j \in Jobs : row[j] \in {QuotaDeducted, PrintSent} ~> IsTerminal(row[j])

(* A request that is being handled gets its page, or its process stops.     *)
EveryRequestIsAnswered == \A j \in Jobs : pc[j] # "idle" ~> Finished(j)

-----------------------------------------------------------------------------
(* The rows implement the ledger.                                           *)

Ledger == INSTANCE QuotaLedger WITH
    granted  <- Grant,
    charged  <- Charged,
    released <- {j \in Jobs : row[j] \in {PrintFailed, Refunded}},
    refused  <- {j \in Jobs : row[j] = QuotaInsufficient}

(* Every behaviour of the rows is one the ledger allows: one charge per     *)
(* request, paid for when it is made, returned at most once, and refused    *)
(* only for lack of quota.                                                  *)
ImplementsLedger == Ledger!Spec

=============================================================================
