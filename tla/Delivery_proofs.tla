--------------------------- MODULE Delivery_proofs --------------------------
(***************************************************************************)
(* Theorems about Delivery for every number of requests, users, costs,     *)
(* grants, destinations, attempts, faults and crashes.                     *)
(***************************************************************************)
EXTENDS Delivery, Accounts_proofs

(* The inductive invariant.  TypeOK and the properties are not inductive:   *)
(* that a handler which finds its row in an unexpected state may say "your  *)
(* quota was refunded" depends on what the other writers - the sweeper, and *)
(* statements executed late - can still do to the row of a running handler. *)

Unsent  == {"pick", "mark", "undo"}
Sending == {"send", "spooled", "retry", "confirm", "giveUp"}

\* What a running handler may rely on: nobody but the sweeper touches its row.
HandlerKnows ==
    \A j \in Jobs :
        /\ pc[j] \in {"idle", "store"} => row[j] = NoRow
        /\ pc[j] \in Unsent => row[j] \in {QuotaDeducted, PrintFailed}
        /\ pc[j] \in Sending => /\ row[j] \in {PrintSent, PrintFailed}
                                /\ dest[j] \in Destinations
                                /\ dest[j] = pick[j]
        /\ pc[j] = "mark" => pick[j] \in Destinations
        /\ pc[j] \in {"idle", "store"} \cup Unsent => paper[j] = 0
        /\ pc[j] \in {"spooled", "confirm"} => paper[j] > 0

\* Each attempt prints at most once.
PaperPerAttempt ==
    \A j \in Jobs :
        /\ paper[j] <= attempt[j]
        /\ pc[j] = "send" => paper[j] < attempt[j]
        /\ pc[j] = "retry" => attempt[j] < MaxAttempts

\* What the table says of the printer, whoever wrote it.
RowKnows ==
    \A j \in Jobs :
        /\ row[j] # Refunded
        /\ row[j] \in {PrintSent, PrintSucceeded} =>
              dest[j] \in Destinations /\ dest[j] = pick[j]
        /\ row[j] = PrintSucceeded => paper[j] > 0

\* What a statement does if it matches, whenever it is executed.
Legal(st) ==
    /\ st.from = NoRow \/ ValidTransition(st.from, st.to)
    /\ st.from = NoRow => st.to = QuotaDeducted
    /\ st.to # Refunded
    /\ st.to = PrintSent => st.dest \in Destinations /\ st.dest = pick[st.job]
    /\ st.to = PrintSucceeded => paper[st.job] > 0

\* A statement outlives the request that sent it, or is the sweeper's.
LateIsHarmless ==
    \A st \in inflight : Legal(st) /\ (Finished(st.job) \/ st.to = PrintFailed)

\* Only a request that is over has been answered, and truthfully.
AnswersAreTrue ==
    \A j \in Jobs :
        /\ told[j] # "none" => pc[j] = "done"
        /\ told[j] = "failed" => row[j] = PrintFailed
        /\ told[j] = "succeeded" => row[j] = PrintSucceeded
        /\ told[j] = "insufficient" => row[j] = QuotaInsufficient

IInv ==
    /\ TypeOK
    /\ HandlerKnows
    /\ PaperPerAttempt
    /\ RowKnows
    /\ LateIsHarmless
    /\ AnswersAreTrue
    /\ PaperIsAccountedFor

-----------------------------------------------------------------------------
LEMMA InitIInv == Init => IInv
<1> SUFFICES ASSUME Init PROVE IInv
  OBVIOUS
<1> USE DEF Init
<1>1. TypeOK
  BY NAssumption, AttemptsAssumption, BoundsAssumption, SMT
     DEF TypeOK, HandlerPoints, StatementPoints, Pages
<1>2. HandlerKnows /\ PaperPerAttempt
  BY AttemptsAssumption, SMT DEF HandlerKnows, PaperPerAttempt, Unsent, Sending
<1>3. RowKnows /\ AnswersAreTrue /\ LateIsHarmless /\ PaperIsAccountedFor
  BY SMT DEF RowKnows, AnswersAreTrue, LateIsHarmless, PaperIsAccountedFor,
             NoRow, PrintSent, PrintSucceeded, Refunded
<1> QED
  BY <1>1, <1>2, <1>3 DEF IInv
-----------------------------------------------------------------------------
(* Steps of a handler between two statements change only its own variables  *)
(* and the printer.                                                         *)

USE DEF QuotaInsufficient, QuotaDeducted, PrintSent, PrintSucceeded,
        PrintFailed, Refunded, NoRow

LEMMA PcStep ==
    ASSUME IInv, NEW j \in Jobs,
           Receive(j) \/ PickFails(j) \/ SendOk(j) \/ SendTimesOut(j)
             \/ SendFails(j) \/ RetryTimesOut(j)
    PROVE  IInv'
<1> USE DEF IInv, Receive, Arrives, PickFails, SendOk, SendTimesOut, SendFails,
            RetryTimesOut, MayFail, GoTo
<1>1. TypeOK'
  BY AttemptsAssumption, SMT
     DEF TypeOK, HandlerPoints, StatementPoints, Pages, Statements, allStates,
         PaperPerAttempt
<1>2. HandlerKnows'
  BY AttemptsAssumption, SMT DEF TypeOK, HandlerKnows, Unsent, Sending
<1>3. PaperPerAttempt'
  BY AttemptsAssumption, SMT DEF TypeOK, PaperPerAttempt, HandlerKnows, Unsent
<1>4. RowKnows' /\ AnswersAreTrue' /\ PaperIsAccountedFor'
  BY AttemptsAssumption, SMT
     DEF TypeOK, HandlerKnows, RowKnows, AnswersAreTrue, PaperIsAccountedFor,
         Unsent, Sending
<1>5. LateIsHarmless'
  BY AttemptsAssumption, SMT DEF TypeOK, HandlerKnows, LateIsHarmless, Legal, Statements, Finished
<1> QED
  BY <1>1, <1>2, <1>3, <1>4, <1>5 DEF IInv

LEMMA RejectStep ==
    ASSUME IInv, NEW j \in Jobs, Reject(j)
    PROVE  IInv'
<1> USE DEF IInv, Reject, Arrives, Answer, GoTo
<1>1. TypeOK'
  BY SMT
     DEF TypeOK, HandlerPoints, StatementPoints, Pages, Statements, allStates,
         PaperPerAttempt
<1>2. HandlerKnows'
  BY SMT DEF TypeOK, HandlerKnows, Unsent, Sending
<1>3. PaperPerAttempt'
  BY SMT DEF TypeOK, PaperPerAttempt, HandlerKnows, Unsent
<1>4. RowKnows' /\ AnswersAreTrue' /\ PaperIsAccountedFor'
  BY SMT
     DEF TypeOK, HandlerKnows, RowKnows, AnswersAreTrue, PaperIsAccountedFor,
         Unsent, Sending
<1>5. LateIsHarmless'
  BY SMT DEF TypeOK, HandlerKnows, LateIsHarmless, Legal, Statements, Finished
<1> QED
  BY <1>1, <1>2, <1>3, <1>4, <1>5 DEF IInv

LEMMA PickDestinationStep ==
    ASSUME IInv, NEW j \in Jobs, PickDestination(j)
    PROVE  IInv'
<1> USE DEF IInv, PickDestination, GoTo
<1>1. TypeOK'
  BY SMT
     DEF TypeOK, HandlerPoints, StatementPoints, Pages, Statements, allStates,
         PaperPerAttempt
<1>2. HandlerKnows'
  BY SMT DEF TypeOK, HandlerKnows, Unsent, Sending
<1>3. PaperPerAttempt'
  BY SMT DEF TypeOK, PaperPerAttempt, HandlerKnows, Unsent
<1>4. RowKnows' /\ AnswersAreTrue' /\ PaperIsAccountedFor'
  BY SMT
     DEF TypeOK, HandlerKnows, RowKnows, AnswersAreTrue, PaperIsAccountedFor,
         Unsent, Sending
<1>5. LateIsHarmless'
  BY SMT DEF TypeOK, HandlerKnows, LateIsHarmless, Legal, Statements, Finished
<1> QED
  BY <1>1, <1>2, <1>3, <1>4, <1>5 DEF IInv

LEMMA SpoolStep ==
    ASSUME IInv, NEW j \in Jobs, Spool(j)
    PROVE  IInv'
<1> USE DEF IInv, Spool, GoTo
<1>1. TypeOK'
  BY AttemptsAssumption, SMT
     DEF TypeOK, HandlerPoints, StatementPoints, Pages, Statements, allStates,
         PaperPerAttempt
<1>2. HandlerKnows'
  BY AttemptsAssumption, SMT DEF TypeOK, HandlerKnows, Unsent, Sending
<1>3. PaperPerAttempt'
  BY AttemptsAssumption, SMT DEF TypeOK, PaperPerAttempt, HandlerKnows, Unsent
<1>4. RowKnows' /\ AnswersAreTrue' /\ PaperIsAccountedFor'
  BY AttemptsAssumption, SMT
     DEF TypeOK, HandlerKnows, RowKnows, AnswersAreTrue, PaperIsAccountedFor,
         Unsent, Sending
<1>5. LateIsHarmless'
  BY AttemptsAssumption, SMT DEF TypeOK, HandlerKnows, LateIsHarmless, Legal, Statements, Finished
<1> QED
  BY <1>1, <1>2, <1>3, <1>4, <1>5 DEF IInv

LEMMA RetryStep ==
    ASSUME IInv, NEW j \in Jobs, Retry(j)
    PROVE  IInv'
<1> USE DEF IInv, Retry, GoTo
<1>1. TypeOK'
  BY AttemptsAssumption, SMT
     DEF TypeOK, HandlerPoints, StatementPoints, Pages, Statements, allStates,
         PaperPerAttempt
<1>2. HandlerKnows'
  BY AttemptsAssumption, SMT DEF TypeOK, HandlerKnows, Unsent, Sending
<1>3. PaperPerAttempt'
  BY AttemptsAssumption, SMT DEF TypeOK, PaperPerAttempt, HandlerKnows, Unsent
<1>4. RowKnows' /\ AnswersAreTrue' /\ PaperIsAccountedFor'
  BY AttemptsAssumption, SMT
     DEF TypeOK, HandlerKnows, RowKnows, AnswersAreTrue, PaperIsAccountedFor,
         Unsent, Sending
<1>5. LateIsHarmless'
  BY AttemptsAssumption, SMT DEF TypeOK, HandlerKnows, LateIsHarmless, Legal, Statements, Finished
<1> QED
  BY <1>1, <1>2, <1>3, <1>4, <1>5 DEF IInv

-----------------------------------------------------------------------------
(* What a handler sends is legal whenever it is executed.                   *)
LEMMA HandlerStatementFacts ==
    ASSUME IInv, NEW j \in Jobs, pc[j] \in StatementPoints
    PROVE  LET st == HandlerStatement(j)
           IN  /\ st \in Statements /\ st.job = j /\ Legal(st)
               /\ st.from = CASE pc[j] = "store" -> NoRow
                              [] pc[j] \in {"mark", "undo"} -> QuotaDeducted
                              [] OTHER -> PrintSent
               /\ st.to = CASE pc[j] = "store"   -> QuotaDeducted
                            [] pc[j] = "mark"    -> PrintSent
                            [] pc[j] = "confirm" -> PrintSucceeded
                            [] OTHER -> PrintFailed
<1> USE DEF IInv, HandlerStatement, Statement, Statements, allStates, HandlerKnows,
            TypeOK, Legal, ValidTransition, validTransitions
<1>1. CASE pc[j] = "store"
  BY <1>1
<1>2. CASE pc[j] = "mark"
  BY <1>2
<1>3. CASE pc[j] = "undo"
  BY <1>3
<1>4. CASE pc[j] = "confirm"
  BY <1>4
<1>5. CASE pc[j] = "giveUp"
  BY <1>5
<1> QED
  BY <1>1, <1>2, <1>3, <1>4, <1>5 DEF StatementPoints

(* The statement matched: the handler knows the new state of its row.       *)
LEMMA AffectedStep ==
    ASSUME IInv, NEW j \in Jobs, pc[j] \in StatementPoints,
           Affected(HandlerStatement(j)),
           \/ pc[j] = "store" /\ Verdict(j) = QuotaDeducted
                /\ GoTo(j, "pick") /\ UNCHANGED told
           \/ pc[j] = "store" /\ Verdict(j) = QuotaInsufficient
                /\ Answer(j, "insufficient")
           \/ pc[j] = "mark" /\ GoTo(j, "send") /\ UNCHANGED told
           \/ pc[j] = "confirm" /\ Answer(j, "succeeded")
           \/ pc[j] \in {"undo", "giveUp"} /\ Answer(j, "failed"),
           UNCHANGED <<pick, attempt, paper, cutoff, batch, up, crashes>>
    PROVE  IInv'
<1> DEFINE st == HandlerStatement(j)
<1>1. /\ st \in Statements /\ st.job = j /\ Legal(st)
      /\ st.from = CASE pc[j] = "store" -> NoRow
                     [] pc[j] \in {"mark", "undo"} -> QuotaDeducted
                     [] OTHER -> PrintSent
      /\ st.to = CASE pc[j] = "store"   -> QuotaDeducted
                   [] pc[j] = "mark"    -> PrintSent
                   [] pc[j] = "confirm" -> PrintSucceeded
                   [] OTHER -> PrintFailed
  BY HandlerStatementFacts
<1>2. Affected(st)
  OBVIOUS
<1> HIDE DEF st
<1> USE <1>1, <1>2, AttemptsAssumption
    DEF IInv, GoTo, Answer, Affected, Matches, Execute, Written, Legal
<1>3. TypeOK'
  BY SMT
     DEF TypeOK, HandlerPoints, StatementPoints, Pages, Statements, allStates,
         PaperPerAttempt
<1>4. HandlerKnows'
  BY SMT DEF TypeOK, HandlerKnows, Unsent, Sending
<1>5. PaperPerAttempt'
  BY SMT DEF TypeOK, PaperPerAttempt, HandlerKnows, Unsent
<1>6. RowKnows' /\ AnswersAreTrue' /\ PaperIsAccountedFor'
  BY SMT
     DEF TypeOK, HandlerKnows, RowKnows, AnswersAreTrue, PaperIsAccountedFor,
         Unsent, Sending
<1>7. LateIsHarmless'
  BY SMT DEF TypeOK, HandlerKnows, LateIsHarmless, Legal, Statements, Finished
<1> QED
  BY <1>3, <1>4, <1>5, <1>6, <1>7 DEF IInv

(* The statement did not match: the sweeper had failed the job.             *)
LEMMA UnexpectedStep ==
    ASSUME IInv, NEW j \in Jobs, pc[j] \in {"mark", "undo", "confirm", "giveUp"},
           Unexpected(HandlerStatement(j)), Answer(j, "failed"),
           UNCHANGED <<pick, attempt, paper, cutoff, batch, up, crashes>>
    PROVE  IInv'
<1> USE DEF IInv, GoTo, Answer
<1>0. row[j] = PrintFailed
  <2>1. /\ HandlerStatement(j).job = j
        /\ HandlerStatement(j).from =
              IF pc[j] \in {"mark", "undo"} THEN QuotaDeducted ELSE PrintSent
    BY HandlerStatementFacts DEF StatementPoints
  <2> QED
    BY <2>1 DEF Unexpected, Matches, HandlerKnows, Unsent, Sending
<1> USE <1>0 DEF Unexpected
<1>1. TypeOK'
  BY SMT
     DEF TypeOK, HandlerPoints, StatementPoints, Pages, Statements, allStates,
         PaperPerAttempt
<1>2. HandlerKnows'
  BY SMT DEF TypeOK, HandlerKnows, Unsent, Sending
<1>3. PaperPerAttempt'
  BY SMT DEF TypeOK, PaperPerAttempt, HandlerKnows, Unsent
<1>4. RowKnows' /\ AnswersAreTrue' /\ PaperIsAccountedFor'
  BY SMT
     DEF TypeOK, HandlerKnows, RowKnows, AnswersAreTrue, PaperIsAccountedFor,
         Unsent, Sending
<1>5. LateIsHarmless'
  BY SMT DEF TypeOK, HandlerKnows, LateIsHarmless, Legal, Statements, Finished
<1> QED
  BY <1>1, <1>2, <1>3, <1>4, <1>5 DEF IInv

(* The call failed: its statement may be executed later, or never.          *)
LEMMA BrokenStep ==
    ASSUME IInv, NEW j \in Jobs, pc[j] \in StatementPoints,
           Broken(HandlerStatement(j)), Answer(j, "unconfirmed"),
           UNCHANGED <<pick, attempt, paper, cutoff, batch, up, crashes>>
    PROVE  IInv'
<1> DEFINE st == HandlerStatement(j)
<1>1. st \in Statements /\ st.job = j /\ Legal(st)
  BY HandlerStatementFacts
<1>2. Broken(st)
  OBVIOUS
<1> HIDE DEF st
<1> USE <1>1, <1>2, BoundsAssumption
    DEF IInv, GoTo, Answer, Broken, tableVars, StatementPoints
<1>3. TypeOK'
  BY SMT
     DEF TypeOK, HandlerPoints, StatementPoints, Pages, Statements, allStates,
         PaperPerAttempt
<1>4. HandlerKnows'
  BY SMT DEF TypeOK, HandlerKnows, Unsent, Sending
<1>5. PaperPerAttempt'
  BY SMT DEF TypeOK, PaperPerAttempt, HandlerKnows, Unsent
<1>6. RowKnows' /\ AnswersAreTrue' /\ PaperIsAccountedFor'
  BY SMT
     DEF TypeOK, HandlerKnows, RowKnows, AnswersAreTrue, PaperIsAccountedFor,
         Unsent, Sending
<1>7. LateIsHarmless'
  BY SMT DEF TypeOK, HandlerKnows, LateIsHarmless, Legal, Statements, Finished
<1> QED
  BY <1>3, <1>4, <1>5, <1>6, <1>7 DEF IInv

LEMMA StatementStep ==
    ASSUME IInv, NEW j \in Jobs,
           CheckQuotaAndStore(j) \/ MarkSent(j) \/ resolve(j)
    PROVE  IInv'
<1> USE DEF StatementPoints
<1>1. CASE CheckQuotaAndStore(j)
  BY <1>1, AffectedStep, BrokenStep DEF CheckQuotaAndStore
<1>2. CASE MarkSent(j)
  BY <1>2, AffectedStep, UnexpectedStep, BrokenStep DEF MarkSent
<1>3. CASE resolve(j)
  BY <1>3, AffectedStep, UnexpectedStep, BrokenStep DEF resolve
<1> QED
  BY <1>1, <1>2, <1>3

-----------------------------------------------------------------------------
(* The sweeper's statements, and those executed late.                       *)

LEMMA SweepStatementFacts ==
    ASSUME IInv, NEW e \in batch
    PROVE  /\ SweepStatement(e) \in Statements /\ Legal(SweepStatement(e))
           /\ SweepStatement(e).from = e[2] /\ SweepStatement(e).to = PrintFailed
           /\ e[2] \in {QuotaDeducted, PrintSent}
BY DEF SweepStatement, Statement, Statements, allStates, IInv, TypeOK, Legal,
       ValidTransition, validTransitions

LEMMA SweepJobStep ==
    ASSUME IInv, SweepJob
    PROVE  IInv'
<1>1. PICK e \in batch :
         /\ \/ Affected(SweepStatement(e))
            \/ Unexpected(SweepStatement(e))
            \/ Broken(SweepStatement(e))
         /\ batch' = batch \ {e}
  BY DEF SweepJob
<1> DEFINE st == SweepStatement(e)
<1>2. /\ st \in Statements /\ Legal(st) /\ st.to = PrintFailed
      /\ st.from \in {QuotaDeducted, PrintSent}
  BY SweepStatementFacts
<1>3. UNCHANGED <<pc, pick, attempt, told, paper, cutoff, up, crashes>>
  BY DEF SweepJob
<1> HIDE DEF st
<1> USE DEF IInv
<1>4. CASE Affected(st)
  <2> USE <1>1, <1>2, <1>3, <1>4, BoundsAssumption DEF Affected, Execute, Matches, Written
  <2>1. TypeOK'
    BY SMT
       DEF TypeOK, HandlerPoints, StatementPoints, Pages, Statements, allStates,
           PaperPerAttempt
  <2>2. HandlerKnows'
    BY SMT DEF TypeOK, HandlerKnows, Unsent, Sending
  <2>3. PaperPerAttempt'
    BY SMT DEF TypeOK, PaperPerAttempt, HandlerKnows, Unsent
  <2>4. RowKnows' /\ AnswersAreTrue' /\ PaperIsAccountedFor'
    BY SMT
       DEF TypeOK, HandlerKnows, RowKnows, AnswersAreTrue, PaperIsAccountedFor,
           Unsent, Sending
  <2>5. LateIsHarmless'
    BY SMT DEF TypeOK, HandlerKnows, LateIsHarmless, Legal, Statements, Finished
  <2> QED
    BY <2>1, <2>2, <2>3, <2>4, <2>5 DEF IInv
<1>5. CASE Unexpected(st)
  <2> USE <1>1, <1>2, <1>3, <1>5, BoundsAssumption DEF Unexpected
  <2>1. TypeOK'
    BY SMT
       DEF TypeOK, HandlerPoints, StatementPoints, Pages, Statements, allStates,
           PaperPerAttempt
  <2>2. HandlerKnows'
    BY SMT DEF TypeOK, HandlerKnows, Unsent, Sending
  <2>3. PaperPerAttempt'
    BY SMT DEF TypeOK, PaperPerAttempt, HandlerKnows, Unsent
  <2>4. RowKnows' /\ AnswersAreTrue' /\ PaperIsAccountedFor'
    BY SMT
       DEF TypeOK, HandlerKnows, RowKnows, AnswersAreTrue, PaperIsAccountedFor,
           Unsent, Sending
  <2>5. LateIsHarmless'
    BY SMT DEF TypeOK, HandlerKnows, LateIsHarmless, Legal, Statements, Finished
  <2> QED
    BY <2>1, <2>2, <2>3, <2>4, <2>5 DEF IInv
<1>6. CASE Broken(st)
  <2> USE <1>1, <1>2, <1>3, <1>6, BoundsAssumption DEF Broken, tableVars
  <2>1. TypeOK'
    BY SMT
       DEF TypeOK, HandlerPoints, StatementPoints, Pages, Statements, allStates,
           PaperPerAttempt
  <2>2. HandlerKnows'
    BY SMT DEF TypeOK, HandlerKnows, Unsent, Sending
  <2>3. PaperPerAttempt'
    BY SMT DEF TypeOK, PaperPerAttempt, HandlerKnows, Unsent
  <2>4. RowKnows' /\ AnswersAreTrue' /\ PaperIsAccountedFor'
    BY SMT
       DEF TypeOK, HandlerKnows, RowKnows, AnswersAreTrue, PaperIsAccountedFor,
           Unsent, Sending
  <2>5. LateIsHarmless'
    BY SMT DEF TypeOK, HandlerKnows, LateIsHarmless, Legal, Statements, Finished
  <2> QED
    BY <2>1, <2>2, <2>3, <2>4, <2>5 DEF IInv
<1> QED
  BY <1>1, <1>4, <1>5, <1>6 DEF st

LEMMA ExecuteLateStep ==
    ASSUME IInv, NEW st \in inflight, ExecuteLate(st)
    PROVE  IInv'
<1> USE DEF IInv, ExecuteLate, Execute, Matches, Written
<1>1. st \in Statements
  BY DEF TypeOK
<1>2. Verdict(st.job) \in {QuotaDeducted, QuotaInsufficient}
  BY DEF Verdict
<1>3. Legal(st) /\ (Finished(st.job) \/ st.to = PrintFailed)
  BY DEF LateIsHarmless
<1> USE <1>1, <1>2, <1>3 DEF Legal, Finished, ValidTransition, validTransitions
<1>4. IInv'
  <2>1. TypeOK'
    BY SMT
       DEF TypeOK, HandlerPoints, StatementPoints, Pages, Statements, allStates,
           PaperPerAttempt
  <2>2. HandlerKnows'
    BY SMT DEF TypeOK, HandlerKnows, Unsent, Sending
  <2>3. PaperPerAttempt'
    BY SMT DEF TypeOK, PaperPerAttempt, HandlerKnows, Unsent
  <2>4. RowKnows' /\ AnswersAreTrue' /\ PaperIsAccountedFor'
    BY SMT
       DEF TypeOK, HandlerKnows, RowKnows, AnswersAreTrue, PaperIsAccountedFor,
           Unsent, Sending
  <2>5. LateIsHarmless'
    BY SMT DEF TypeOK, HandlerKnows, LateIsHarmless, Legal, Statements, Finished
  <2> QED
    BY <2>1, <2>2, <2>3, <2>4, <2>5 DEF IInv
<1> QED
  BY <1>4

-----------------------------------------------------------------------------
(* Steps of the sweeper between statements, of time, and of the process.    *)

LEMMA QuietStep ==
    ASSUME IInv,
           \/ SweepPass \/ Tick \/ Restart
           \/ \E st \in inflight : Discard(st)
           \/ UNCHANGED vars
    PROVE  IInv'
<1> USE DEF IInv, Tick, Restart, Discard, vars
<1>1. ASSUME SweepPass PROVE batch' \subseteq Jobs \X {QuotaDeducted, PrintSent}
  <2>1. ASSUME NEW j \in StaleJobs
        PROVE  <<j, row[j]>> \in Jobs \X {QuotaDeducted, PrintSent}
    BY DEF StaleJobs, Stale
  <2>2. batch' = {<<j, row[j]>> : j \in StaleJobs}
    BY <1>1 DEF SweepPass
  <2> QED
    BY <2>1, <2>2
<1>2. UNCHANGED <<row, dest, pc, pick, attempt, told, paper, faults, crashes>>
  BY DEF SweepPass
<1>3. batch' \subseteq Jobs \X {QuotaDeducted, PrintSent}
  BY <1>1 DEF TypeOK
<1>4. inflight' \subseteq inflight /\ up' \in BOOLEAN /\ cutoff' \in 0..N
  <2>1. inflight' \subseteq inflight /\ up' \in BOOLEAN
    BY DEF TypeOK, SweepPass
  <2>2. cutoff' = cutoff \/ (cutoff < N /\ cutoff' = cutoff + 1)
    BY DEF SweepPass
  <2> QED
    BY <2>1, <2>2, NAssumption, SMT DEF TypeOK
<1>5. IInv'
  <2> USE <1>2, <1>3, <1>4
  <2>1. TypeOK'
    BY SMT
       DEF TypeOK, HandlerPoints, StatementPoints, Pages, Statements, allStates,
           PaperPerAttempt
  <2>2. HandlerKnows'
    BY SMT DEF TypeOK, HandlerKnows, Unsent, Sending
  <2>3. PaperPerAttempt'
    BY SMT DEF TypeOK, PaperPerAttempt, HandlerKnows, Unsent
  <2>4. RowKnows' /\ AnswersAreTrue' /\ PaperIsAccountedFor'
    BY SMT
       DEF TypeOK, HandlerKnows, RowKnows, AnswersAreTrue, PaperIsAccountedFor,
           Unsent, Sending
  <2>5. LateIsHarmless'
    BY SMT DEF TypeOK, HandlerKnows, LateIsHarmless, Legal, Statements, Finished
  <2> QED
    BY <2>1, <2>2, <2>3, <2>4, <2>5 DEF IInv
<1> QED BY <1>5

LEMMA CrashStep ==
    ASSUME IInv, Crash
    PROVE  IInv'
<1> USE DEF IInv
<1>1. PICK sent \in SUBSET Outstanding : inflight' = inflight \cup sent
  BY DEF Crash
<1>2. PICK printed \in SUBSET {j \in Jobs : pc[j] = "send"} :
         paper' = [j \in Jobs |-> paper[j] + (IF j \in printed THEN 1 ELSE 0)]
  BY DEF Crash
<1>3. /\ pc' = [j \in Jobs |-> IF pc[j] \in {"idle", "done"} THEN pc[j] ELSE "lost"]
      /\ batch' = {} /\ up' = FALSE
      /\ crashes < MaxCrashes /\ crashes' = crashes + 1
      /\ UNCHANGED <<row, dest, pick, attempt, told, cutoff, faults>>
  BY DEF Crash
<1>4. ASSUME NEW st \in Outstanding
      PROVE  /\ st \in Statements /\ Legal(st)
             /\ pc[st.job] \notin {"idle", "done"} \/ st.to = PrintFailed
  <2>1. ASSUME NEW j \in Jobs, pc[j] \in StatementPoints, st = HandlerStatement(j)
        PROVE  /\ st \in Statements /\ Legal(st)
               /\ pc[st.job] \notin {"idle", "done"}
    BY <2>1, HandlerStatementFacts DEF StatementPoints
  <2>2. ASSUME NEW e \in batch, st = SweepStatement(e)
        PROVE  st \in Statements /\ Legal(st) /\ st.to = PrintFailed
    BY <2>2, SweepStatementFacts
  <2> QED
    BY <2>1, <2>2 DEF Outstanding
<1>5. \A j \in Jobs : /\ paper'[j] \in Nat /\ paper[j] <= paper'[j]
                      /\ paper'[j] <= attempt[j]
                      /\ paper'[j] # paper[j] => pc[j] = "send"
  BY <1>2, SMT DEF TypeOK, PaperPerAttempt
<1>6. TypeOK'
  <2>1. pc' \in [Jobs -> HandlerPoints]
    BY <1>3, SMT DEF TypeOK, HandlerPoints, StatementPoints
  <2>2. paper' \in [Jobs -> 0..MaxAttempts]
    BY <1>2, <1>5, AttemptsAssumption, SMT DEF TypeOK
  <2>3. inflight' \subseteq Statements
    BY <1>1, <1>4 DEF TypeOK
  <2>4. crashes' \in 0..MaxCrashes
    BY <1>3, BoundsAssumption, SMT DEF TypeOK
  <2> QED
    BY <1>3, <2>1, <2>2, <2>3, <2>4 DEF TypeOK
<1>7. HandlerKnows' /\ PaperPerAttempt'
  BY <1>3, <1>5, SMT DEF TypeOK, HandlerKnows, PaperPerAttempt, Unsent, Sending
<1>8. RowKnows' /\ AnswersAreTrue' /\ PaperIsAccountedFor'
  BY <1>3, <1>5, SMT
     DEF TypeOK, HandlerKnows, RowKnows, AnswersAreTrue, PaperIsAccountedFor,
         Unsent, Sending
<1>9. LateIsHarmless'
  <2> SUFFICES ASSUME NEW st \in inflight'
               PROVE  Legal(st)' /\ (Finished(st.job)' \/ st.to = PrintFailed)
    BY DEF LateIsHarmless
  <2>1. st.job \in Jobs
    BY <1>6 DEF TypeOK, Statements
  <2>2. CASE st \in inflight
    BY <2>1, <2>2, <1>3, <1>5, SMT DEF LateIsHarmless, Legal, Finished, TypeOK
  <2>3. CASE st \in Outstanding
    BY <2>1, <2>3, <1>3, <1>4, <1>5, SMT DEF Legal, Finished, TypeOK
  <2> QED
    BY <2>2, <2>3, <1>1
<1> QED
  BY <1>6, <1>7, <1>8, <1>9 DEF IInv

-----------------------------------------------------------------------------
LEMMA NextIInv == IInv /\ [Next]_vars => IInv'
<1> SUFFICES ASSUME IInv, [Next]_vars PROVE IInv'
  OBVIOUS
<1>1. ASSUME NEW j \in Jobs, Handler(j) PROVE IInv'
  BY <1>1, PcStep, RejectStep, PickDestinationStep, SpoolStep, RetryStep, StatementStep
     DEF Handler
<1>2. ASSUME NEW st \in inflight, ExecuteLate(st) \/ Discard(st) PROVE IInv'
  BY <1>2, ExecuteLateStep, QuietStep
<1> QED
  BY <1>1, <1>2, SweepJobStep, CrashStep, QuietStep DEF Next, Database, Quiescent

LEMMA Invariance == Spec => []IInv
<1>1. Init => IInv
  BY InitIInv
<1>2. IInv /\ [Next]_vars => IInv'
  BY NextIInv
<1> QED
  BY <1>1, <1>2, PTL DEF Spec

-----------------------------------------------------------------------------
(* How rows move.  Every step moves at most one row: into the table with    *)
(* the verdict on its cost, or along validTransitions.                      *)

Moves(j) ==
    /\ row' = [row EXCEPT ![j] = row'[j]]
    /\ \/ row'[j] = row[j]
       \/ row[j] = NoRow /\ row'[j] = Verdict(j)
       \/ ValidTransition(row[j], row'[j]) /\ row'[j] # Refunded

LEMMA ExecuteMoves ==
    ASSUME TypeOK, NEW st \in Statements, Legal(st), Execute(st)
    PROVE  Moves(st.job)
<1>1. st.job \in Jobs
  BY DEF Statements
<1> QED
  BY <1>1 DEF TypeOK, Execute, Matches, Written, Legal, Moves

LEMMA StepMoves ==
    ASSUME IInv, [Next]_vars
    PROVE  UNCHANGED row \/ \E j \in Jobs : Moves(j)
<1> USE DEF IInv
<1>1. ASSUME NEW j \in Jobs, CheckQuotaAndStore(j) \/ MarkSent(j) \/ resolve(j)
      PROVE  UNCHANGED row \/ Moves(j)
  <2> DEFINE st == HandlerStatement(j)
  <2>1. st \in Statements /\ st.job = j /\ Legal(st)
    BY <1>1, HandlerStatementFacts
       DEF CheckQuotaAndStore, MarkSent, resolve, StatementPoints
  <2>2. Execute(st) \/ UNCHANGED row
    BY <1>1 DEF CheckQuotaAndStore, MarkSent, resolve, Affected, Unexpected, Broken,
                tableVars
  <2> HIDE DEF st
  <2> QED
    BY <2>1, <2>2, ExecuteMoves
<1>2. ASSUME NEW j \in Jobs, Handler(j)
      PROVE  UNCHANGED row \/ Moves(j)
  BY <1>1, <1>2 DEF Handler, Receive, Reject, PickDestination, PickFails, Spool,
       SendOk, SendTimesOut, SendFails, Retry, RetryTimesOut
<1>3. ASSUME SweepJob
      PROVE  UNCHANGED row \/ \E j \in Jobs : Moves(j)
  <2>1. PICK e \in batch : \/ Affected(SweepStatement(e))
                           \/ Unexpected(SweepStatement(e))
                           \/ Broken(SweepStatement(e))
    BY <1>3 DEF SweepJob
  <2> DEFINE st == SweepStatement(e)
  <2>2. st \in Statements /\ Legal(st)
    BY SweepStatementFacts
  <2>3. Execute(st) \/ UNCHANGED row
    BY <2>1 DEF Affected, Unexpected, Broken, tableVars
  <2> HIDE DEF st
  <2>4. st.job \in Jobs
    BY <2>2 DEF Statements
  <2> QED
    BY <2>2, <2>3, <2>4, ExecuteMoves
<1>4. ASSUME NEW st \in inflight, ExecuteLate(st)
      PROVE  Moves(st.job) /\ st.job \in Jobs
  BY <1>4, ExecuteMoves DEF ExecuteLate, LateIsHarmless, TypeOK, Statements
<1> QED
  BY <1>2, <1>3, <1>4 DEF Next, Database, Discard, SweepPass, Tick, Crash, Restart,
       Quiescent, vars

(* What a move does to the set of jobs that deduct quota.                   *)
LEMMA MoveCharges ==
    ASSUME TypeOK, NEW j \in Jobs, Moves(j)
    PROVE  \/ /\ row[j] = NoRow /\ row'[j] = QuotaDeducted
              /\ ~ (Remaining(Owner[j]) < Cost[j])
              /\ j \notin Charged /\ Charged' = Charged \cup {j}
           \/ /\ row[j] = NoRow /\ row'[j] = QuotaInsufficient
              /\ Remaining(Owner[j]) < Cost[j]
              /\ j \notin Charged /\ Charged' = Charged
           \/ /\ row[j] \in {QuotaDeducted, PrintSent} /\ row'[j] = PrintFailed
              /\ j \in Charged /\ Charged' = Charged \ {j}
           \/ /\ row'[j] = row[j] \/ row'[j] \in {PrintSent, PrintSucceeded}
              /\ row'[j] = row[j] \/ row[j] \in {QuotaDeducted, PrintSent}
              /\ Charged' = Charged
<1> USE DEF TypeOK, Moves, Charged, DeductsQuota, QuotaDeductingStates, Verdict
<1>1. CASE row'[j] = row[j]
  BY <1>1
<1>2. CASE row[j] = NoRow /\ row'[j] = Verdict(j)
  BY <1>2
<1>3. CASE ValidTransition(row[j], row'[j]) /\ row'[j] # Refunded
  BY <1>3 DEF ValidTransition, validTransitions
<1> QED
  BY <1>1, <1>2, <1>3

LEMMA MoveIsSolvent ==
    ASSUME TypeOK, NoOverspend, NEW j \in Jobs, Moves(j)
    PROVE  NoOverspend'
<1> SUFFICES ASSUME NEW u \in Users
             PROVE  Spent(Charged', u) <= Grant[u]
  BY DEF NoOverspend
<1>1. Spent(Charged, u) <= Grant[u]
  BY DEF NoOverspend
<1>2. Grant[u] \in Nat /\ Spent(Charged, u) \in Nat /\ Spent(Charged', u) \in Nat
  BY GrantAssumption, SpentType
<1>3. CASE Charged' = Charged \cup {j} /\ j \notin Charged
           /\ ~ (Remaining(Owner[j]) < Cost[j])
  <2>1. Spent(Charged', u) =
          Spent(Charged, u) + (IF Owner[j] = u THEN Cost[j] ELSE 0)
    BY <1>3, SpentAdd
  <2>2. Cost[j] \in Nat
    BY CostAssumption
  <2>3. CASE Owner[j] = u
    BY <1>2, <1>3, <2>1, <2>2, <2>3, SMT DEF Remaining
  <2>4. CASE Owner[j] # u
    BY <1>1, <1>2, <2>1, <2>4, SMT
  <2> QED
    BY <2>3, <2>4
<1>4. CASE Charged' \subseteq Charged
  <2>1. Spent(Charged', u) <= Spent(Charged, u)
    BY <1>4, SpentMonotone
  <2> QED
    BY <1>1, <1>2, <2>1, SMT
<1> QED
  BY <1>3, <1>4, MoveCharges

(* The ledger sums what the table sums.                                      *)
LEMMA LedgerSums ==
    /\ Ledger!Jobs = Jobs
    /\ \A S, u : Ledger!Spent(S, u) = Spent(S, u)
<1>1. Ledger!Jobs = Jobs
  BY DEF Ledger!Jobs, Jobs
<1>2. \A S : Ledger!CostOf(S) = CostOf(S)
  BY Zenon DEF Ledger!CostOf, CostOf, Ledger!CostUpTo, CostUpTo
<1>3. \A S, u : Ledger!Spent(S, u) = Spent(S, u)
  BY <1>2 DEF Ledger!Spent, Spent, Ledger!JobsOf, JobsOf
<1> QED
  BY <1>1, <1>3

LEMMA MoveIsLedgerStep ==
    ASSUME TypeOK, NEW j \in Jobs, Moves(j)
    PROVE  [Ledger!Next]_(Ledger!vars)
<1> DEFINE released == {i \in Jobs : row[i] \in {PrintFailed, Refunded}}
           refused  == {i \in Jobs : row[i] = QuotaInsufficient}
<1> USE LedgerSums DEF TypeOK, Ledger!Next, Ledger!vars
<1>1. /\ Owner[j] \in Users /\ Grant[Owner[j]] \in Nat /\ Cost[j] \in Nat
      /\ Spent(Charged, Owner[j]) \in Nat
  BY OwnerAssumption, GrantAssumption, CostAssumption, SpentType
<1>2. row' = [row EXCEPT ![j] = row'[j]]
  BY DEF Moves
<1>3. Ledger!CanPay(j) <=> ~ (Remaining(Owner[j]) < Cost[j])
  BY <1>1, LedgerSums, SMT DEF Ledger!CanPay, Remaining
<1>4. CASE /\ row[j] = NoRow /\ row'[j] = QuotaDeducted
           /\ ~ (Remaining(Owner[j]) < Cost[j])
           /\ j \notin Charged /\ Charged' = Charged \cup {j}
  <2>1. released' = released /\ refused' = refused /\ j \notin released \cup refused
    BY <1>2, <1>4
  <2> QED
    BY <1>3, <1>4, <2>1 DEF Ledger!Charge, Ledger!Fresh
<1>5. CASE /\ row[j] = NoRow /\ row'[j] = QuotaInsufficient
           /\ Remaining(Owner[j]) < Cost[j]
           /\ j \notin Charged /\ Charged' = Charged
  <2>1. released' = released /\ refused' = refused \cup {j}
        /\ j \notin released \cup refused
    BY <1>2, <1>5
  <2> QED
    BY <1>3, <1>5, <2>1 DEF Ledger!Refuse, Ledger!Fresh
<1>6. CASE /\ row[j] \in {QuotaDeducted, PrintSent} /\ row'[j] = PrintFailed
           /\ j \in Charged /\ Charged' = Charged \ {j}
  <2>1. released' = released \cup {j} /\ refused' = refused
    BY <1>2, <1>6
  <2> QED
    BY <1>6, <2>1 DEF Ledger!Release
<1>7. CASE /\ row'[j] = row[j] \/ row'[j] \in {PrintSent, PrintSucceeded}
           /\ row'[j] = row[j] \/ row[j] \in {QuotaDeducted, PrintSent}
           /\ Charged' = Charged
  <2>1. released' = released /\ refused' = refused
    BY <1>2, <1>7
  <2> QED
    BY <1>7, <2>1
<1> QED
  BY <1>4, <1>5, <1>6, <1>7, MoveCharges

-----------------------------------------------------------------------------
(* If the age bound covers handlers, the row of a running one is its own:   *)
(* the sweeper has not seen it, and no statement of anyone is on its way.   *)

Shielded(j) ==
    /\ cutoff < j
    /\ \A e \in batch : e[1] # j
    /\ \A st \in inflight : st.job # j
    /\ pc[j] \in Unsent => row[j] = QuotaDeducted
    /\ pc[j] \in Sending => row[j] = PrintSent

Shield == \A j \in Jobs : Finished(j) \/ Shielded(j)

(* A finished request stays finished.                                       *)
LEMMA FinishedStays ==
    ASSUME TypeOK, [Next]_vars, NEW j \in Jobs, Finished(j)
    PROVE  Finished(j)'
<1>1. pc[j] \in {"done", "lost"}
  BY DEF Finished
<1>2. CASE \E i \in Jobs : Handler(i)
  <2> PICK i \in Jobs : Handler(i)
    BY <1>2
  <2>1. i # j
    BY <1>1 DEF Handler, Receive, Reject, Arrives, CheckQuotaAndStore, PickDestination,
       PickFails, MarkSent, Spool, SendOk, SendTimesOut, SendFails, MayFail, Retry,
       RetryTimesOut, resolve
  <2>2. \E point : pc' = [pc EXCEPT ![i] = point]
    BY DEF Handler, Receive, Reject, CheckQuotaAndStore, PickDestination,
       PickFails, MarkSent, Spool, SendOk, SendTimesOut, SendFails, Retry,
       RetryTimesOut, resolve, GoTo, Answer
  <2> QED
    BY <1>1, <2>1, <2>2 DEF Finished, TypeOK
<1>3. CASE Crash
  BY <1>1, <1>3 DEF Crash, Finished
<1>4. CASE UNCHANGED pc
  BY <1>1, <1>4 DEF Finished
<1> QED
  BY <1>2, <1>3, <1>4 DEF Next, SweepPass, SweepJob, Tick, Database, ExecuteLate,
     Discard, Restart, Quiescent, vars

(* A handler's own steps leave the shield of another request as it is.      *)
LEMMA HandlerShieldsOthers ==
    ASSUME IInv, NEW i \in Jobs, Handler(i), NEW j \in Jobs, i # j, Shielded(j)
    PROVE  Shielded(j)'
<1>1. /\ cutoff' = cutoff /\ batch' = batch /\ pc'[j] = pc[j]
  BY DEF IInv, TypeOK, Handler, Receive, Reject, CheckQuotaAndStore, PickDestination,
     PickFails, MarkSent, Spool, SendOk, SendTimesOut, SendFails, Retry,
     RetryTimesOut, resolve, GoTo, Answer
<1>2. CASE UNCHANGED <<row, inflight>>
  BY <1>1, <1>2 DEF Shielded, Unsent, Sending
<1>3. CASE CheckQuotaAndStore(i) \/ MarkSent(i) \/ resolve(i)
  <2> DEFINE st == HandlerStatement(i)
  <2>1. st \in Statements /\ st.job = i
    BY <1>3, HandlerStatementFacts DEF CheckQuotaAndStore, MarkSent, resolve, StatementPoints
  <2>2. Affected(st) \/ Unexpected(st) \/ Broken(st)
    BY <1>3 DEF CheckQuotaAndStore, MarkSent, resolve
  <2> HIDE DEF st
  <2>3. row'[j] = row[j] /\ inflight' \subseteq inflight \cup {st}
    BY <2>1, <2>2 DEF Affected, Unexpected, Broken, Execute, tableVars, IInv, TypeOK
  <2> QED
    BY <1>1, <2>1, <2>3 DEF Shielded, Unsent, Sending
<1> QED
  BY <1>2, <1>3 DEF Handler, Receive, Reject, PickDestination, PickFails, Spool,
     SendOk, SendTimesOut, SendFails, Retry, RetryTimesOut

(* Nor can the handler's own steps break it.                                *)
LEMMA HandlerShieldsItself ==
    ASSUME IInv, NEW j \in Jobs, Handler(j), Shielded(j)
    PROVE  Finished(j)' \/ Shielded(j)'
<1> USE DEF IInv, TypeOK
<1>1. cutoff' = cutoff /\ batch' = batch
  BY DEF Handler, Receive, Reject, CheckQuotaAndStore, PickDestination,
     PickFails, MarkSent, Spool, SendOk, SendTimesOut, SendFails, Retry,
     RetryTimesOut, resolve
<1>2. CASE CheckQuotaAndStore(j) \/ MarkSent(j)
  <2> DEFINE st == HandlerStatement(j)
  <2>1. /\ st.job = j
        /\ pc[j] = "store" => st.from = NoRow
        /\ pc[j] = "mark" => st.from = QuotaDeducted /\ st.to = PrintSent
    BY <1>2, HandlerStatementFacts DEF CheckQuotaAndStore, MarkSent, StatementPoints
  <2>2. \/ pc'[j] = "done"
        \/ Affected(st) /\ pc[j] = "store" /\ Verdict(j) = QuotaDeducted /\ pc'[j] = "pick"
        \/ Affected(st) /\ pc[j] = "mark" /\ pc'[j] = "send"
    BY <1>2 DEF CheckQuotaAndStore, MarkSent, GoTo, Answer
  <2> HIDE DEF st
  <2>3. CASE pc'[j] = "done"
    BY <2>3 DEF Finished
  <2>4. CASE Affected(st) /\ pc[j] = "store" /\ Verdict(j) = QuotaDeducted /\ pc'[j] = "pick"
    <3>1. row'[j] = QuotaDeducted /\ inflight' = inflight
      BY <2>1, <2>4 DEF Affected, Execute, Written
    <3> QED
      BY <1>1, <2>4, <3>1 DEF Shielded, Unsent, Sending
  <2>5. CASE Affected(st) /\ pc[j] = "mark" /\ pc'[j] = "send"
    <3>1. row'[j] = PrintSent /\ inflight' = inflight
      BY <2>1, <2>5 DEF Affected, Execute, Written
    <3> QED
      BY <1>1, <2>5, <3>1 DEF Shielded, Unsent, Sending
  <2> QED
    BY <2>2, <2>3, <2>4, <2>5
<1>3. CASE resolve(j) \/ Reject(j)
  BY <1>3 DEF resolve, Reject, Answer, GoTo, Finished
<1>4. CASE Receive(j) \/ PickDestination(j) \/ PickFails(j)
  <2>1. UNCHANGED <<row, inflight>> /\ pc'[j] \in {"store", "mark", "undo"}
    BY <1>4 DEF Receive, PickDestination, PickFails, GoTo
  <2>2. pc'[j] \in Unsent => pc[j] \in Unsent
    BY <1>4, <2>1 DEF Receive, PickDestination, PickFails, GoTo, Unsent
  <2> QED
    BY <1>1, <2>1, <2>2 DEF Shielded, Unsent, Sending
<1>5. CASE Spool(j) \/ SendOk(j) \/ SendTimesOut(j) \/ SendFails(j) \/ Retry(j)
             \/ RetryTimesOut(j)
  <2>1. UNCHANGED <<row, inflight>> /\ pc[j] \in Sending /\ pc'[j] \in Sending
    BY <1>5 DEF Spool, SendOk, SendTimesOut, SendFails, MayFail, Retry, RetryTimesOut,
       GoTo, Sending
  <2> QED
    BY <1>1, <2>1 DEF Shielded, Unsent, Sending
<1> QED
  BY <1>2, <1>3, <1>4, <1>5 DEF Handler

(* The sweeper, the clock, the database and the process.                    *)
LEMMA OthersShield ==
    ASSUME IInv, Shield, AgeBoundCoversHandler, NEW j \in Jobs, Shielded(j),
           SweepPass \/ SweepJob \/ Tick \/ Database \/ Crash \/ Restart \/ UNCHANGED vars
    PROVE  Finished(j)' \/ Shielded(j)'
<1> USE DEF IInv, TypeOK
<1>1. CASE SweepPass
  <2>1. \A e \in batch' : e[1] <= cutoff
    <3>1. \A i \in StaleJobs : i <= cutoff
      BY DEF StaleJobs, Stale
    <3>2. batch' = {<<i, row[i]>> : i \in StaleJobs}
      BY <1>1 DEF SweepPass
    <3>3. TAKE e \in batch'
    <3>4. PICK i \in StaleJobs : e = <<i, row[i]>>
      BY <3>2
    <3> QED
      BY <3>1, <3>4
  <2>2. \A e \in batch' : e[1] # j
    BY <2>1, NAssumption, SMT DEF Shielded, Jobs
  <2> QED
    BY <1>1, <2>2 DEF SweepPass, Shielded
<1>2. CASE SweepJob
  <2>1. PICK e \in batch : /\ \/ Affected(SweepStatement(e))
                               \/ Unexpected(SweepStatement(e))
                               \/ Broken(SweepStatement(e))
                            /\ batch' = batch \ {e}
    BY <1>2 DEF SweepJob
  <2>2. SweepStatement(e).job = e[1] /\ e[1] # j
    BY DEF SweepStatement, Statement, Shielded
  <2> DEFINE st == SweepStatement(e)
  <2> HIDE DEF st
  <2>3. row'[j] = row[j] /\ inflight' \subseteq inflight \cup {st}
    BY <2>1, <2>2 DEF Affected, Unexpected, Broken, Execute, tableVars, st
  <2>4. UNCHANGED <<pc, cutoff>>
    BY <1>2 DEF SweepJob
  <2> QED
    BY <2>1, <2>2, <2>3, <2>4 DEF Shielded, Unsent, Sending, st
<1>3. CASE Tick
  <2>1. Finished(cutoff + 1) /\ cutoff' = cutoff + 1 /\ cutoff + 1 \in Jobs
    BY <1>3, NAssumption, SMT DEF Tick, Jobs
  <2>2. UNCHANGED <<row, inflight, pc, batch>>
    BY <1>3 DEF Tick
  <2>3. CASE j = cutoff + 1
    BY <2>1, <2>2, <2>3 DEF Finished
  <2>4. CASE j # cutoff + 1
    <3>1. cutoff' < j
      BY <2>1, <2>4, NAssumption, SMT DEF Shielded, Jobs
    <3> QED
      BY <2>2, <3>1 DEF Shielded
  <2> QED
    BY <2>3, <2>4
<1>4. CASE Database
  <2>1. PICK st \in inflight : ExecuteLate(st) \/ Discard(st)
    BY <1>4 DEF Database
  <2>2. st.job # j
    BY DEF Shielded
  <2>3. /\ row'[j] = row[j] /\ inflight' \subseteq inflight
        /\ UNCHANGED <<pc, cutoff, batch>>
    BY <2>1, <2>2 DEF ExecuteLate, Discard, Execute
  <2> QED
    BY <2>3 DEF Shielded
<1>5. CASE Crash
  <2>1. CASE pc[j] \notin {"idle", "done"}
    BY <1>5, <2>1 DEF Crash, Finished
  <2>2. CASE pc[j] = "done"
    BY <1>5, <2>2 DEF Crash, Finished
  <2>3. CASE pc[j] = "idle"
    <3>1. \A st \in Outstanding : st.job # j
      <4>1. ASSUME NEW i \in Jobs, pc[i] \in StatementPoints
            PROVE  HandlerStatement(i).job # j
        BY <2>3, <4>1, HandlerStatementFacts DEF StatementPoints
      <4>2. \A e \in batch : SweepStatement(e).job # j
        BY DEF SweepStatement, Statement, Shielded
      <4> QED
        BY <4>1, <4>2 DEF Outstanding
    <3>2. \A st \in inflight' : st.job # j
      BY <1>5, <3>1 DEF Crash, Shielded
    <3>3. pc'[j] = "idle" /\ batch' = {} /\ UNCHANGED <<row, cutoff>>
      BY <1>5, <2>3 DEF Crash
    <3> QED
      BY <3>2, <3>3 DEF Shielded, Unsent, Sending
  <2> QED
    BY <2>1, <2>2, <2>3
<1>6. CASE Restart \/ UNCHANGED vars
  BY <1>6 DEF Restart, vars, Shielded
<1> QED
  BY <1>1, <1>2, <1>3, <1>4, <1>5, <1>6

LEMMA ShieldStep ==
    ASSUME IInv, Shield, AgeBoundCoversHandler, [Next]_vars
    PROVE  Shield'
<1> SUFFICES ASSUME NEW j \in Jobs
             PROVE  Finished(j)' \/ Shielded(j)'
  BY DEF Shield
<1>1. CASE Finished(j)
  BY <1>1, FinishedStays DEF IInv
<1>2. CASE Shielded(j) /\ \E i \in Jobs : Handler(i)
  BY <1>2, HandlerShieldsOthers, HandlerShieldsItself
<1>3. CASE Shielded(j) /\ ~ \E i \in Jobs : Handler(i)
  BY <1>3, OthersShield DEF Next, Quiescent
<1> QED
  BY <1>1, <1>2, <1>3 DEF Shield

LEMMA ShieldHolds == Spec /\ AgeBoundCoversHandler => [](IInv /\ Shield)
<1> DEFINE Covered == AgeBoundCoversHandler /\ IInv /\ Shield
<1>1. Init /\ AgeBoundCoversHandler => Covered
  <2>1. Init => Shield
    BY NAssumption, SMT DEF Init, Shield, Shielded, Jobs, Unsent, Sending
  <2> QED
    BY <2>1, InitIInv
<1>2. Covered /\ IInv' /\ [Next]_vars => Covered'
  <2>1. AgeBoundCoversHandler' = AgeBoundCoversHandler
    OBVIOUS
  <2> QED
    BY <2>1, ShieldStep
<1>3. Covered => IInv /\ Shield
  OBVIOUS
<1> QED
  BY <1>1, <1>2, <1>3, Invariance, PTL DEF Spec

-----------------------------------------------------------------------------
(* Charged exactly if printed.  As long as no call has erred and the        *)
(* process has not stopped, if smbclient fails only before it printed and   *)
(* the age bound covers handlers, the handler alone settles its row.        *)

Trusted == HonestPrinter /\ AgeBoundCoversHandler
Calm == faults = 0 /\ crashes = 0

Settled(j) ==
    /\ pc[j] # "lost"
    /\ pc[j] \in {"send", "retry", "giveUp"} => paper[j] = 0
    /\ pc[j] = "done" => /\ row[j] \notin {QuotaDeducted, PrintSent}
                         /\ DeductsQuota(row[j]) <=> paper[j] > 0

Orderly == inflight = {} /\ batch = {} /\ \A j \in Jobs : Settled(j)

\* A statement of a running handler always matches.
LEMMA ShieldedMatches ==
    ASSUME IInv, Shield, NEW j \in Jobs, pc[j] \in StatementPoints
    PROVE  Matches(HandlerStatement(j))
<1>1. Shielded(j)
  BY DEF Shield, Finished, StatementPoints
<1>2. /\ HandlerStatement(j).job = j
      /\ HandlerStatement(j).from =
            IF pc[j] = "store" THEN NoRow
            ELSE IF pc[j] \in {"mark", "undo"} THEN QuotaDeducted ELSE PrintSent
  BY HandlerStatementFacts DEF StatementPoints
<1> QED
  BY <1>1, <1>2 DEF Matches, Shielded, Unsent, Sending, StatementPoints, IInv, HandlerKnows

LEMMA HandlerMatches ==
    ASSUME IInv, Shield, Calm, Calm', NEW j \in Jobs, pc[j] \in StatementPoints
    PROVE  Matches(HandlerStatement(j)) /\ ~ Broken(HandlerStatement(j))
<1>1. ~ Broken(HandlerStatement(j))
  BY SMT DEF Broken, Calm
<1> QED
  BY <1>1, ShieldedMatches

LEMMA HandlerSettles ==
    ASSUME IInv, Shield, Trusted, Calm, Calm', Orderly, NEW i \in Jobs, Handler(i)
    PROVE  Orderly'
<1> USE DEF IInv, TypeOK, Orderly
<1>1. CASE CheckQuotaAndStore(i) \/ MarkSent(i) \/ resolve(i)
  <2>1. /\ pc[i] \in StatementPoints
        /\ Affected(HandlerStatement(i))
    BY <1>1, HandlerMatches
       DEF CheckQuotaAndStore, MarkSent, resolve, StatementPoints, Unexpected
  <2> DEFINE st == HandlerStatement(i)
  <2>2. /\ st.job = i
        /\ st.from = NoRow <=> pc[i] = "store"
        /\ st.to = IF pc[i] = "store" THEN QuotaDeducted
                   ELSE IF pc[i] = "mark" THEN PrintSent
                   ELSE IF pc[i] = "confirm" THEN PrintSucceeded ELSE PrintFailed
    BY <2>1, HandlerStatementFacts DEF StatementPoints
  <2>3. Matches(st) /\ Affected(st)
    BY <2>1, HandlerMatches
  <2> HIDE DEF st
  <2>4. row' = [row EXCEPT ![i] = IF pc[i] = "store" THEN Verdict(i) ELSE st.to]
    BY <2>2, <2>3 DEF Affected, Execute, Written
  <2>5. UNCHANGED <<inflight, batch, paper>>
    BY <1>1, <2>3 DEF Affected, CheckQuotaAndStore, MarkSent, resolve
  <2>6. \/ pc[i] = "store" /\ Verdict(i) = QuotaDeducted /\ pc' = [pc EXCEPT ![i] = "pick"]
        \/ pc[i] = "store" /\ Verdict(i) = QuotaInsufficient
             /\ pc' = [pc EXCEPT ![i] = "done"]
        \/ pc[i] = "mark" /\ pc' = [pc EXCEPT ![i] = "send"]
        \/ pc[i] \in {"undo", "confirm", "giveUp"} /\ pc' = [pc EXCEPT ![i] = "done"]
    BY <1>1, <2>1, HandlerMatches
       DEF CheckQuotaAndStore, MarkSent, resolve, GoTo, Answer, Unexpected
  <2>7. Settled(i)'
    BY <2>2, <2>4, <2>5, <2>6, SMT
       DEF Settled, HandlerKnows, Unsent, DeductsQuota, QuotaDeductingStates
  <2>8. \A j \in Jobs \ {i} : Settled(j)'
    BY <2>4, <2>5, <2>6 DEF Settled
  <2> QED
    BY <2>5, <2>7, <2>8
<1>2. CASE Receive(i) \/ Reject(i) \/ PickDestination(i) \/ PickFails(i)
  <2>1. /\ UNCHANGED <<row, inflight, batch, paper>>
        /\ \E point \in {"store", "mark", "undo", "done"} :
              /\ pc' = [pc EXCEPT ![i] = point]
              /\ point = "done" => pc[i] = "idle"
    BY <1>2 DEF Receive, Reject, Arrives, PickDestination, PickFails, GoTo, Answer
  <2> QED
    BY <2>1 DEF Settled, HandlerKnows, DeductsQuota, QuotaDeductingStates
<1>3. CASE Spool(i)
  BY <1>3 DEF Spool, GoTo, Settled
<1>4. CASE SendOk(i) \/ SendTimesOut(i) \/ SendFails(i) \/ Retry(i) \/ RetryTimesOut(i)
  <2>1. /\ UNCHANGED <<row, inflight, batch, paper>>
        /\ \E point \in {"confirm", "giveUp", "retry", "send"} :
              /\ pc' = [pc EXCEPT ![i] = point]
              /\ point # "confirm" => pc[i] \in {"send", "retry"}
    BY <1>4 DEF SendOk, SendTimesOut, SendFails, MayFail, Retry, RetryTimesOut, GoTo, Trusted
  <2> QED
    BY <2>1 DEF Settled
<1> QED
  BY <1>1, <1>2, <1>3, <1>4 DEF Handler

\* The sweeper finds nothing to do, and nothing is left for the database.
LEMMA NobodyElseActs ==
    ASSUME IInv, Shield, Calm, Calm', Orderly
    PROVE  ~ SweepPass /\ ~ SweepJob /\ ~ Database /\ ~ Crash
<1>1. Stale = {}
  <2> SUFFICES ASSUME NEW j \in Jobs, row[j] \in {QuotaDeducted, PrintSent}, j <= cutoff
               PROVE  FALSE
    BY DEF Stale
  <2>1. cutoff \in 0..N
    BY DEF IInv, TypeOK
  <2>2. ~ (cutoff < j)
    BY <2>1, NAssumption, SMT DEF Jobs
  <2>3. Finished(j)
    BY <2>2 DEF Shield, Shielded
  <2> QED
    BY <2>3 DEF Orderly, Settled, Finished
<1>2. ~ SweepPass
  BY <1>1 DEF SweepPass, StaleJobs
<1>3. ~ Crash
  <2>1. Crash => crashes' = crashes + 1
    BY DEF Crash
  <2> QED
    BY <2>1, SMT DEF Calm
<1> QED
  BY <1>2, <1>3 DEF Orderly, SweepJob, Database

LEMMA OrderlyStep ==
    ASSUME IInv, Shield, Trusted, Calm, Calm', Orderly, [Next]_vars
    PROVE  Orderly'
<1>1. CASE \E i \in Jobs : Handler(i)
  BY <1>1, HandlerSettles
<1>2. CASE Tick \/ Restart \/ UNCHANGED vars
  BY <1>2 DEF Tick, Restart, vars, Orderly, Settled
<1> QED
  BY <1>1, <1>2, NobodyElseActs DEF Next, Quiescent

\* Faults and crashes are only counted up.
LEMMA CalmBefore ==
    ASSUME IInv, [Next]_vars, Calm'
    PROVE  Calm
<1>1. faults \in Nat /\ crashes \in Nat
  BY BoundsAssumption, SMT DEF IInv, TypeOK
<1>2. faults' \in {faults, faults + 1}
  BY DEF Next, Handler, Receive, Reject, CheckQuotaAndStore, PickDestination,
     PickFails, MarkSent, Spool, SendOk, SendTimesOut, SendFails, Retry,
     RetryTimesOut, resolve, Affected, Unexpected, Broken, SweepPass, SweepJob,
     Tick, Database, ExecuteLate, Discard, Crash, Restart, Quiescent, vars
<1>3. crashes' \in {crashes, crashes + 1}
  BY DEF Next, Handler, Receive, Reject, CheckQuotaAndStore, PickDestination,
     PickFails, MarkSent, Spool, SendOk, SendTimesOut, SendFails, Retry,
     RetryTimesOut, resolve, SweepPass, SweepJob,
     Tick, Database, ExecuteLate, Discard, Crash, Restart, Quiescent, vars
<1> QED
  BY <1>1, <1>2, <1>3, SMT DEF Calm

-----------------------------------------------------------------------------
(* What a page says about the print, with any errors and crashes.           *)

\* An honest printer has nothing of an attempt that failed.
NotPrinted ==
    \A j \in Jobs :
        /\ pc[j] \in {"send", "retry", "giveUp"} => paper[j] = 0
        /\ told[j] \in {"rejected", "insufficient", "failed"} => paper[j] = 0

LEMMA HandlerNotPrinted ==
    ASSUME IInv, Shield, Trusted, NotPrinted, NEW i \in Jobs, Handler(i)
    PROVE  NotPrinted'
<1> USE DEF IInv, TypeOK, NotPrinted
<1>1. CASE CheckQuotaAndStore(i) \/ MarkSent(i) \/ resolve(i)
  <2>1. /\ pc[i] \in StatementPoints /\ UNCHANGED paper
        /\ \E point \in {"pick", "send", "done"} :
              /\ pc' = [pc EXCEPT ![i] = point]
              /\ point = "send" => pc[i] = "mark"
    BY <1>1 DEF CheckQuotaAndStore, MarkSent, resolve, StatementPoints, GoTo, Answer
  <2>2. /\ \A j \in Jobs \ {i} : told'[j] = told[j]
        /\ \/ told'[i] = told[i]
           \/ told'[i] \in {"succeeded", "unconfirmed"}
           \/ told'[i] \in {"insufficient", "failed"} /\ pc[i] # "confirm"
    <3>1. ~ Unexpected(HandlerStatement(i))
      BY <2>1, ShieldedMatches DEF Unexpected
    <3> QED
      BY <1>1, <3>1 DEF CheckQuotaAndStore, MarkSent, resolve, Answer
  <2>3. pc[i] \in {"store", "mark", "undo", "giveUp"} => paper[i] = 0
    BY DEF HandlerKnows, Unsent
  <2> QED
    BY <2>1, <2>2, <2>3 DEF StatementPoints
<1>2. CASE Receive(i) \/ Reject(i) \/ PickDestination(i) \/ PickFails(i)
  <2>1. /\ UNCHANGED paper /\ paper[i] = 0
        /\ \E point \in {"store", "mark", "undo", "done"} : pc' = [pc EXCEPT ![i] = point]
        /\ \A j \in Jobs \ {i} : told'[j] = told[j]
    BY <1>2 DEF Receive, Reject, Arrives, PickDestination, PickFails, GoTo, Answer,
                HandlerKnows, Unsent
  <2> QED
    BY <2>1
<1>3. CASE Spool(i)
  <2>1. told[i] = "none"
    BY <1>3 DEF Spool, AnswersAreTrue
  <2> QED
    BY <1>3, <2>1 DEF Spool, GoTo
<1>4. CASE SendOk(i) \/ SendTimesOut(i) \/ SendFails(i) \/ Retry(i) \/ RetryTimesOut(i)
  <2>1. /\ UNCHANGED <<paper, told>>
        /\ \E point \in {"confirm", "giveUp", "retry", "send"} :
              /\ pc' = [pc EXCEPT ![i] = point]
              /\ point # "confirm" => pc[i] \in {"send", "retry"}
    BY <1>4 DEF SendOk, SendTimesOut, SendFails, MayFail, Retry, RetryTimesOut, GoTo, Trusted
  <2> QED
    BY <2>1
<1> QED
  BY <1>1, <1>2, <1>3, <1>4 DEF Handler

LEMMA NotPrintedStep ==
    ASSUME IInv, Shield, Trusted, NotPrinted, [Next]_vars
    PROVE  NotPrinted'
<1>1. CASE \E i \in Jobs : Handler(i)
  BY <1>1, HandlerNotPrinted
<1>2. CASE Crash
  <2> SUFFICES ASSUME NEW j \in Jobs
               PROVE  /\ pc'[j] \notin {"send", "retry", "giveUp"}
                      /\ told'[j] \in {"rejected", "insufficient", "failed"} => paper'[j] = 0
    BY DEF NotPrinted
  <2>1. pc'[j] \in {"idle", "done", "lost"} /\ told' = told
    BY <1>2 DEF Crash
  <2>2. told[j] # "none" => pc[j] = "done"
    BY DEF IInv, AnswersAreTrue
  <2>3. pc[j] = "done" => paper'[j] = paper[j]
    BY <1>2, SMT DEF Crash, IInv, TypeOK
  <2> QED
    BY <2>1, <2>2, <2>3 DEF NotPrinted
<1>3. CASE UNCHANGED <<pc, told, paper>>
  BY <1>3 DEF NotPrinted
<1> QED
  BY <1>1, <1>2, <1>3, Zenon
     DEF Next, SweepPass, SweepJob, Tick, Database, ExecuteLate, Discard, Restart,
         Quiescent, vars

-----------------------------------------------------------------------------
(* Requests end.  Liveness is TLC's, but what it rests on besides fairness  *)
(* is a matter of steps: how many a request can still take.                 *)

\* Of a handler at a point, in its nth attempt: each round is a try, its
\* outcome and the pause.
StepsFrom(point, n) ==
    LET rounds == 3 * (MaxAttempts - n) IN
    CASE point = "idle"    -> rounds + 7
      [] point = "store"   -> rounds + 6
      [] point = "pick"    -> rounds + 5
      [] point = "mark"    -> rounds + 4
      [] point = "send"    -> rounds + 3
      [] point = "spooled" -> rounds + 2
      [] point = "retry"   -> rounds + 1
      [] point \in {"undo", "confirm", "giveUp"} -> 1
      [] point \in {"done", "lost"} -> 0

StepsLeft(j) == StepsFrom(pc[j], attempt[j])

(* Every step of a request, and the crash that ends it, leaves it fewer.    *)
EndsInSteps ==
    [][\A j \in Jobs :
          /\ Handler(j) \/ pc'[j] # pc[j] => StepsLeft(j)' < StepsLeft(j)
          /\ StepsLeft(j)' >= 0]_vars

LEMMA StepsAreNat ==
    ASSUME NEW point \in HandlerPoints, NEW n \in 1..MaxAttempts
    PROVE  /\ StepsFrom(point, n) \in Nat
           /\ StepsFrom(point, n) = 0 <=> point \in {"done", "lost"}
BY AttemptsAssumption, SMT DEF StepsFrom, HandlerPoints, StatementPoints

\* From a point in the nth attempt to the next.
LEMMA NextPointIsCloser ==
    ASSUME NEW point \in HandlerPoints, NEW next \in HandlerPoints, NEW n \in 1..MaxAttempts,
           point = "retry" => n < MaxAttempts,
           \/ point = "idle" /\ next = "store"
           \/ point = "store" /\ next = "pick"
           \/ point = "pick" /\ next = "mark"
           \/ point = "mark" /\ next = "send"
           \/ point = "send" /\ next = "spooled"
           \/ point \in {"send", "spooled"} /\ next = "retry"
           \/ next \in {"undo", "confirm", "giveUp"}
              /\ point \notin {"undo", "confirm", "giveUp", "done", "lost"}
           \/ next = "done" /\ point \notin {"done", "lost"}
    PROVE  StepsFrom(next, n) < StepsFrom(point, n)
<1>1. 3 * (MaxAttempts - n) \in Nat
  BY AttemptsAssumption, SMT
<1>2. CASE next = "done"
  <2>1. StepsFrom(point, n) # 0 /\ StepsFrom(point, n) \in Nat
    BY <1>2, StepsAreNat
  <2>2. StepsFrom(next, n) = 0
    BY <1>2, StepsAreNat
  <2> QED
    BY <2>1, <2>2, SMT
<1>3. CASE next \in {"undo", "confirm", "giveUp"}
  <2>1. point \in {"idle", "store", "pick", "mark", "send", "spooled", "retry"}
    BY <1>3 DEF HandlerPoints, StatementPoints
  <2>2. point = "retry" => 3 * (MaxAttempts - n) > 0
    BY AttemptsAssumption, SMT
  <2>3. StepsFrom(point, n) > 1
    BY <1>1, <2>1, <2>2, SMT DEF StepsFrom
  <2>4. StepsFrom(next, n) = 1
    BY <1>1, <1>3, SMT DEF StepsFrom
  <2> QED
    BY <2>3, <2>4
<1>4. CASE next \notin {"undo", "confirm", "giveUp", "done"}
  BY <1>1, <1>4, SMT DEF StepsFrom
<1> QED
  BY <1>2, <1>3, <1>4

LEMMA HandlerEnds ==
    ASSUME IInv, IInv', NEW j \in Jobs, Handler(j)
    PROVE  StepsLeft(j)' < StepsLeft(j)
<1>1. /\ pc[j] \in HandlerPoints /\ pc \in [Jobs -> HandlerPoints]
      /\ pc'[j] \in HandlerPoints
      /\ attempt \in [Jobs -> 1..MaxAttempts]
      /\ attempt[j] \in 1..MaxAttempts
      /\ pc[j] = "retry" => attempt[j] < MaxAttempts
  BY DEF IInv, TypeOK, PaperPerAttempt
<1>2. CASE Retry(j)
  <2>1. pc[j] = "retry" /\ pc'[j] = "send" /\ attempt'[j] = attempt[j] + 1
    BY <1>1, <1>2, SMT DEF Retry, GoTo
  <2>2. StepsFrom("send", attempt[j] + 1) < StepsFrom("retry", attempt[j])
    BY <1>1, AttemptsAssumption, SMT DEF StepsFrom
  <2> QED
    BY <2>1, <2>2 DEF StepsLeft
<1>3. CASE ~ Retry(j)
  <2>1. attempt'[j] = attempt[j]
    BY <1>3, SMT
       DEF Handler, Receive, Reject, CheckQuotaAndStore, PickDestination, PickFails,
           MarkSent, Spool, SendOk, SendTimesOut, SendFails, RetryTimesOut, resolve
  <2>2. \/ pc[j] = "idle" /\ pc'[j] = "store"
        \/ pc[j] = "store" /\ pc'[j] = "pick"
        \/ pc[j] = "pick" /\ pc'[j] = "mark"
        \/ pc[j] = "mark" /\ pc'[j] = "send"
        \/ pc[j] = "send" /\ pc'[j] = "spooled"
        \/ pc[j] \in {"send", "spooled"} /\ pc'[j] = "retry"
        \/ pc[j] = "pick" /\ pc'[j] = "undo"
        \/ pc[j] \in {"send", "spooled", "retry"} /\ pc'[j] \in {"confirm", "giveUp"}
        \/ pc[j] \in StatementPoints \cup {"idle"} /\ pc'[j] = "done"
    BY <1>1, <1>3, SMT
       DEF Handler, Receive, Reject, Arrives, CheckQuotaAndStore, PickDestination,
           PickFails, MarkSent, Spool, SendOk, SendTimesOut, SendFails, MayFail,
           RetryTimesOut, resolve, Answer, GoTo, StatementPoints
  <2>3. StepsFrom(pc'[j], attempt[j]) < StepsFrom(pc[j], attempt[j])
    BY <1>1, <2>2, NextPointIsCloser, Zenon DEF StatementPoints
  <2> QED
    BY <2>1, <2>3 DEF StepsLeft
<1> QED
  BY <1>2, <1>3

LEMMA OnlyCrashEndsOthers ==
    ASSUME TypeOK, NEW j \in Jobs, Next, ~ Handler(j)
    PROVE  \/ pc'[j] = pc[j]
           \/ pc'[j] = "lost" /\ ~ Finished(j)
<1> USE DEF TypeOK
<1>1. CASE \E i \in Jobs : Handler(i)
  <2>1. PICK i \in Jobs : Handler(i)
    BY <1>1
  <2>2. i # j
    BY <2>1
  <2> QED
    BY <2>1, <2>2, SMT
       DEF Handler, Receive, Reject, CheckQuotaAndStore, PickDestination, PickFails,
           MarkSent, Spool, SendOk, SendTimesOut, SendFails, Retry, RetryTimesOut,
           resolve, Answer, GoTo
<1>2. CASE Crash
  BY <1>2, SMT DEF Crash, Finished
<1>3. CASE SweepPass \/ SweepJob \/ Tick \/ Database \/ Restart \/ Quiescent
  BY <1>3, Zenon DEF SweepPass, SweepJob, Tick, Database, ExecuteLate, Discard,
                     Restart, Quiescent, vars
<1> QED
  BY <1>1, <1>2, <1>3 DEF Next

-----------------------------------------------------------------------------
(* The theorems.                                                            *)

(* Every variable keeps its type; in particular nothing is printed more     *)
(* often than MAX_SEND_ATTEMPTS.                                            *)
THEOREM TypeCorrect == Spec => []TypeOK
BY Invariance, PTL DEF IInv

(* handlers.go, last pages of handleSubmit: what they say about the quota   *)
(* agrees with the row, for any errors, crashes, sweeps and printers.       *)
THEOREM PagesTellTheQuota == Spec => []PageTellsTheQuota
<1>1. IInv => PageTellsTheQuota
  BY DEF IInv, AnswersAreTrue, PageTellsTheQuota
<1> QED
  BY <1>1, Invariance, PTL

(* MarkSent before Send: paper comes out only for a job that was marked, at *)
(* the destination its row records.                                         *)
THEOREM PaperIsTraceable == Spec => []PaperIsAccountedFor
<1>1. IInv => PaperIsAccountedFor
  BY DEF IInv
<1> QED
  BY <1>1, Invariance, PTL

(* Nobody is charged for good for a job that the printer never had.         *)
THEOREM ChargedForGoodIsPrinted == Spec => []SucceededIsPrinted
<1>1. IInv => SucceededIsPrinted
  BY DEF IInv, RowKnows, SucceededIsPrinted
<1> QED
  BY <1>1, Invariance, PTL

(* The guarded updates keep every row on validTransitions, whoever writes   *)
(* it and however late.                                                     *)
THEOREM Lifecycle == Spec => RowsFollowLifecycle
<1>1. IInv /\ [Next]_vars =>
        [\A j \in Jobs :
           row'[j] # row[j] =>
             \/ row[j] = NoRow /\ row'[j] \in {QuotaDeducted, QuotaInsufficient}
             \/ ValidTransition(row[j], row'[j])]_vars
  <2> SUFFICES ASSUME IInv, [Next]_vars, NEW j \in Jobs, row'[j] # row[j]
               PROVE  \/ row[j] = NoRow
                           /\ row'[j] \in {QuotaDeducted, QuotaInsufficient}
                      \/ ValidTransition(row[j], row'[j])
    OBVIOUS
  <2>1. PICK i \in Jobs : Moves(i)
    BY StepMoves
  <2>2. i = j
    BY <2>1 DEF Moves, IInv, TypeOK
  <2> QED
    BY <2>1, <2>2 DEF Moves, Verdict
<1> QED
  BY <1>1, Invariance, PTL DEF Spec, RowsFollowLifecycle

(* No interleaving of requests, sweeps, late statements and crashes lets a  *)
(* user have more quota deducted than granted.                              *)
THEOREM Solvency == Spec => []NoOverspend
<1>1. Init => NoOverspend
  <2> SUFFICES ASSUME Init, NEW u \in Users
               PROVE  Spent(Charged, u) <= Grant[u]
    BY DEF NoOverspend
  <2>1. Charged = {}
    BY DEF Init, Charged, DeductsQuota, QuotaDeductingStates
  <2> QED
    BY <2>1, SpentNothing, GrantAssumption, SMT
<1>2. IInv /\ NoOverspend /\ [Next]_vars => NoOverspend'
  <2> SUFFICES ASSUME IInv, NoOverspend, [Next]_vars
               PROVE  NoOverspend'
    OBVIOUS
  <2>1. CASE UNCHANGED row
    BY <2>1 DEF NoOverspend, Charged
  <2>2. CASE \E j \in Jobs : Moves(j)
    BY <2>2, MoveIsSolvent DEF IInv
  <2> QED
    BY <2>1, <2>2, StepMoves
<1> QED
  BY <1>1, <1>2, Invariance, PTL DEF Spec

(* The rows, the handlers and the sweeper implement the ledger.             *)
THEOREM Refinement == Spec => ImplementsLedger
<1>1. Init => Ledger!Init
  BY GrantAssumption
     DEF Init, Ledger!Init, Charged, DeductsQuota, QuotaDeductingStates
<1>2. IInv /\ [Next]_vars => [Ledger!Next]_(Ledger!vars)
  <2> SUFFICES ASSUME IInv, [Next]_vars
               PROVE  [Ledger!Next]_(Ledger!vars)
    OBVIOUS
  <2>1. CASE UNCHANGED row
    BY <2>1 DEF Ledger!vars, Charged
  <2>2. CASE \E j \in Jobs : Moves(j)
    BY <2>2, MoveIsLedgerStep DEF IInv
  <2> QED
    BY <2>1, <2>2, StepMoves
<1> QED
  BY <1>1, <1>2, Invariance, PTL DEF Spec, ImplementsLedger, Ledger!Spec

(* A request takes at most 3 * MaxAttempts + 4 steps, of which the last     *)
(* answers it: Deliver's loop and its resolve end.  That a step is taken    *)
(* at all is the fairness of FairSpec.                                      *)
THEOREM RequestsEnd == Spec => EndsInSteps
<1>1. IInv /\ IInv' /\ [Next]_vars =>
        [\A j \in Jobs :
            /\ Handler(j) \/ pc'[j] # pc[j] => StepsLeft(j)' < StepsLeft(j)
            /\ StepsLeft(j)' >= 0]_vars
  <2> SUFFICES ASSUME IInv, IInv', Next, NEW j \in Jobs
               PROVE  /\ Handler(j) \/ pc'[j] # pc[j] => StepsLeft(j)' < StepsLeft(j)
                      /\ StepsLeft(j)' >= 0
    OBVIOUS
  <2>1. /\ pc[j] \in HandlerPoints /\ attempt[j] \in 1..MaxAttempts
        /\ pc'[j] \in HandlerPoints /\ attempt'[j] \in 1..MaxAttempts
    BY DEF IInv, TypeOK
  <2>2. /\ StepsLeft(j) \in Nat /\ (StepsLeft(j) = 0 => Finished(j))
        /\ StepsLeft(j)' \in Nat /\ (pc'[j] = "lost" => StepsLeft(j)' = 0)
    BY <2>1, StepsAreNat DEF StepsLeft, Finished
  <2>3. CASE Handler(j)
    BY <2>2, <2>3, HandlerEnds, SMT
  <2>4. CASE ~ Handler(j)
    <3>1. \/ pc'[j] = pc[j]
          \/ pc'[j] = "lost" /\ ~ Finished(j)
      BY <2>4, OnlyCrashEndsOthers DEF IInv
    <3> QED
      BY <2>2, <2>4, <3>1, SMT
  <2> QED
    BY <2>3, <2>4
<1> QED
  BY <1>1, Invariance, NextIInv, PTL DEF Spec, EndsInSteps

(* With an age bound that covers handlers, whatever else fails, nothing is  *)
(* handed to the printer for a job whose quota was given back.              *)
THEOREM NothingPrintedLate == Spec /\ AgeBoundCoversHandler => NoPrintAfterResolution
<1> DEFINE P == \A j \in Jobs : paper'[j] > paper[j] => DeductsQuota(row[j])
<1>1. IInv /\ Shield /\ [Next]_vars => P
  <2> SUFFICES ASSUME IInv, Shield, [Next]_vars, NEW j \in Jobs, paper'[j] > paper[j]
               PROVE  DeductsQuota(row[j])
    OBVIOUS
  <2>1. pc[j] = "send"
    <3>1. paper'[j] # paper[j]
      BY SMT DEF IInv, TypeOK
    <3>2. CASE \E i \in Jobs : Spool(i)
      BY <3>1, <3>2 DEF Spool, IInv, TypeOK
    <3>3. CASE Crash
      BY <3>1, <3>3, SMT DEF Crash, IInv, TypeOK
    <3>4. CASE UNCHANGED paper
      BY <3>1, <3>4
    <3> QED
      BY <3>2, <3>3, <3>4 DEF Next, Handler, Receive, Reject, CheckQuotaAndStore,
         PickDestination, PickFails, MarkSent, SendOk, SendTimesOut, SendFails, Retry,
         RetryTimesOut, resolve, SweepPass, SweepJob, Tick, Database, ExecuteLate,
         Discard, Restart, Quiescent, vars
  <2> QED
    BY <2>1 DEF Shield, Shielded, Finished, Sending, DeductsQuota, QuotaDeductingStates
<1> QED
  BY <1>1, ShieldHolds, PTL DEF Spec, NoPrintAfterResolution

(* What those pages say about the print is so, with any errors and crashes, *)
(* if smbclient fails only before it printed and the age bound covers       *)
(* handlers: a handler that gives up has printed nothing, and one that has  *)
(* printed finds its row as it left it.                                     *)
THEOREM PagesTellThePaper == Spec /\ Trusted => []PageTellsThePaper
<1> DEFINE Inv == Trusted /\ NotPrinted
<1>1. Init /\ Trusted => Inv
  BY DEF Init, NotPrinted
<1>2. Inv /\ IInv /\ Shield /\ [Next]_vars => Inv'
  <2>1. Trusted' = Trusted
    BY DEF Trusted
  <2> QED
    BY <2>1, NotPrintedStep
<1>3. Inv /\ IInv => PageTellsThePaper
  BY DEF NotPrinted, PageTellsThePaper, IInv, AnswersAreTrue, RowKnows
<1>4. Trusted => AgeBoundCoversHandler
  BY DEF Trusted
<1> QED
  BY <1>1, <1>2, <1>3, <1>4, ShieldHolds, PTL DEF Spec

(* deliver_test's "user charged iff printed", where it can hold: before the *)
(* first error or crash, and without dishonest failures of smbclient or age *)
(* bounds shorter than a handler.                                           *)
THEOREM ChargedExactlyIfPrinted == Spec /\ Trusted => []ChargedIffPrintedUntilFault
<1> DEFINE Inv == Trusted /\ (Calm => Orderly)
<1>1. Init /\ Trusted => Inv
  BY DEF Init, Orderly, Settled
<1>2. Inv /\ IInv /\ Shield /\ [Next]_vars => Inv'
  <2>1. Trusted' = Trusted
    BY DEF Trusted
  <2> QED
    BY <2>1, CalmBefore, OrderlyStep
<1>3. Inv => ChargedIffPrintedUntilFault
  BY DEF Orderly, Settled, Calm, ChargedIffPrintedUntilFault, ChargedIffPrinted, Finished
<1>4. Trusted => AgeBoundCoversHandler
  BY DEF Trusted
<1> QED
  BY <1>1, <1>2, <1>3, <1>4, ShieldHolds, PTL DEF Spec

=============================================================================
