------------------------- MODULE SweepTiming_proofs -------------------------
(***************************************************************************)
(* Theorems about SweepTiming for all durations.  The argument is a race   *)
(* of two clocks: until it resolves its job, the handler is within its     *)
(* budget, counted from the BEGIN of its transaction; whatever a pass      *)
(* finds stale is older than that.                                         *)
(***************************************************************************)
EXTENDS SweepTiming, TLAPS

USE DEF QuotaDeducted, PrintSent, PrintSucceeded, PrintFailed, NoRow

BeforeSend == Transaction \cup {"dests", "policy", "mark"}

\* The time from BEGIN until the statement at a point must have ended.
Budget(point) ==
    IF point = "begin" THEN StatementTime
    ELSE IF point = "set" THEN 2 * StatementTime
    ELSE LockTimeout + (IF point = "lock" THEN 3 * StatementTime
                        ELSE IF point = "read" THEN 4 * StatementTime
                        ELSE IF point = "insert" THEN 5 * StatementTime
                        ELSE IF point = "commit" THEN 6 * StatementTime
                        ELSE IF point = "dests" THEN 7 * StatementTime
                        ELSE IF point = "policy" THEN 8 * StatementTime
                        ELSE 9 * StatementTime)

\* The age at which the row is stale.
Old == born - Behind + AgeBound

\* The latest begin of a pass that finds the row stale.
Latest == Old + PassTime + Interval + lost

HandlerInTime ==
    /\ pc # "idle" => born <= now
    /\ pc \in BeforeSend => now <= due /\ due <= born + Budget(pc)
    /\ pc \in Sending => /\ now <= sendDue
                         /\ sendDue <= born + 9 * StatementTime + LockTimeout + SendTimeout

RowKnows ==
    /\ pc \in Transaction \cup {"idle"} => row = NoRow
    /\ pc \in {"dests", "policy", "mark"} => row = QuotaDeducted
    /\ pc \in Sending => row = PrintSent

SweeperInTime ==
    /\ sw = "wait" => now <= tick /\ tick <= now + Interval /\ seen = NoRow
    /\ sw # "wait" => began <= now /\ now <= began + PassTime

PassesFindRow ==
    /\ seen # NoRow => sw = "update" /\ Old < began /\ pc # "idle"
    /\ sw = "update" /\ row \in Open /\ Old < began => seen = row
    /\ row \in Open /\ sw = "wait" => tick <= Latest
    /\ row \in Open /\ sw # "wait" => began <= Latest

IInv ==
    /\ Ample
    /\ TypeOK
    /\ HandlerInTime
    /\ RowKnows
    /\ SweeperInTime
    /\ PassesFindRow

-----------------------------------------------------------------------------
(* Every variable keeps its type.                                           *)
LEMMA TypeStep == TypeOK /\ [Next]_vars => TypeOK'
<1> SUFFICES ASSUME TypeOK, [Next]_vars PROVE TypeOK'
  OBVIOUS
<1> USE DurationsAssumption DEF TypeOK, Open
<1>1. ASSUME NEW next \in Active, GoOn(next) PROVE due' \in Nat /\ pc' = next
  <2>1. Allowed(next) \in Nat
    BY SMT DEF Allowed
  <2> QED
    BY <1>1, <2>1, SMT DEF GoOn
<1>2. ASSUME Done PROVE due' \in Nat /\ pc' \in Active \cup {"idle", "done"}
  BY <1>2 DEF Done
<1>3. CASE Submit
  BY <1>1, <1>3, SMT DEF Submit, Active, Transaction, sweeperVars
<1>4. CASE Advance
  <2>1. Following[pc] \in Active
    BY <1>4 DEF Advance, Following, Active, Transaction
  <2> QED
    BY <1>1, <1>4, <2>1 DEF Advance, sweeperVars
<1>5. CASE MarkSent
  BY <1>2, <1>5, SMT DEF MarkSent, Active, Sending, sweeperVars
<1>6. CASE Spool \/ SendOk
  BY <1>1, <1>6, SMT DEF Spool, SendOk, Active, Sending, Resolving, sweeperVars
<1>7. CASE SendFails \/ Retry \/ SendTimesOut
  BY <1>1, <1>7, SMT DEF SendFails, Retry, SendTimesOut, Active, Sending, Resolving, sweeperVars
<1>8. Outcomes \subseteq {NoRow, QuotaDeducted, PrintSent, PrintSucceeded, PrintFailed}
  BY SMT DEF Outcomes, Resolved
<1>9. CASE Resolve
  BY <1>2, <1>9, SMT DEF Resolve, Resolved, sweeperVars
<1>10. CASE StatementFails
  <2>1. "undo" \in Active
    BY DEF Active, Resolving
  <2>2. faults' \in 0..MaxFaults
    BY <1>10, SMT DEF StatementFails
  <2> QED
    BY <1>1, <1>2, <1>8, <1>10, <2>1, <2>2 DEF StatementFails, sweeperVars
<1>11. CASE PassBegins \/ StaleJobs
  BY <1>11, SMT DEF PassBegins, StaleJobs, Stale, handlerVars
<1>12. CASE SweepJob \/ PassFails
  BY <1>12, SMT DEF SweepJob, PassFails, PassEnds, handlerVars
<1>13. CASE Restart
  <2>1. pc' \in Active \cup {"idle", "done"} /\ due' \in Nat
    BY <1>2, <1>13 DEF Restart
  <2>2. row' \in {NoRow, QuotaDeducted, PrintSent, PrintSucceeded, PrintFailed}
    BY <1>8, <1>13 DEF Restart
  <2>3. lost' \in Nat /\ faults' \in 0..MaxFaults /\ tick' \in Nat
    BY <1>13, SMT DEF Restart
  <2> QED
    BY <1>13, <2>1, <2>2, <2>3 DEF Restart
<1>14. CASE Tick
  BY <1>14, SMT DEF Tick, handlerVars, sweeperVars
<1>15. CASE UNCHANGED vars
  BY <1>15 DEF vars, handlerVars, sweeperVars
<1> QED
  BY <1>3, <1>4, <1>5, <1>6, <1>7, <1>9, <1>10, <1>11, <1>12, <1>13, <1>14, <1>15
     DEF Next, Handler, Sweeper, End

-----------------------------------------------------------------------------
(* The two clocks.                                                          *)

LEMMA Numbers ==
    ASSUME TypeOK
    PROVE  /\ now \in Int /\ born \in Int /\ began \in Int /\ due \in Int
           /\ sendDue \in Int /\ tick \in Int /\ lost \in Nat
           /\ Old \in Int /\ Latest \in Int /\ Old + PassTime + Interval <= Latest
BY DurationsAssumption, SMT DEF TypeOK, Old, Latest

(* Until it resolves, the handler is younger than any stale row.            *)
LEMMA HandlerIsYoung ==
    ASSUME IInv, pc \in BeforeSend \cup Sending
    PROVE  now <= Old
<1> USE DurationsAssumption, Numbers DEF IInv, Ample, Old
<1>1. CASE pc \in Sending
  BY <1>1, SMT DEF HandlerInTime
<1>2. CASE pc \in BeforeSend
  <2>1. Budget(pc) \in Nat /\ Budget(pc) <= 9 * StatementTime + LockTimeout
    BY <1>2, SMT DEF Budget
  <2> QED
    BY <1>2, <2>1, SMT DEF HandlerInTime
<1> QED
  BY <1>1, <1>2

(* ... so that a pass has not found its row.                                *)
LEMMA NotFound ==
    ASSUME IInv, pc \in BeforeSend \cup Sending
    PROVE  seen = NoRow /\ (sw # "wait" => began <= Old)
<1>1. now <= Old
  BY HandlerIsYoung
<1> QED
  BY <1>1, Numbers, SMT DEF IInv, SweeperInTime, PassesFindRow

LEMMA InitIInv == Init /\ Ample => IInv
<1> SUFFICES ASSUME Init, Ample PROVE IInv
  OBVIOUS
<1> USE DurationsAssumption DEF Init
<1>1. TypeOK
  BY SMT DEF TypeOK, Open
<1>2. HandlerInTime
  BY SMT DEF HandlerInTime, BeforeSend, Transaction, Sending
<1>3. RowKnows
  BY DEF RowKnows, Transaction, Sending
<1>4. SweeperInTime /\ PassesFindRow
  BY SMT DEF SweeperInTime, PassesFindRow, Open
<1> QED
  BY <1>1, <1>2, <1>3, <1>4 DEF IInv

(* The handler's clock.                                                     *)
LEMMA HandlerStep == IInv /\ [Next]_vars => HandlerInTime' /\ RowKnows'
<1> SUFFICES ASSUME IInv, [Next]_vars PROVE HandlerInTime' /\ RowKnows'
  OBVIOUS
<1> USE DurationsAssumption, Numbers DEF IInv
<1>0. TypeOK'
  BY TypeStep
<1>1. CASE Submit
  <2>1. /\ pc' = "begin" /\ born' = now /\ due' = now + StatementTime
        /\ row' = row /\ row = NoRow /\ now' = now
    BY <1>1 DEF Submit, GoOn, Allowed, RowKnows
  <2> QED
    BY <2>1, SMT DEF HandlerInTime, RowKnows, Budget, BeforeSend, Transaction, Sending
<1>2. CASE Advance
  <2>1. /\ pc \in DOMAIN Following /\ pc' = Following[pc]
        /\ due' = now + Allowed(pc') /\ UNCHANGED <<now, born, sendDue>>
        /\ row' = IF pc = "commit" THEN QuotaDeducted ELSE row
    BY <1>2 DEF Advance, GoOn
  <2>2. pc \in BeforeSend /\ pc' \in BeforeSend \ {"begin"}
    BY <2>1, SMT DEF Following, BeforeSend, Transaction
  <2>3. RowKnows'
    BY <2>1, SMT DEF RowKnows, Following, Transaction, Sending
  <2>4. Budget(pc') = Budget(pc) + Allowed(pc')
    BY <2>1, SMT DEF Budget, Following, Allowed
  <2>5. Budget(pc) \in Nat /\ Allowed(pc') \in Nat
    BY SMT DEF Budget, Allowed
  <2>6. HandlerInTime'
    BY <2>1, <2>2, <2>4, <2>5, SMT DEF HandlerInTime, BeforeSend, Transaction, Sending
  <2> QED
    BY <2>3, <2>6
<1>3. CASE MarkSent
  <2>1. now <= born + 9 * StatementTime + LockTimeout
    BY <1>3, SMT DEF MarkSent, HandlerInTime, BeforeSend, Budget
  <2> QED
    BY <1>3, <2>1, SMT DEF MarkSent, Done, HandlerInTime, RowKnows, BeforeSend, Transaction, Sending
<1>4. CASE Spool \/ SendFails \/ Retry \/ SendOk \/ SendTimesOut
  <2>1. /\ pc \in Sending /\ pc' \in Sending \cup Resolving
        /\ UNCHANGED <<now, born, sendDue, row>>
    BY <1>4, SMT DEF Spool, SendFails, Retry, SendOk, SendTimesOut, GoOn, Sending, Resolving
  <2> QED
    BY <2>1, SMT DEF HandlerInTime, RowKnows, BeforeSend, Transaction, Sending, Resolving
<1>5. CASE Resolve \/ StatementFails
  <2>1. pc' \in {"done", "undo"} /\ pc # "idle" /\ UNCHANGED <<now, born>>
    BY <1>5, SMT DEF Resolve, StatementFails, Done, GoOn, Transaction, Resolving
  <2> QED
    BY <2>1, SMT DEF HandlerInTime, RowKnows, BeforeSend, Transaction, Sending
<1>6. CASE Restart
  <2>1. "idle" \notin Active /\ UNCHANGED <<now, born>>
    BY <1>6 DEF Restart, Active, Transaction, Sending, Resolving
  <2>2. CASE pc \in Active
    <3>1. pc' = "done" /\ pc # "idle"
      BY <1>6, <2>1, <2>2 DEF Restart, Done
    <3> QED
      BY <2>1, <3>1, SMT DEF HandlerInTime, RowKnows, BeforeSend, Transaction, Sending
  <2>3. CASE pc \notin Active
    <3>1. UNCHANGED <<pc, row>> /\ pc \in {"idle", "done"}
      BY <1>6, <2>3 DEF Restart, TypeOK
    <3> QED
      BY <2>1, <3>1, SMT DEF HandlerInTime, RowKnows, BeforeSend, Transaction, Sending
  <2> QED
    BY <2>2, <2>3
<1>7. CASE PassBegins \/ StaleJobs
  BY <1>7 DEF PassBegins, StaleJobs, handlerVars, HandlerInTime, RowKnows
<1>8. CASE SweepJob \/ PassFails
  <2>1. UNCHANGED <<now, born, pc, due, sendDue>> /\ (seen = NoRow => row' = row)
    BY <1>8 DEF SweepJob, PassFails, handlerVars
  <2>2. pc \in BeforeSend \cup Sending \cup {"idle"} => row' = row
    BY <2>1, NotFound DEF PassesFindRow
  <2> QED
    BY <2>1, <2>2 DEF HandlerInTime, RowKnows, BeforeSend
<1>9. CASE Tick
  <2>1. /\ now' = now + 1 /\ UNCHANGED <<row, pc, born, due, sendDue>>
        /\ pc \in Active => now < due
        /\ pc \in Sending => now < sendDue
    BY <1>9 DEF Tick, handlerVars
  <2>2. BeforeSend \subseteq Active
    BY DEF BeforeSend, Active
  <2>3. RowKnows'
    BY <2>1 DEF RowKnows
  <2>4. Budget(pc)' = Budget(pc)
    BY <2>1 DEF Budget
  <2>5. HandlerInTime'
    BY <2>1, <2>2, <2>4, SMT DEF HandlerInTime
  <2> QED
    BY <2>3, <2>5
<1>10. CASE UNCHANGED vars
  BY <1>10 DEF vars, handlerVars, HandlerInTime, RowKnows, Budget
<1> QED
  BY <1>1, <1>2, <1>3, <1>4, <1>5, <1>6, <1>7, <1>8, <1>9, <1>10 DEF Next, Handler, Sweeper, End

(* The sweeper's clock.                                                     *)
LEMMA SweeperStep == IInv /\ [Next]_vars => SweeperInTime' /\ PassesFindRow'
<1> SUFFICES ASSUME IInv, [Next]_vars PROVE SweeperInTime' /\ PassesFindRow'
  OBVIOUS
<1> USE DurationsAssumption, Numbers DEF IInv
<1>0. TypeOK'
  BY TypeStep
<1>1. CASE Submit
  <2>1. row \notin Open /\ seen = NoRow /\ pc' # "idle"
    BY <1>1 DEF Submit, RowKnows, PassesFindRow, Open, GoOn
  <2> QED
    BY <1>1, <2>1, SMT DEF Submit, sweeperVars, SweeperInTime, PassesFindRow
\* A handler before its resolution.
<1>2. ASSUME pc \in BeforeSend \cup Sending, UNCHANGED <<now, born, sweeperVars, lost>>
      PROVE  SweeperInTime' /\ PassesFindRow'
  <2>1. now <= Old /\ seen = NoRow /\ (sw # "wait" => began <= Old)
    BY <1>2, HandlerIsYoung, NotFound
  <2>2. Old' = Old /\ Latest' = Latest /\ Old <= Latest
    BY <1>2, SMT DEF Old, Latest
  <2>3. sw = "wait" => tick <= Latest
    BY <2>1, SMT DEF SweeperInTime
  <2> QED
    BY <1>2, <2>1, <2>2, <2>3, SMT DEF sweeperVars, SweeperInTime, PassesFindRow
\* Its resolution.
<1>3. ASSUME pc \in Resolving, UNCHANGED <<now, born, sweeperVars, lost>>,
             row' = row \/ row' \notin Open, pc' # "idle"
      PROVE  SweeperInTime' /\ PassesFindRow'
  <2>1. Old' = Old /\ Latest' = Latest
    BY <1>3 DEF Old, Latest
  <2> QED
    BY <1>3, <2>1 DEF sweeperVars, SweeperInTime, PassesFindRow
<1>4. CASE Advance \/ MarkSent \/ Spool \/ SendOk \/ SendFails \/ Retry \/ SendTimesOut
  <2>1. pc \in BeforeSend \cup Sending /\ UNCHANGED <<now, born, sweeperVars, lost>>
    BY <1>4, SMT DEF Advance, MarkSent, Spool, SendOk, SendFails, Retry, SendTimesOut,
                     Following, BeforeSend, Transaction, Sending
  <2> QED
    BY <1>2, <2>1
<1>5. Resolved = row \/ Resolved \notin Open
  BY DEF Resolved, Open
<1>6. CASE Resolve
  BY <1>3, <1>5, <1>6 DEF Resolve, Done
<1>7. CASE StatementFails
  <2>1. UNCHANGED <<now, born, sweeperVars, lost>>
    BY <1>7 DEF StatementFails
  <2>2. CASE pc \in BeforeSend
    BY <1>2, <2>1, <2>2
  <2>3. CASE pc \in Resolving
    <3>1. row' \in {row, Resolved} /\ pc' = "done"
      BY <1>7, <2>3 DEF StatementFails, Outcomes, Resolving, Transaction, Done
    <3> QED
      BY <1>3, <1>5, <2>1, <2>3, <3>1
  <2> QED
    BY <1>7, <2>2, <2>3 DEF StatementFails, BeforeSend
<1>8. CASE PassBegins
  <2>1. /\ sw = "wait" /\ sw' = "select" /\ began' = now /\ now = tick /\ seen = NoRow
        /\ UNCHANGED <<now, row, born, pc, seen, lost>>
    BY <1>8 DEF PassBegins, handlerVars, SweeperInTime
  <2>2. Latest' = Latest /\ Old' = Old
    BY <2>1 DEF Latest, Old
  <2> QED
    BY <2>1, <2>2, SMT DEF SweeperInTime, PassesFindRow
<1>9. CASE StaleJobs
  <2>1. /\ sw = "select" /\ sw' = "update" /\ seen' = IF Stale THEN row ELSE NoRow
        /\ UNCHANGED <<now, row, born, pc, began, tick, lost>>
    BY <1>9 DEF StaleJobs, handlerVars
  <2>2. Latest' = Latest /\ Old' = Old
    BY <2>1 DEF Latest, Old
  <2>3. Old < began <=> born - Behind < began - AgeBound
    BY SMT DEF Old, TypeOK
  <2>4. row \in Open => pc # "idle"
    BY DEF RowKnows, Open
  <2> QED
    BY <2>1, <2>2, <2>3, <2>4, SMT DEF SweeperInTime, PassesFindRow, Stale
<1>10. CASE SweepJob \/ PassFails
  <2>1. /\ sw # "wait" /\ sw' = "wait" /\ seen' = NoRow /\ tick' \in now .. now + Interval
        /\ UNCHANGED <<now, born, pc, began>>
    BY <1>10 DEF SweepJob, PassFails, PassEnds, handlerVars
  <2>2. SweeperInTime'
    BY <2>1, SMT DEF SweeperInTime
  <2>3. now <= began + PassTime /\ tick' <= began + PassTime + Interval /\ tick' \in Int
    BY <2>1, SMT DEF SweeperInTime
  <2>4. row' \in Open => row \in Open
    BY <1>10 DEF SweepJob, PassFails, Open
  <2>5. CASE SweepJob
    <3>1. row' \in Open => began <= Old
      BY <2>5, SMT DEF SweepJob, PassesFindRow, Open
    <3>2. Latest' = Latest /\ lost' = lost
      BY <2>1, <2>5 DEF Latest, Old, SweepJob
    <3>3. row' \in Open => tick' <= Latest'
      <4>1. Old + PassTime + Interval <= Latest' /\ Latest' \in Int
        BY <3>2
      <4> QED
        BY <2>3, <3>1, <4>1, SMT
    <3> QED
      BY <2>1, <2>2, <3>3 DEF PassesFindRow
  <2>6. CASE PassFails
    <3>1. Latest' = Latest + PassTime + Interval
      BY <2>1, <2>6, SMT DEF Latest, Old, PassFails
    <3>2. row' \in Open => tick' <= Latest'
      BY <2>1, <2>3, <2>4, <3>1, SMT DEF PassesFindRow
    <3> QED
      BY <2>1, <2>2, <3>2 DEF PassesFindRow
  <2> QED
    BY <1>10, <2>5, <2>6
<1>11. CASE Restart
  <2>1. /\ sw' = "wait" /\ seen' = NoRow /\ tick' = now /\ lost' = lost + PassTime
        /\ UNCHANGED <<now, born>>
    BY <1>11 DEF Restart
  <2>2. SweeperInTime'
    BY <2>1, SMT DEF SweeperInTime
  <2>3. Latest' = Latest + PassTime
    BY <2>1, SMT DEF Latest, Old
  <2>4. CASE pc \in BeforeSend \cup Sending
    <3>1. tick' <= Latest'
      BY <2>1, <2>3, <2>4, HandlerIsYoung, SMT DEF Latest
    <3> QED
      BY <2>1, <2>2, <3>1 DEF PassesFindRow
  <2>5. CASE pc \notin BeforeSend \cup Sending
    <3>1. row' = row \/ row' \notin Open
      BY <1>5, <1>11, <2>5, SMT DEF Restart, Outcomes, BeforeSend, Transaction
    <3>2. row' \in Open => tick' <= Latest'
      BY <2>1, <2>3, <3>1, SMT DEF SweeperInTime, PassesFindRow
    <3> QED
      BY <2>1, <2>2, <3>2 DEF PassesFindRow
  <2> QED
    BY <2>4, <2>5
<1>12. CASE Tick
  <2>1. /\ now' = now + 1 /\ UNCHANGED <<row, pc, born, sw, tick, began, seen, lost>>
        /\ IF sw = "wait" THEN now < tick ELSE now < began + PassTime
    BY <1>12 DEF Tick, handlerVars, sweeperVars
  <2>2. Latest' = Latest /\ Old' = Old
    BY <2>1 DEF Latest, Old
  <2> QED
    BY <2>1, <2>2, SMT DEF SweeperInTime, PassesFindRow
<1>13. CASE UNCHANGED vars
  <2>1. Latest' = Latest /\ Old' = Old
    BY <1>13 DEF vars, handlerVars, Latest, Old
  <2> QED
    BY <1>13, <2>1 DEF vars, handlerVars, sweeperVars, SweeperInTime, PassesFindRow
<1> QED
  BY <1>1, <1>4, <1>6, <1>7, <1>8, <1>9, <1>10, <1>11, <1>12, <1>13
     DEF Next, Handler, Sweeper, End

LEMMA Invariance == Spec /\ Ample => []IInv
<1>1. IInv /\ [Next]_vars => IInv'
  <2> SUFFICES ASSUME IInv, [Next]_vars PROVE IInv'
    OBVIOUS
  <2>1. Ample'
    BY DEF IInv, Ample
  <2> QED
    BY <2>1, TypeStep, HandlerStep, SweeperStep DEF IInv
<1> QED
  BY <1>1, InitIInv, PTL DEF Spec

-----------------------------------------------------------------------------
(* The theorems.                                                            *)

(* Every variable keeps its type, whatever the durations.                   *)
THEOREM TypeCorrect == Spec => []TypeOK
<1>1. Init => TypeOK
  BY DurationsAssumption, SMT DEF Init, TypeOK, Open
<1> QED
  BY <1>1, TypeStep, PTL DEF Spec

(* An age bound that covers nine statements, the wait for the lock, the     *)
(* send and the skew keeps the sweeper off every job that is being sent.    *)
THEOREM NothingPrintedLate == Spec /\ Ample => NoPrintAfterResolution
<1> DEFINE P == pc # "spooled" /\ pc' = "spooled" => row = PrintSent
<1>1. IInv /\ [Next]_vars => P
  <2> SUFFICES ASSUME IInv, [Next]_vars, pc # "spooled", pc' = "spooled" PROVE row = PrintSent
    OBVIOUS
  <2>1. pc = "send"
    BY SMT DEF Next, Handler, Sweeper, End, Submit, Advance, Following, MarkSent, Spool, SendOk,
       SendFails, Retry, SendTimesOut, Resolve, StatementFails, PassBegins, StaleJobs,
       SweepJob, PassFails, Restart, Tick, GoOn, Done, handlerVars, vars
  <2> QED
    BY <2>1 DEF IInv, RowKnows, Sending
<1> QED
  BY <1>1, Invariance, PTL DEF Spec, NoPrintAfterResolution

(* It also bounds how long a job that was left open keeps its quota.        *)
THEOREM QuotaIsBackInTime == Spec /\ Ample => []QuotaBackInTime
<1>1. IInv => QuotaBackInTime
  BY DurationsAssumption, Numbers, SMT
     DEF IInv, QuotaBackInTime, SweeperInTime, PassesFindRow, Latest, Old
<1> QED
  BY <1>1, Invariance, PTL

=============================================================================
