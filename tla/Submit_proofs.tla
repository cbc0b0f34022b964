---------------------------- MODULE Submit_proofs ---------------------------
(***************************************************************************)
(* Theorems about Submit for every number of requests, queues and          *)
(* destinations, and for all limits and rates.                             *)
(***************************************************************************)
EXTENDS Submit, TLAPS

(* The product of what is within bounds is within the product of the bounds.*)
LEMMA ProductBound ==
    ASSUME NEW a \in Nat, NEW b \in Nat, NEW c \in Nat, NEW d \in Nat,
           a <= c, b <= d
    PROVE  a * b <= c * d
<1>1. a * b <= c * b
  <2>1. PICK e \in Nat : c = a + e
    <3>1. c - a \in Nat /\ c = a + (c - a)
      BY SMT
    <3> QED
      BY <3>1
  <2>2. (a + e) * b = a * b + e * b /\ e * b \in Nat /\ a * b \in Nat
    BY SMT
  <2> QED
    BY <2>1, <2>2, SMT
<1>2. c * b <= c * d
  <2>1. PICK e \in Nat : d = b + e
    <3>1. d - b \in Nat /\ d = b + (d - b)
      BY SMT
    <3> QED
      BY <3>1
  <2>2. c * (b + e) = c * b + c * e /\ c * e \in Nat /\ c * b \in Nat
    BY SMT
  <2> QED
    BY <2>1, <2>2, SMT
<1>3. a * b \in Nat /\ c * b \in Nat /\ c * d \in Nat
  BY SMT
<1> QED
  BY <1>1, <1>2, <1>3, SMT

(* A product of positive numbers is positive.                               *)
LEMMA ProductPositive ==
    ASSUME NEW a \in Nat \ {0}, NEW b \in Nat \ {0}
    PROVE  a * b \in Nat /\ a * b > 0
BY SMT

(* quota.Rates.Cost: a page costs at least 1 and at most ColorRate.         *)
LEMMA RatesCostBounds ==
    ASSUME NEW pages \in Nat \ {0}, NEW colorPages \in 0..pages
    PROVE  /\ RatesCost(pages, colorPages) \in Nat
           /\ RatesCost(pages, colorPages) > 0
           /\ RatesCost(pages, colorPages) <= pages * ColorRate
           /\ colorPages = 0 => RatesCost(pages, colorPages) = pages
<1> DEFINE mono == pages - colorPages
<1>1. ColorRate \in Nat /\ ColorRate >= 1
  BY LimitsAssumption, SMT
<1>2. mono \in Nat /\ colorPages \in Nat /\ pages = mono + colorPages
  BY SMT
<1> HIDE DEF mono
<1>3. /\ mono * 1 <= mono * ColorRate
      /\ colorPages * 1 <= colorPages * ColorRate
  BY <1>1, <1>2, ProductBound, SMT
<1>4. /\ (mono + colorPages) * ColorRate = mono * ColorRate + colorPages * ColorRate
      /\ mono * ColorRate \in Nat /\ colorPages * ColorRate \in Nat
  BY <1>1, <1>2, SMT
<1>5. RatesCost(pages, colorPages) = mono + colorPages * ColorRate
  BY DEF RatesCost, mono
<1>6. mono <= mono * ColorRate /\ colorPages <= colorPages * ColorRate
  BY <1>1, <1>2, <1>3, SMT
<1>7. colorPages = 0 => colorPages * ColorRate = 0
  BY <1>1, SMT
<1> PICK x \in Nat : x = mono * ColorRate
  BY <1>4
<1> PICK z \in Nat : z = colorPages * ColorRate
  BY <1>4
<1>8. /\ RatesCost(pages, colorPages) = mono + z /\ pages * ColorRate = x + z
      /\ mono <= x /\ colorPages <= z /\ (colorPages = 0 => z = 0)
  BY <1>2, <1>4, <1>5, <1>6, <1>7
<1> QED
  BY <1>2, <1>8, SMT

(* What Submit accepts makes a job that its table accepts.                  *)
Fits(j) ==
    /\ j \in Rows
    /\ j.NumPages > 0
    /\ j.NumColorPages >= 0 /\ j.NumColorPages <= j.NumPages
    /\ j.Copies > 0
    /\ j.Cost > 0
    /\ j.Cost <= MaxPages * ColorRate * MaxCopies
    /\ ~ j.Color => j.Cost = j.NumPages * j.Copies
    /\ j.Cost = RatesCost(j.NumPages, j.NumColorPages) * j.Copies

LEMMA AcceptedFits ==
    ASSUME NEW f \in Forms, f.queue \in Queues, NEW count \in PageCounts,
           Acceptable(f, count[1], colorPagesOf(f, count[2]))
    PROVE  Fits(JobOf(f, count[1], colorPagesOf(f, count[2])))
<1> DEFINE pages == count[1]
           colorPages == colorPagesOf(f, count[2])
           j == JobOf(f, pages, colorPages)
           rate == RatesCost(pages, colorPages)
<1>1. /\ f.copies \in Int /\ f.color \in BOOLEAN /\ f.duplex \in BOOLEAN
      /\ pages \in Int /\ count[2] \in 0..pages
      /\ MaxPages \in Nat /\ MaxCopies \in Nat /\ ColorRate \in Nat
  BY FormsAssumption, LimitsAssumption, SMT DEF PageCounts
<1>2. /\ pages \in Nat \ {0} /\ pages <= MaxPages
      /\ f.copies \in Nat \ {0} /\ f.copies <= MaxCopies
      /\ colorPages \in 0..pages
      /\ ~ f.color => colorPages = 0
  BY <1>1, SMT DEF Acceptable, colorPagesOf
<1>3. /\ j.QueueID = f.queue /\ j.NumPages = pages /\ j.NumColorPages = colorPages
      /\ j.Copies = f.copies /\ j.Color = f.color /\ j.Cost = rate * f.copies
      /\ j = [QueueID |-> f.queue, NumPages |-> pages, NumColorPages |-> colorPages,
              Copies |-> f.copies, Color |-> f.color, Duplex |-> f.duplex,
              Cost |-> rate * f.copies]
  BY DEF JobOf
<1> HIDE DEF pages, colorPages, j, rate
<1>4. /\ rate \in Nat /\ rate > 0 /\ rate <= pages * ColorRate
      /\ colorPages = 0 => rate = pages
  BY <1>2, RatesCostBounds DEF rate
<1>5. rate * f.copies \in Nat /\ rate * f.copies > 0
  <2>1. rate \in Nat \ {0}
    BY <1>4, SMT
  <2> QED
    BY <1>2, <2>1, ProductPositive
<1>6. rate * f.copies <= MaxPages * ColorRate * MaxCopies
  <2>1. pages * ColorRate <= MaxPages * ColorRate
    BY <1>1, <1>2, ProductBound, SMT
  <2>2. pages * ColorRate \in Nat /\ MaxPages * ColorRate \in Nat
    BY <1>1, <1>2, SMT
  <2>3. rate <= MaxPages * ColorRate
    BY <1>4, <2>1, <2>2, SMT
  <2> QED
    BY <1>1, <1>2, <1>4, <2>2, <2>3, ProductBound
<1>7. j \in Rows
  BY <1>1, <1>2, <1>3, <1>5, SMT DEF Rows
<1>9. j.Cost = RatesCost(j.NumPages, j.NumColorPages) * j.Copies
  BY <1>3 DEF rate
<1>8. Fits(j)
  BY <1>9, <1>1, <1>2, <1>3, <1>4, <1>5, <1>6, <1>7, SMT DEF Fits
<1> QED
  BY <1>8 DEF j, pages, colorPages

-----------------------------------------------------------------------------
(* The inductive invariant.                                                 *)

\* The job of r is the one made from its form and its count.
Counts(r) ==
    /\ Fits(job[r])
    /\ job[r].NumPages = counted[r][1]
    /\ job[r].NumColorPages = IF job[r].Color THEN counted[r][2] ELSE 0
    /\ job[r].Duplex = form[r].duplex

Knows(r) ==
    /\ pc[r] # "idle" => form[r] \in Forms
    /\ job[r] # None => Fits(job[r])
    /\ pc[r] \in {"store", "dests", "policy", "send"} => Counts(r)
    /\ pc[r] \in {"store", "dests", "policy", "send", "failed"} =>
          job[r].QueueID = form[r].queue /\ queueSeen[r]
    /\ pc[r] \in {"analyze"} => form[r].queue \in Queues /\ queueSeen[r]
    /\ pc[r] = "queue" /\ form[r].queue \in enabled => queueSeen[r]
    /\ pc[r] \in {"dests", "policy"} => open \subseteq destsSeen[r]
    /\ pc[r] = "policy" => \A d \in dests[r] :
          d \in destsSeen[r] /\ QueueOf[d] = job[r].QueueID
    /\ pc[r] = "send" => pick[r] \in destsSeen[r] /\ QueueOf[pick[r]] = job[r].QueueID

IInv == TypeOK /\ \A r \in Requests : Knows(r)

LEMMA InitIInv == Init => IInv
BY SMT DEF Init, IInv, TypeOK, Points, Knows

RequestStep(r) ==
    \/ Receive(r) \/ GetQueue(r) \/ GetQueueFails(r) \/ Analyze(r) \/ AnalyzeFails(r)
    \/ Store(r) \/ StoreFails(r)
    \/ DestinationsForQueue(r) \/ ChooseDestination(r) \/ PickFails(r)

(* A request that comes remembers whether its queue is enabled.             *)
LEMMA ReceiveSees ==
    ASSUME TypeOK, NEW r \in Requests, Receive(r)
    PROVE  \E f \in Forms, b \in BOOLEAN :
              /\ form' = [form EXCEPT ![r] = f]
              /\ queueSeen' = [queueSeen EXCEPT ![r] = b]
              /\ f.queue \in enabled => b
<1>1. PICK f \in Forms :
        /\ form' = [form EXCEPT ![r] = f]
        /\ queueSeen' = [queueSeen EXCEPT ![r] = f.queue \in enabled]
  BY Zenon DEF Receive
<1>2. PICK b \in BOOLEAN : b = (f.queue \in enabled)
  <2>1. (f.queue \in enabled) \in BOOLEAN
    BY SMT
  <2> QED
    BY <2>1, Zenon
<1>3. f.queue \in enabled => b
  BY <1>2, Zenon
<1>4. queueSeen' = [queueSeen EXCEPT ![r] = b]
  BY <1>1, <1>2, Zenon
<1> QED
  BY <1>1, <1>3, <1>4, Zenon

LEMMA TypeStep ==
    ASSUME IInv, [Next]_vars
    PROVE  TypeOK'
<1> USE DEF IInv, TypeOK
<1>1. CASE \E r \in Requests : Analyze(r)
  <2> PICK r \in Requests : Analyze(r)
    BY <1>1
  <2>1. form[r] \in Forms /\ form[r].queue \in Queues
    BY DEF Analyze, Knows
  <2>2. PICK count \in PageCounts :
          /\ Acceptable(form[r], count[1], colorPagesOf(form[r], count[2]))
          /\ job' = [job EXCEPT ![r] =
                JobOf(form[r], count[1], colorPagesOf(form[r], count[2]))]
          /\ counted' = [counted EXCEPT ![r] = count]
    BY DEF Analyze
  <2>3. JobOf(form[r], count[1], colorPagesOf(form[r], count[2])) \in Rows
    BY <2>1, <2>2, AcceptedFits DEF Fits
  <2>4. job' \in [Requests -> Rows \cup {None}]
    BY <2>2, <2>3
  <2>5. counted' \in [Requests -> Nat \X Nat]
    <3>1. count \in Nat \X Nat
      BY LimitsAssumption, SMT DEF PageCounts
    <3> QED
      BY <2>2, <3>1
  <2> QED
    BY <2>4, <2>5 DEF Analyze, adminVars, GoTo, Points
<1>5. CASE \E r \in Requests : Receive(r)
  <2> PICK r \in Requests : Receive(r)
    BY <1>5
  <2>1. form' \in [Requests -> Forms \cup {None}] /\ queueSeen' \in [Requests -> BOOLEAN]
    BY ReceiveSees
  <2>2. pc' \in [Requests -> Points]
    BY DEF Receive, GoTo, Points
  <2> QED
    BY <2>1, <2>2 DEF Receive, adminVars
<1>2. CASE \E r \in Requests : GetQueue(r) \/ GetQueueFails(r) \/ AnalyzeFails(r)
  BY <1>2 DEF GetQueue, GetQueueFails, AnalyzeFails, adminVars, GoTo, Points
<1>3. CASE \E r \in Requests : Store(r) \/ StoreFails(r) \/ PickFails(r)
  BY <1>3 DEF Store, StoreFails, PickFails, adminVars, GoTo, Points
<1>6. CASE \E r \in Requests : DestinationsForQueue(r)
  BY <1>6 DEF DestinationsForQueue, adminVars, GoTo, Points
<1>7. CASE \E r \in Requests : ChooseDestination(r)
  BY <1>7 DEF ChooseDestination, adminVars, GoTo, Points
<1>8. CASE \E q \in Queues : SwitchQueue(q)
  BY <1>8 DEF SwitchQueue
<1>9. CASE \E d \in Destinations : SwitchDestination(d)
  BY <1>9 DEF SwitchDestination
<1>4. CASE (\E q \in Queues : ChangePolicy(q)) \/ UNCHANGED vars
  BY <1>4 DEF ChangePolicy, vars, adminVars
<1> QED
  BY <1>1, <1>2, <1>3, <1>4, <1>5, <1>6, <1>7, <1>8, <1>9 DEF Next

LEMMA KnowsStep ==
    ASSUME IInv, [Next]_vars, NEW i \in Requests
    PROVE  Knows(i)'
<1> USE DEF IInv
<1>0. Knows(i) /\ TypeOK
  OBVIOUS
<1>1. CASE \E r \in Requests : RequestStep(r) /\ r # i
  <2>1. /\ pc'[i] = pc[i] /\ form'[i] = form[i] /\ job'[i] = job[i]
        /\ counted'[i] = counted[i]
        /\ dests'[i] = dests[i] /\ pick'[i] = pick[i]
        /\ queueSeen'[i] = queueSeen[i] /\ destsSeen'[i] = destsSeen[i]
        /\ enabled' = enabled /\ open' = open
    BY <1>1 DEF RequestStep, Receive, GetQueue, GetQueueFails, Analyze, AnalyzeFails,
       Store, StoreFails, DestinationsForQueue, ChooseDestination, PickFails,
       adminVars, GoTo, TypeOK
  <2> QED
    BY <1>0, <2>1 DEF Knows, Counts
<1>2. CASE Receive(i)
  <2>1. PICK f \in Forms, b \in BOOLEAN :
          form'[i] = f /\ queueSeen'[i] = b /\ (f.queue \in enabled => b)
    BY <1>0, <1>2, ReceiveSees DEF TypeOK
  <2>2. enabled' = enabled /\ job' = job /\ pc'[i] \in {"queue", "rejected"}
    BY <1>2 DEF Receive, GoTo, TypeOK, adminVars
  <2> QED
    BY <1>0, <2>1, <2>2 DEF Knows
<1>3. CASE GetQueue(i) \/ GetQueueFails(i) \/ AnalyzeFails(i)
  BY <1>0, <1>3 DEF GetQueue, GetQueueFails, AnalyzeFails, GoTo, Knows, Counts, TypeOK,
     adminVars
<1>4. CASE Analyze(i)
  <2>1. form[i] \in Forms /\ form[i].queue \in Queues /\ queueSeen[i]
    BY <1>0, <1>4 DEF Analyze, Knows
  <2> PICK count \in PageCounts :
        /\ Acceptable(form[i], count[1], colorPagesOf(form[i], count[2]))
        /\ job' = [job EXCEPT ![i] =
              JobOf(form[i], count[1], colorPagesOf(form[i], count[2]))]
        /\ counted' = [counted EXCEPT ![i] = count]
    BY <1>4 DEF Analyze
  <2>2. Fits(job'[i]) /\ job'[i].QueueID = form[i].queue
    BY <2>1, AcceptedFits DEF JobOf, TypeOK
  <2>3. Counts(i)'
    <3>1. counted'[i] = count /\ form' = form
      BY <1>4 DEF TypeOK, Analyze
    <3>2. job'[i] = JobOf(form[i], count[1], colorPagesOf(form[i], count[2]))
      BY DEF TypeOK
    <3> QED
      BY <2>2, <3>1, <3>2 DEF Counts, JobOf, colorPagesOf
  <2> QED
    BY <1>4, <2>1, <2>2, <2>3 DEF Analyze, GoTo, Knows, TypeOK, adminVars
<1>5. CASE Store(i) \/ StoreFails(i) \/ PickFails(i)
  BY <1>0, <1>5 DEF Store, StoreFails, PickFails, GoTo, Knows, Counts, TypeOK,
     adminVars
<1>6. CASE DestinationsForQueue(i) \/ ChooseDestination(i)
  BY <1>0, <1>6 DEF DestinationsForQueue, ChooseDestination, GoTo, Knows, Counts,
     TypeOK, adminVars
<1>7. CASE \E q \in Queues : SwitchQueue(q) \/ ChangePolicy(q)
  BY <1>0, <1>7 DEF SwitchQueue, ChangePolicy, Knows, Counts, TypeOK
<1>8. CASE \E d \in Destinations : SwitchDestination(d)
  BY <1>0, <1>8 DEF SwitchDestination, Stored, Knows, Counts, TypeOK
<1>9. CASE UNCHANGED vars
  BY <1>0, <1>9 DEF vars, adminVars, Knows, Counts
<1> QED
  BY <1>1, <1>2, <1>3, <1>4, <1>5, <1>6, <1>7, <1>8, <1>9 DEF Next, RequestStep

LEMMA Invariance == Spec => []IInv
<1>1. IInv /\ [Next]_vars => IInv'
  BY TypeStep, KnowsStep DEF IInv
<1> QED
  BY <1>1, InitIInv, PTL DEF Spec

-----------------------------------------------------------------------------
(* The theorems.                                                            *)

(* Every variable keeps its type.                                           *)
THEOREM TypeCorrect == Spec => []TypeOK
BY Invariance, PTL DEF IInv

(* For all limits and all rates, no CHECK constraint of table job can fail  *)
(* on a job that Submit builds, and its cost is within the limits' product. *)
THEOREM JobsFit == Spec => []JobFitsItsTable
<1>1. IInv => JobFitsItsTable
  BY DEF IInv, Knows, Fits, JobFitsItsTable
<1> QED
  BY <1>1, Invariance, PTL

(* However stale the read of the queue, the queue was enabled while the     *)
(* request was there.                                                       *)
THEOREM QueueWasOpen == Spec => []ChargedForOpenQueue
<1>1. IInv => ChargedForOpenQueue
  BY DEF IInv, Knows, Stored, ChargedForOpenQueue
<1> QED
  BY <1>1, Invariance, PTL

(* However stale the read of the destinations, the job goes to one of its   *)
(* queue that was enabled after the job was charged.                        *)
THEOREM DestinationWasOpen == Spec => []SentWhereOpen
<1>1. IInv => SentWhereOpen
  BY DEF IInv, Knows, SentWhereOpen
<1> QED
  BY <1>1, Invariance, PTL

(* For all limits and rates, the ticket makes the printer print what was    *)
(* charged, with the sides that were chosen.                                *)
THEOREM PrintsAreCharged == Spec => []PrintedAsCharged
<1>1. ASSUME IInv, NEW r \in Requests, pc[r] = "send"
      PROVE  LET attributes == FromJob(job[r])
             IN  /\ Printed(attributes, counted[r]) = job[r].Cost
                 /\ attributes.Sides = "one-sided" <=> ~ form[r].duplex
  <2>1. Counts(r)
    BY <1>1 DEF IInv, Knows
  <2>2. /\ FromJob(job[r]).Copies = job[r].Copies
        /\ FromJob(job[r]).ColorMode = "color" <=> job[r].Color
        /\ FromJob(job[r]).Sides = "one-sided" <=> ~ job[r].Duplex
    BY DEF FromJob
  <2>3. Printed(FromJob(job[r]), counted[r])
          = RatesCost(job[r].NumPages, job[r].NumColorPages) * job[r].Copies
    BY <2>1, <2>2, Zenon DEF Printed, Counts
  <2> QED
    BY <2>1, <2>2, <2>3 DEF Counts, Fits
<1>2. IInv => PrintedAsCharged
  BY <1>1 DEF PrintedAsCharged
<1> QED
  BY <1>2, Invariance, PTL

=============================================================================
