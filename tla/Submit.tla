------------------------------- MODULE Submit -------------------------------
(***************************************************************************)
(* A submit request before and after its job is stored: what handleSubmit  *)
(* and Submit check, what they store, and which destination the job is     *)
(* sent to, while administrators enable and disable queues and             *)
(* destinations (web/handlers.go, app/submit.go, app/deliver.go,           *)
(* queue/queue.go, postgres/queue_store.go).                               *)
(*                                                                         *)
(* Every read of the queue tables is one step, so that what was read can   *)
(* be out of date when it is used.  Whether the quota suffices is left     *)
(* open here; see CheckQuota.                                              *)
(***************************************************************************)
EXTENDS Integers

CONSTANTS
    Requests,       \* submit requests
    Queues,         \* ids of the queues
    Destinations,   \* ids of the destinations
    QueueOf,        \* QueueOf[d]: queue_id column of destination d
    MaxPages, MaxCopies, ColorRate,     \* from the environment
    MaxInteger,     \* the largest value of a column of type integer
    Forms,          \* forms that browsers send
    None            \* no form, no job, no destination

ASSUME QueueOfAssumption == QueueOf \in [Destinations -> Queues]
ASSUME LimitsAssumption == {MaxPages, MaxCopies, ColorRate, MaxInteger} \subseteq Nat \ {0}
ASSUME FormsAssumption ==
    Forms \subseteq [document : {"pdf", "big", "other"}, queue : Int,
                     color : BOOLEAN, duplex : BOOLEAN, copies : Int]

VARIABLES
    enabled,    \* the enabled queues
    open,       \* the enabled destinations
    policyOk,   \* the queues whose policy column names a policy
    form,       \* form[r]: the form of request r
    pc,         \* where request r is
    job,        \* the job.Job it built
    counted,    \* what gs counted in its document: <<pages, color pages>>
    dests,      \* the enabled destinations it read
    pick,       \* the destination it chose
    queueSeen,  \* its queue was enabled at some time since it came
    destsSeen   \* the destinations that were, at some time since it was stored

adminVars == <<enabled, open, policyOk>>
vars == <<adminVars, form, pc, job, counted, dests, pick, queueSeen, destsSeen>>

\* The last four are answers.
Points == {"idle", "queue", "analyze", "store", "dests", "policy", "send",
           "rejected", "insufficient", "failed", "unconfirmed"}

Init ==
    /\ enabled \in SUBSET Queues
    /\ open \in SUBSET Destinations
    /\ policyOk \in SUBSET Queues
    /\ form = [r \in Requests |-> None]
    /\ pc = [r \in Requests |-> "idle"]
    /\ job = [r \in Requests |-> None]
    /\ counted = [r \in Requests |-> <<0, 0>>]
    /\ dests = [r \in Requests |-> {}]
    /\ pick = [r \in Requests |-> None]
    /\ queueSeen = [r \in Requests |-> FALSE]
    /\ destsSeen = [r \in Requests |-> {}]

-----------------------------------------------------------------------------
(* What is checked, and what it costs.                                      *)

\* Rates.Cost
RatesCost(pages, colorPages) == (pages - colorPages) + colorPages * ColorRate

\* The counts <<pages, color pages>> gs can report; CountPages fails if it
\* reports no page.  One count over the limit stands for them all.
PageCounts == UNION {{pages} \X (0..pages) : pages \in 0..(MaxPages + 1)}

\* Mutant: color pages are counted for a job in black and white.
colorPagesAlways(f, colorPages) == colorPages

colorPagesOf(f, colorPages) == IF f.color THEN colorPages ELSE 0

\* Submit goes on with these numbers.
Acceptable(f, pages, colorPages) ==
    /\ ~ (pages <= 0 \/ colorPages < 0 \/ colorPages > pages)
    /\ ~ (pages > MaxPages)
    /\ ~ (f.copies < 1 \/ f.copies > MaxCopies)

JobOf(f, pages, colorPages) ==
    [QueueID |-> f.queue, NumPages |-> pages, NumColorPages |-> colorPages,
     Copies |-> f.copies, Color |-> f.color, Duplex |-> f.duplex,
     Cost |-> RatesCost(pages, colorPages) * f.copies]

\* Mutant: color is what the printer does unless it is told otherwise.
FromJobInColor(j) ==
    [Copies |-> j.Copies,
     Sides |-> IF j.Duplex THEN "two-sided-long-edge" ELSE "one-sided",
     ColorMode |-> "color"]

\* The attributes of the job that its print ticket states.
FromJob(j) ==
    [Copies |-> j.Copies,
     Sides |-> IF j.Duplex THEN "two-sided-long-edge" ELSE "one-sided",
     ColorMode |-> IF j.Color THEN "color" ELSE "monochrome-grayscale"]

\* The printer obeys the ticket that XCPT puts before the document: the
\* quota that printing pages[1] pages, pages[2] of them with color, is worth.
Printed(attributes, pages) ==
    RatesCost(pages[1], IF attributes.ColorMode = "color" THEN pages[2] ELSE 0)
        * attributes.Copies

-----------------------------------------------------------------------------
(* The request r.                                                           *)

GoTo(r, point) == pc' = [pc EXCEPT ![r] = point]

\* The form is parsed, and the document is looked at.
Receive(r) ==
    /\ pc[r] = "idle"
    /\ \E f \in Forms :
          /\ form' = [form EXCEPT ![r] = f]
          /\ GoTo(r, IF f.document = "pdf" THEN "queue" ELSE "rejected")
          /\ queueSeen' = [queueSeen EXCEPT ![r] = f.queue \in enabled]
    /\ UNCHANGED <<adminVars, job, counted, dests, pick, destsSeen>>

\* Mutant: q.Enabled is not looked at.
GetQueueDisabled(r) ==
    /\ pc[r] = "queue"
    /\ LET q == form[r].queue
       IN  GoTo(r, IF q \notin Queues THEN "rejected"
                   ELSE IF q \notin policyOk THEN "unconfirmed"
                   ELSE "analyze")
    /\ UNCHANGED <<adminVars, form, job, counted, dests, pick, queueSeen, destsSeen>>

\* The row of the queue is read; there may be none.
GetQueue(r) ==
    /\ pc[r] = "queue"
    /\ LET q == form[r].queue
       IN  GoTo(r, IF q \notin Queues THEN "rejected"
                   ELSE IF q \notin policyOk THEN "unconfirmed"
                   ELSE IF q \notin enabled THEN "rejected"
                   ELSE "analyze")
    /\ UNCHANGED <<adminVars, form, job, counted, dests, pick, queueSeen, destsSeen>>

GetQueueFails(r) ==
    /\ pc[r] = "queue"
    /\ GoTo(r, "unconfirmed")
    /\ UNCHANGED <<adminVars, form, job, counted, dests, pick, queueSeen, destsSeen>>

\* gs cannot read the document or be run, or a number is out of range.
AnalyzeFails(r) ==
    /\ pc[r] = "analyze"
    /\ \E answer \in {"rejected", "unconfirmed"} : GoTo(r, answer)
    /\ UNCHANGED <<adminVars, form, job, counted, dests, pick, queueSeen, destsSeen>>

Analyze(r) ==
    /\ pc[r] = "analyze"
    /\ \E count \in PageCounts :
          LET colorPages == colorPagesOf(form[r], count[2])
          IN  /\ Acceptable(form[r], count[1], colorPages)
              /\ job' = [job EXCEPT ![r] = JobOf(form[r], count[1], colorPages)]
              /\ counted' = [counted EXCEPT ![r] = count]
    /\ GoTo(r, "store")
    /\ UNCHANGED <<adminVars, form, dests, pick, queueSeen, destsSeen>>

\* The row is inserted.
Store(r) ==
    /\ pc[r] = "store"
    /\ job[r].Cost <= MaxInteger
    /\ GoTo(r, "dests")
    /\ destsSeen' = [destsSeen EXCEPT ![r] = open]
    /\ UNCHANGED <<adminVars, form, job, counted, dests, pick, queueSeen>>

\* The quota does not suffice, or the database fails: a cost that does not
\* fit its column is one of its errors.
StoreFails(r) ==
    /\ pc[r] = "store"
    /\ \E answer \in {"insufficient", "unconfirmed"} : GoTo(r, answer)
    /\ UNCHANGED <<adminVars, form, job, counted, dests, pick, queueSeen, destsSeen>>

\* Mutant: disabled destinations are not filtered out.
DestinationsDisabled(r) ==
    /\ pc[r] = "dests"
    /\ LET read == {d \in Destinations : QueueOf[d] = job[r].QueueID}
       IN  /\ dests' = [dests EXCEPT ![r] = read]
           /\ GoTo(r, IF read = {} THEN "failed" ELSE "policy")
    /\ UNCHANGED <<adminVars, form, job, counted, pick, queueSeen, destsSeen>>

\* DestinationsForQueue and EnabledDestinations.
DestinationsForQueue(r) ==
    /\ pc[r] = "dests"
    /\ LET read == {d \in open : QueueOf[d] = job[r].QueueID}
       IN  /\ dests' = [dests EXCEPT ![r] = read]
           /\ GoTo(r, IF read = {} THEN "failed" ELSE "policy")
    /\ UNCHANGED <<adminVars, form, job, counted, pick, queueSeen, destsSeen>>

\* LoadBalancerPolicyForQueue, and the uniform balancer's Choose.
ChooseDestination(r) ==
    /\ pc[r] = "policy"
    /\ job[r].QueueID \in policyOk
    /\ \E d \in dests[r] : pick' = [pick EXCEPT ![r] = d]
    /\ GoTo(r, "send")
    /\ UNCHANGED <<adminVars, form, job, counted, dests, queueSeen, destsSeen>>

\* The policy is unknown, or one of the two reads fails.
PickFails(r) ==
    /\ pc[r] \in {"dests", "policy"}
    /\ GoTo(r, "failed")
    /\ UNCHANGED <<adminVars, form, job, counted, dests, pick, queueSeen, destsSeen>>

-----------------------------------------------------------------------------
(* Administrators, who write to the tables directly.                        *)

Stored(r)  == pc[r] \in {"dests", "policy", "send", "failed"}

SwitchQueue(q) ==
    /\ enabled' = IF q \in enabled THEN enabled \ {q} ELSE enabled \cup {q}
    /\ queueSeen' = [r \in Requests |->
          queueSeen[r] \/ (pc[r] # "idle" /\ form[r].queue \in enabled')]
    /\ UNCHANGED <<open, policyOk, form, pc, job, counted, dests, pick, destsSeen>>

SwitchDestination(d) ==
    /\ open' = IF d \in open THEN open \ {d} ELSE open \cup {d}
    /\ destsSeen' = [r \in Requests |->
          destsSeen[r] \cup (IF Stored(r) THEN open' ELSE {})]
    /\ UNCHANGED <<enabled, policyOk, form, pc, job, counted, dests, pick, queueSeen>>

ChangePolicy(q) ==
    /\ policyOk' = IF q \in policyOk THEN policyOk \ {q} ELSE policyOk \cup {q}
    /\ UNCHANGED <<enabled, open, form, pc, job, counted, dests, pick, queueSeen, destsSeen>>

Next ==
    \/ \E r \in Requests :
          \/ Receive(r) \/ GetQueue(r) \/ GetQueueFails(r)
          \/ Analyze(r) \/ AnalyzeFails(r)
          \/ Store(r) \/ StoreFails(r)
          \/ DestinationsForQueue(r) \/ ChooseDestination(r) \/ PickFails(r)
    \/ \E q \in Queues : SwitchQueue(q) \/ ChangePolicy(q)
    \/ \E d \in Destinations : SwitchDestination(d)

Spec == Init /\ [][Next]_vars

-----------------------------------------------------------------------------
Rows ==
    [QueueID : Queues, NumPages : Nat, NumColorPages : Nat, Copies : Nat,
     Color : BOOLEAN, Duplex : BOOLEAN, Cost : Nat]

TypeOK ==
    /\ enabled \subseteq Queues /\ open \subseteq Destinations
    /\ policyOk \subseteq Queues
    /\ form \in [Requests -> Forms \cup {None}]
    /\ pc \in [Requests -> Points]
    /\ job \in [Requests -> Rows \cup {None}]
    /\ counted \in [Requests -> Nat \X Nat]
    /\ dests \in [Requests -> SUBSET Destinations]
    /\ pick \in [Requests -> Destinations \cup {None}]
    /\ queueSeen \in [Requests -> BOOLEAN]
    /\ destsSeen \in [Requests -> SUBSET Destinations]

(* What passes Submit's checks passes the CHECK constraints of table job -  *)
(* in particular cost > 0 - and costs no more than the limits allow; a job  *)
(* in black and white is not charged for the color in its document.         *)
JobFitsItsTable ==
    \A r \in Requests :
        job[r] # None =>
            /\ job[r].NumPages > 0
            /\ job[r].NumColorPages >= 0 /\ job[r].NumColorPages <= job[r].NumPages
            /\ job[r].Copies > 0
            /\ job[r].Cost > 0
            /\ job[r].Cost <= MaxPages * ColorRate * MaxCopies
            /\ ~ job[r].Color => job[r].Cost = job[r].NumPages * job[r].Copies

(* The queue may be disabled while the document is analyzed; but nobody is  *)
(* charged for a queue that was disabled all the time since they submitted. *)
ChargedForOpenQueue ==
    \A r \in Requests : Stored(r) => queueSeen[r]

(* A destination may be disabled between the read and the send; but a job   *)
(* is only sent to one of its own queue that was enabled at some time since *)
(* it was charged.                                                          *)
SentWhereOpen ==
    \A r \in Requests :
        pc[r] = "send" => /\ pick[r] \in destsSeen[r]
                          /\ QueueOf[pick[r]] = form[r].queue

(* The count that is charged and the ticket that is printed are made from   *)
(* the job on different ways, through the database and past it; what the    *)
(* printer is told to print of the document is worth what was charged, and  *)
(* it is told the sides that the user chose.                                *)
PrintedAsCharged ==
    \A r \in Requests :
        pc[r] = "send" =>
            LET attributes == FromJob(job[r])
            IN  /\ Printed(attributes, counted[r]) = job[r].Cost
                /\ attributes.Sides = "one-sided" <=> ~ form[r].duplex

=============================================================================
