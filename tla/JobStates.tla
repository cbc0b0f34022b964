------------------------------ MODULE JobStates -----------------------------
(***************************************************************************)
(* The life of a row of table job: its states, which of them are final,    *)
(* which of them count against the user's quota, and the transitions that  *)
(* UpdateJobState accepts (internal/job/job.go).                           *)
(***************************************************************************)

QuotaInsufficient == "quota_insufficient"
QuotaDeducted     == "quota_deducted"
PrintSent         == "print_sent"
PrintSucceeded    == "print_succeeded"
PrintFailed       == "print_failed"
Refunded          == "refunded"

allStates == {QuotaInsufficient, QuotaDeducted, PrintSent,
              PrintSucceeded, PrintFailed, Refunded}

\* The absence of a row, which no state of the program names.
NoRow == "no_row"

IsTerminal(s) == s \in {QuotaInsufficient, PrintSucceeded, PrintFailed, Refunded}

QuotaDeductingStates == {QuotaDeducted, PrintSent, PrintSucceeded}

DeductsQuota(s) == s \in QuotaDeductingStates

validTransitions ==
    {<<QuotaDeducted, PrintSent>>,  <<QuotaDeducted, PrintFailed>>,
     <<PrintSent, PrintSucceeded>>, <<PrintSent, PrintFailed>>,
     <<PrintSucceeded, Refunded>>}

ValidTransition(from, to) == <<from, to>> \in validTransitions

=============================================================================
