------------------------------ MODULE MCSubmit ------------------------------
(***************************************************************************)
(* A small instance of Submit: two queues, the second with one destination.*)
(***************************************************************************)
EXTENDS Submit

TwoQueues  == {1, 2}
ThreeDests == {"a", "b", "c"}
QueueOfDest == [d \in ThreeDests |-> IF d = "c" THEN 2 ELSE 1]

\* Forms that pass, and forms that fail one check each: the document, the
\* queue (which was deleted), and the number of copies at its two limits.
SomeForms ==
    {[document |-> "pdf", queue |-> q, color |-> color, duplex |-> n = 1,
      copies |-> n] :
        q \in {1, 2}, color \in BOOLEAN, n \in {0, 1, MaxCopies, MaxCopies + 1}}
    \cup {[document |-> "big", queue |-> 1, color |-> TRUE, duplex |-> FALSE, copies |-> 1],
          [document |-> "other", queue |-> 1, color |-> TRUE, duplex |-> FALSE, copies |-> 1],
          [document |-> "pdf", queue |-> 3, color |-> TRUE, duplex |-> FALSE, copies |-> 1]}

=============================================================================
