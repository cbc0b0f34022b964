SPECIFICATION Spec
CONSTANTS
    Requests = {1}
    Queues <- TwoQueues
    Destinations <- ThreeDests
    QueueOf <- QueueOfDest
    MaxPages = 2
    MaxCopies = 2
    ColorRate = 3
    MaxInteger = 8
    Forms <- SomeForms
    None = None
INVARIANTS
    JobFitsItsTable
    ChargedForOpenQueue
    SentWhereOpen
    PrintedAsCharged
