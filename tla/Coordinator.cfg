\* More ids than responses are remembered: pruning and placing again happen.
SPECIFICATION FairSpec
CONSTANTS
    None = None
    Caller = {c1, c2}
    Id = {i1, i2}
    Payload = {buy, sell}
    MaxCompleted = 1
INVARIANTS
    TypeOK
    CompletedAreStored
    ResponsesMatchRequests
    WaitersHaveTask
PROPERTIES
    SettledNotPlacedAgain
    ImplementsSubmission
    CallersAnswered
