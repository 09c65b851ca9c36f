SPECIFICATION FairSpec
CONSTANTS
    a1 = a1
    a2 = a2
    Account = {a1, a2}
    Observed = a1
    MaxPendingWrites = 2
    MaxWrites = 3
    MaxFaults = 2
INVARIANTS
    TypeOK
    AnswersMatchPipeline
    PipelineInOrder
    NeverStranded
    OneTokenAwaited
    SentAsOwner
    ReadYourWrites
    SettlesOnLastWrite
PROPERTIES
    CallbacksTrue
    WritesArrive
    SendsInOrder
