SPECIFICATION FairSpec
CONSTANTS
    Users = {u1}
    Driver = driver
    Nobody = nobody
    Devices = {d1}
    Slow = {d1}
    MaxAttentions = 1
    Patience = 1
    Asks <- DriverAsks
    Fresh <- NoDone
    InOrder = TRUE
INVARIANTS OwnRequest QueueIsUnanswered SuccessUntilLate
PROPERTIES AnswerStands EverySentIsAnswered
