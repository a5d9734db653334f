SPECIFICATION Spec
CONSTANTS
    image = image
    official = official
    video = video
    NoTask = NoTask
    Tasks <- Pair
    Kind <- Kinds
    Official <- OfficialImages
    Limit <- OneEach
    MaxTasks = 2
    MaxAsks = 2
    MaxLoads = 1
    MayDie = TRUE
INVARIANTS
    RunningIsExecuted
PROPERTIES
    NoRegeneration
CHECK_DEADLOCK FALSE
