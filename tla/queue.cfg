SPECIFICATION FairSpec
CONSTANTS
    image = image
    official = official
    video = video
    NoTask = NoTask
    Tasks <- Three
    Kind <- Kinds
    Official <- OfficialImages
    Limit <- OneEach
    MaxTasks = 2
    MaxAsks = 3
    MaxLoads = 0
    MayDie = TRUE
PROPERTIES
    NewestWins
    QueuedLeaves
CHECK_DEADLOCK FALSE
