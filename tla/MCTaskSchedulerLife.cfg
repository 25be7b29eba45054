SPECIFICATION FairSpec
CONSTANTS
    t1 = t1  t2 = t2  t3 = t3
    g1 = g1  g2 = g2
    Tasks = {t1, t2}
    Groups = {g1}
    Workers = {w1}
    Processes = {p1}
    GroupOf <- OneGroup
    SpecOf <- OneModule
    BatchSize = 2
    ExitingGroups = {g1}
    MayShutdown = TRUE
    MayDiscard = TRUE
    None = None
INVARIANTS CompletionsSound
PROPERTIES TasksComplete CallsReturn
CHECK_DEADLOCK FALSE
