SPECIFICATION Spec
CONSTANTS
    t1 = t1  t2 = t2  t3 = t3
    g1 = g1  g2 = g2
    Tasks = {t1, t2, t3}
    Groups = {g1, g2}
    Workers = {w1, w2}
    Processes = {p1, p2}
    GroupOf <- TwoGroups
    SpecOf <- TwoModules
    BatchSize = 2
    ExitingGroups = {}
    MayShutdown = FALSE
    MayDiscard = FALSE
    None = None
SYMMETRY ActorSymmetry
INVARIANTS RightProcess
