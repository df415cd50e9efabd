\* Controllers of one robot overlap, clients crash.
CONSTANTS
    r1 = r1
    c1 = c1  c2 = c2  c3 = c3
    g1 = g1  g2 = g2  g3 = g3
    Robots = {r1}
    Controllers = {c1, c2, c3}
    Orchestrators = {g1, g2}
    Strangers = {}
    Id <- IdShared
    MayCrash = TRUE
    Overlap = TRUE
SYMMETRY Symmetry
SPECIFICATION Spec
INVARIANTS TypeOK ServingIsRegistered RemovedForGood AnswerWasTrue
\* Controllers that nobody was told of wait in accept() for ever.
CHECK_DEADLOCK FALSE
