\* Controllers follow each other; ids that stoi() rejects, a message that is not
\* understood, clients that hang up.
CONSTANTS
    r1 = r1
    c1 = c1  c2 = c2  c3 = c3
    g1 = g1  g2 = g2  g3 = g3
    Robots = {r1}
    Controllers = {c1, c2}
    Orchestrators = {g1, g3}
    Strangers = {"malformed"}
    Id <- IdStrange
    MayCrash = TRUE
    Overlap = FALSE
SPECIFICATION FairSpec
PROPERTIES EventuallyRegistered AskedIsAnswered
\* Controllers that nobody was told of wait in accept() for ever.
CHECK_DEADLOCK FALSE
