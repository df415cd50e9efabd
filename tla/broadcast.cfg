\* Two clients that pipeline puts and gets; one of them is noisy too, and each may be an Orchestrator.
CONSTANTS
    a = a  n = n
    Clients = {a, n}
    Noisy = {n}
    Closing = {n}
    MaxSent = 3
    SocketBuffer = 2
SPECIFICATION FairSpec
\* The process may end, and clients need not send anything.
CHECK_DEADLOCK FALSE
INVARIANTS AnswersSound OnlyRudeClientsEndIt
PROPERTY GetAnswered
