CONSTANTS
    n0 = n0
    n1 = n1
    n2 = n2
    n3 = n3
    Node <- MCNode
    Proposer <- MCProposer
    MaxRestarts = 1
SPECIFICATION Spec
INVARIANT DispatcherSurvivesRestart
CHECK_DEADLOCK FALSE
