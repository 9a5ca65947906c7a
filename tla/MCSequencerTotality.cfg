CONSTANTS
    n0 = n0
    n1 = n1
    n2 = n2
    n3 = n3
    Node <- MCNode
    Proposer <- MCProposerOne
    MaxRound = 1
    MaxCrashes = 0
    Faulty = {}
SPECIFICATION Spec
PROPERTY Totality
