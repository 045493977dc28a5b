SPECIFICATION WalkSpec
CONSTANTS
    n1 = n1
    n2 = n2
    n3 = n3
    missing = missing
    NoTransition = NoTransition
    Nobody = Nobody
    Graphs <- ThreeNodeGraphs
PROPERTIES CycleIsAnswered
CHECK_DEADLOCK FALSE
