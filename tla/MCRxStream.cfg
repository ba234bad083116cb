\* Two connections with two frames each, cut in every way.
SPECIFICATION Spec
CONSTANTS
    Frames <- MCFrames
    Tids <- MCTids
    MaxFrames = 2
    MaxConnections = 2
INVARIANT TypeOK
PROPERTIES FramesArriveInOrder AllFramesArrive OnlyAnswersAreDelivered
CHECK_DEADLOCK FALSE
