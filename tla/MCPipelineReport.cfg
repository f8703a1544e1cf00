CONSTANTS
    TrainSizes <- MCTrainSizes
    Scores <- MCScores
    NoModel = NoModel
SPECIFICATION Spec
INVARIANTS
    ReportedSuccessMeansSaved
CHECK_DEADLOCK FALSE
