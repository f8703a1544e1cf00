CONSTANTS
    TrainSizes <- MCTrainSizes
    Scores <- MCScores
    NoModel = NoModel
SPECIFICATION Spec
INVARIANTS
    SearchNeverRaises
CHECK_DEADLOCK FALSE
