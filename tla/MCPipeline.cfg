CONSTANTS
    TrainSizes <- MCTrainSizes
    Scores <- MCScores
    NoModel = NoModel
SPECIFICATION Spec
INVARIANTS
    SavedModelIsBest
CHECK_DEADLOCK FALSE
