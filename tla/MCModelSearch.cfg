CONSTANTS
    TrainSizes <- MCTrainSizes
    Scores <- MCScores
    NoModel = NoModel
SPECIFICATION Spec
INVARIANTS
    TypeOK
    SelectionCorrect
PROPERTIES
    SelectionSpecRefined
CHECK_DEADLOCK FALSE
