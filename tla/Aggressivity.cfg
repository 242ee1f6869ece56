\* The values of the code.
CONSTANTS
    Scores <- MCScores
    SuccessScore = 50
    Options <- MCOptions
    AggressivityMin = 1
    AggressivityMax = 100
    AddAfter = 5
    FasterAfter = 10
    SlowerAfter = 5
    NoScore = NoScore
    AgeBound = 11
SPECIFICATION FairSpec
PROPERTIES SuccessKept FollowsScores
