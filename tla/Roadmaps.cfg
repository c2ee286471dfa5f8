SPECIFICATION Spec
CHECK_DEADLOCK FALSE
SYMMETRY ClientSymmetry
CONSTANTS
    Clients = {c1, c2}
    Ops = {"createTopic", "completeTopic", "deleteTopic", "updateTopic", "createProblem", "updateProblem", "moveProblem", "deleteProblem"}
    Progresses <- Half
    MaxTopics = 2
    MaxProblems = 2
    MaxRequests = 2
    MaxFaults = 1
INVARIANT TypeOK
INVARIANT CountsExplained
INVARIANT CompletedHasLadder
PROPERTY TopicStaysDeleted
