CONSTANTS
    Projects = {1, 2}
    MaxRequests = 2
SPECIFICATION ProjectSpec
INVARIANTS
    LoopsFollowTheProject
CHECK_DEADLOCK FALSE
